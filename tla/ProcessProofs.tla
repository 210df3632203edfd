--------------------------- MODULE ProcessProofs ---------------------------
(***************************************************************************)
(* Theorems about RequestPath and Process, for any configurations of the   *)
(* store, requests, replies and bounds: what a request's state is at every *)
(* stage, that a candidate is served, what an answer says, what of a       *)
(* request and of a reply a conversion keeps, and what holds of every part *)
(* of the process.                                                         *)
(***************************************************************************)
EXTENDS Process, OperatorProofs, StreamDeliveryProofs
---------------------------------------------------------------------------
(* RequestPath: the client's request.                                      *)

PartKinds == {"text", "call", "result"}
RequestParts == [kind : PartKinds, id : Nat]
RequestMessages == [role : {"user", "assistant", "system", "tool"}, parts : Seq(RequestParts)]

\* The parts of a conversation, when it is written message by message.
LEMMA PartsTyped ==
  ASSUME NEW c \in Seq(RequestMessages), NEW m \in RequestMessages
  PROVE  /\ PartsOf(c) \in Seq(RequestParts)
         /\ PartsOf(Append(c, m)) = PartsOf(c) \o m.parts
         /\ Append(c, m) \in Seq(RequestMessages)
<1> DEFINE d == Append(c, m)
           before == [i \in DOMAIN c |-> c[i].parts]
           after == [i \in DOMAIN d |-> d[i].parts]
<1>1. /\ Len(c) \in Nat /\ DOMAIN c = 1 .. Len(c) /\ d \in Seq(RequestMessages)
      /\ DOMAIN d = 1 .. Len(c) + 1 /\ d[Len(c) + 1] = m
      /\ \A i \in 1 .. Len(c) : d[i] = c[i]
  BY Appended
<1>2. \A i \in DOMAIN c : c[i] \in RequestMessages
  BY ElementOfSeq, <1>1
<1>3. before \in Seq(Seq(RequestParts)) /\ Len(before) = Len(c)
  <2>1. before \in [1 .. Len(c) -> Seq(RequestParts)]
    BY <1>1, <1>2 DEF RequestMessages
  <2>2. before \in Seq(Seq(RequestParts))
    BY <1>1, <2>1, SeqDef
  <2>3. DOMAIN before = 1 .. Len(c)
    BY <1>1
  <2> HIDE DEF before
  <2> QED BY <1>1, <2>2, <2>3, LenProperties
<1>4. m.parts \in Seq(RequestParts)
  BY DEF RequestMessages
<1>5. after = Append(before, m.parts)
  <2>1. /\ Append(before, m.parts) \in Seq(Seq(RequestParts))
        /\ DOMAIN Append(before, m.parts) = 1 .. Len(c) + 1
        /\ \A i \in 1 .. Len(c) : Append(before, m.parts)[i] = before[i]
        /\ Append(before, m.parts)[Len(c) + 1] = m.parts
    <3> HIDE DEF before
    <3> QED BY <1>3, <1>4, Appended
  <2>2. \A i \in 1 .. Len(c) : before[i] = c[i].parts
    BY <1>1
  <2> DEFINE both == Append(before, m.parts)
  <2>3. both = [i \in 1 .. Len(c) + 1 |-> both[i]]
    <3>1. both \in Seq(Seq(RequestParts)) /\ DOMAIN both = 1 .. Len(c) + 1
      BY <2>1
    <3> HIDE DEF both
    <3>2. Len(both) = Len(c) + 1
      BY <1>1, <3>1, LenProperties
    <3> QED BY <3>1, <3>2, IsASeq
  <2>4. \A i \in 1 .. Len(c) + 1 : both[i] = d[i].parts
    <3>1. \A i \in 1 .. Len(c) + 1 : i \in 1 .. Len(c) \/ i = Len(c) + 1
      BY <1>1
    <3> HIDE DEF before, d
    <3> QED BY <1>1, <2>1, <2>2, <3>1
  <2> HIDE DEF both, d, before
  <2>5. after = [i \in 1 .. Len(c) + 1 |-> d[i].parts]
    BY <1>1
  <2>6. both = [i \in 1 .. Len(c) + 1 |-> d[i].parts]
    BY <2>3, <2>4
  <2>7. both = after
    BY <2>5, <2>6
  <2> QED BY <2>7 DEF both, before
<1>6. PartsOf(c) = FlattenSeq(before) /\ PartsOf(d) = FlattenSeq(after)
  BY DEF PartsOf
<1> HIDE DEF before, after, d
<1> QED BY <1>1, <1>3, <1>4, <1>5, <1>6, FlattenLast, FlattenTyped DEF d

\* What is of one kind is among the parts.
LEMMA KindTyped ==
  ASSUME NEW A, NEW s \in Seq(A), NEW kind PROVE OfKind(s, kind) \in Seq(A)
<1> DEFINE pieces == [i \in DOMAIN s |-> IF s[i].kind = kind THEN <<s[i]>> ELSE <<>>]
<1>1. Len(s) \in Nat /\ DOMAIN s = 1 .. Len(s) /\ \A i \in DOMAIN s : s[i] \in A
  BY LenProperties, ElementOfSeq
<1>2. \A i \in DOMAIN s : <<s[i]>> \in Seq(A) /\ <<>> \in Seq(A)
  BY <1>1
<1>3. pieces \in [1 .. Len(s) -> Seq(A)]
  BY <1>1, <1>2
<1>4. pieces \in Seq(Seq(A))
  BY <1>1, <1>3, SeqDef
<1>5. OfKind(s, kind) = FlattenSeq(pieces)
  BY DEF OfKind
<1> HIDE DEF pieces
<1> QED BY <1>4, <1>5, FlattenTyped

\* Nothing is said by a tool, and an item is one thing: a text, a call or a
\* result.
SpokenMessages ==
  {m \in RequestMessages : m.role = "tool" => \A i \in DOMAIN m.parts : m.parts[i].kind # "text"}
ItemMessages ==
  {m \in SpokenMessages : /\ m.parts # <<>>
                  /\ \A i \in DOMAIN m.parts : Phase(m.parts[i]) = Phase(m.parts[1])}
WellShaped(dialect, c) ==
  c \in Seq(SpokenMessages) /\ (dialect = "responses" => c \in Seq(ItemMessages))

IsDraft(d) ==
  /\ d = [dialect |-> d.dialect, options |-> d.options, conv |-> d.conv]
  /\ d.dialect \in ClientDialects /\ d.options \subseteq Fragments(d.dialect)
  /\ IsFiniteSet(d.options) /\ d.conv \in Seq(RequestMessages) /\ WellShaped(d.dialect, d.conv)
  /\ Cardinality(d.options) + Len(PartsOf(d.conv)) <= MaxSize

DraftInv == IsDraft(draft)

LEMMA SizeIs == DraftInv => /\ Parts \in Seq(RequestParts) /\ Len(Parts) \in Nat
                            /\ Cardinality(draft.options) \in Nat
                            /\ Size = Cardinality(draft.options) + Len(Parts)
<1> SUFFICES ASSUME DraftInv
             PROVE  /\ Parts \in Seq(RequestParts) /\ Len(Parts) \in Nat
                    /\ Cardinality(draft.options) \in Nat
                    /\ Size = Cardinality(draft.options) + Len(Parts)
  OBVIOUS
<1>1. PartsOf(draft.conv) \in Seq(RequestParts)
  <2>1. Message("user", <<>>) \in RequestMessages
    BY DEF Message, RequestMessages
  <2> QED BY <2>1, PartsTyped DEF DraftInv, IsDraft
<1>2. Len(Parts) \in Nat
  BY <1>1, LenProperties DEF Parts
<1> QED BY <1>1, <1>2, FS_CardinalityType DEF Size, Parts, DraftInv, IsDraft

LEMMA BlankIs ==
  ASSUME NEW d \in ClientDialects PROVE IsDraft(Blank(d))
<1>1. Blank(d) = [dialect |-> d, options |-> {}, conv |-> <<>>]
  BY DEF Blank
<1>2. PartsOf(<<>>) = <<>>
  BY FlattenNone DEF PartsOf
<1>3. Cardinality({}) + Len(PartsOf(<<>>)) = 0
  BY <1>2, FS_EmptySet
<1>4. WellShaped(d, <<>>)
  BY DEF WellShaped
<1> QED BY <1>1, <1>3, <1>4, FS_EmptySet, RequestPathAssumption DEF IsDraft

\* What is said in a message of its own, or after the rest of one.
LEMMA SaidBy ==
  ASSUME NEW x \in RequestParts, NEW role \in {"user", "assistant", "system", "tool"},
         role = "tool" => x.kind # "text"
  PROVE  /\ Message(role, <<x>>) \in ItemMessages /\ ItemMessages \subseteq SpokenMessages
         /\ \A m \in SpokenMessages : m.role = role => Message(role, Append(m.parts, x)) \in SpokenMessages
<1>1. Message(role, <<x>>) \in ItemMessages
  <2>1. <<x>> \in Seq(RequestParts) /\ DOMAIN <<x>> = {1} /\ <<x>>[1] = x /\ <<x>> # <<>>
    OBVIOUS
  <2> DEFINE xs == <<x>>
  <2> HIDE DEF xs
  <2> QED BY <2>1 DEF xs, Message, RequestMessages, SpokenMessages, ItemMessages
<1>2. ASSUME NEW m \in SpokenMessages, m.role = role PROVE Message(role, Append(m.parts, x)) \in SpokenMessages
  <2> DEFINE xs == Append(m.parts, x)
  <2>1. m.parts \in Seq(RequestParts)
    BY DEF SpokenMessages, RequestMessages
  <2>2. /\ xs \in Seq(RequestParts) /\ DOMAIN xs = 1 .. Len(m.parts) + 1
        /\ DOMAIN m.parts = 1 .. Len(m.parts) /\ Len(m.parts) \in Nat
        /\ \A i \in 1 .. Len(m.parts) : xs[i] = m.parts[i]
        /\ xs[Len(m.parts) + 1] = x
    BY <2>1, Appended
  <2> HIDE DEF xs
  <2>3. ASSUME role = "tool", NEW i \in DOMAIN xs PROVE xs[i].kind # "text"
    <3>1. CASE i = Len(m.parts) + 1
      BY <2>2, <2>3, <3>1
    <3>2. CASE i # Len(m.parts) + 1
      <4>1. i \in DOMAIN m.parts /\ xs[i] = m.parts[i]
        BY <2>2, <2>3, <3>2
      <4>2. m.parts[i].kind # "text"
        BY <1>2, <2>3, <4>1 DEF SpokenMessages
      <4> QED BY <4>1, <4>2
    <3> QED BY <3>1, <3>2
  <2>4. Message(role, xs) \in RequestMessages /\ Message(role, xs).parts = xs
        /\ Message(role, xs).role = role
    BY <2>2 DEF Message, RequestMessages
  <2>5. Message(role, xs) \in SpokenMessages
    BY <2>3, <2>4 DEF SpokenMessages
  <2> QED BY <2>5 DEF xs
<1> QED BY <1>1, <1>2 DEF ItemMessages

\* A conversation grows by one part, in a message of its own or in the last.
LEMMA ExtendedIs ==
  ASSUME DraftInv, NEW kind \in PartKinds,
         NEW role \in {"user", "assistant", "system", "tool"}, NEW id \in Nat,
         role = "tool" => kind # "text"
  PROVE  /\ Extended(kind, role, id) \in Seq(RequestMessages)
         /\ WellShaped(draft.dialect, Extended(kind, role, id))
         /\ Len(PartsOf(Extended(kind, role, id))) = Len(Parts) + 1
<1> DEFINE piece == [kind |-> kind, id |-> id]
           conv0 == draft.conv
           last == conv0[Len(conv0)]
           joins == /\ conv0 # <<>>
                    /\ last.role = role
                    /\ \/ draft.dialect = "messages"
                       \/ draft.dialect = "chat" /\ kind = "call"
<1>1. conv0 \in Seq(RequestMessages) /\ piece \in RequestParts
  BY DEF DraftInv, IsDraft, RequestParts
<1>1a. /\ Message(role, <<piece>>) \in ItemMessages /\ ItemMessages \subseteq SpokenMessages
       /\ \A m \in SpokenMessages : m.role = role => Message(role, Append(m.parts, piece)) \in SpokenMessages
  <2>1. piece.kind = kind
    OBVIOUS
  <2> HIDE DEF piece
  <2> QED BY <1>1, <2>1, SaidBy
<1>1b. conv0 \in Seq(SpokenMessages) /\ (draft.dialect = "responses" => conv0 \in Seq(ItemMessages))
  BY DEF DraftInv, IsDraft, WellShaped
<1>2. Extended(kind, role, id) =
        IF joins THEN Front(conv0) \o <<Message(role, Append(last.parts, piece))>>
        ELSE Append(conv0, Message(role, <<piece>>))
  BY DEF Extended
<1>3. CASE ~joins
  <2>1. Message(role, <<piece>>) \in RequestMessages
    <3>1. <<piece>> \in Seq(RequestParts)
      BY <1>1
    <3> QED BY <3>1 DEF Message, RequestMessages
  <2>2. Extended(kind, role, id) = Append(conv0, Message(role, <<piece>>))
    BY <1>2, <1>3
  <2>3. /\ PartsOf(conv0) \in Seq(RequestParts)
        /\ PartsOf(Append(conv0, Message(role, <<piece>>)))
             = PartsOf(conv0) \o Message(role, <<piece>>).parts
        /\ Append(conv0, Message(role, <<piece>>)) \in Seq(RequestMessages)
    <3> HIDE DEF piece
    <3> QED BY <1>1, <2>1, PartsTyped
  <2>4. Message(role, <<piece>>).parts = <<piece>> /\ <<piece>> \in Seq(RequestParts)
        /\ Len(<<piece>>) = 1
    BY <1>1 DEF Message
  <2>5. Len(PartsOf(conv0) \o <<piece>>) = Len(PartsOf(conv0)) + 1
    <3> HIDE DEF piece
    <3> QED BY <2>3, <2>4, ConcatProperties
  <2>6. WellShaped(draft.dialect, Extended(kind, role, id))
    <3> HIDE DEF piece, conv0
    <3>1. Append(conv0, Message(role, <<piece>>)) \in Seq(SpokenMessages)
      BY <1>1a, <1>1b, AppendProperties
    <3>2. draft.dialect = "responses" =>
            Append(conv0, Message(role, <<piece>>)) \in Seq(ItemMessages)
      BY <1>1a, <1>1b, AppendProperties
    <3> QED BY <2>2, <3>1, <3>2 DEF WellShaped
  <2> QED BY <2>2, <2>3, <2>4, <2>5, <2>6 DEF Parts
<1>4. CASE joins
  <2>1. conv0 # <<>>
    BY <1>4
  <2>2. PICK t \in Seq(RequestMessages), x \in RequestMessages :
          conv0 = Append(t, x) /\ Len(conv0) = Len(t) + 1
    <3> HIDE DEF conv0
    <3> QED BY <1>1, <2>1, LastOne
  <2>3. Len(t) \in Nat /\ Front(conv0) = t /\ last = x
    <3>1. /\ Len(t) \in Nat /\ Append(t, x) \in Seq(RequestMessages)
          /\ Append(t, x)[Len(t) + 1] = x /\ \A i \in 1 .. Len(t) : Append(t, x)[i] = t[i]
      BY Appended
    <3>2. last = x
      BY <2>2, <3>1
    <3>3. Front(conv0) = SubSeq(Append(t, x), 1, Len(t))
      <4>1. (Len(t) + 1) - 1 = Len(t)
        BY <3>1
      <4> QED BY <2>2, <4>1 DEF Front
    <3> DEFINE u == SubSeq(Append(t, x), 1, Len(t))
    <3>4. /\ u \in Seq(RequestMessages) /\ Len(u) = Len(t)
          /\ \A i \in 1 .. Len(t) : u[i] = t[i]
      <4>1. Len(Append(t, x)) = Len(t) + 1
        BY Appended
      <4>2. u = [i \in 1 .. Len(t) |-> Append(t, x)[i]]
        BY <3>1
      <4>3. u = [i \in 1 .. Len(t) |-> t[i]]
        BY <3>1, <4>2
      <4>4. t = [i \in 1 .. Len(t) |-> t[i]]
        BY IsASeq
      <4>5. u = t
        BY <4>3, <4>4
      <4> QED BY <4>5
    <3>5. u = t
      <4> HIDE DEF u
      <4> QED BY <3>4, SeqEqual
    <3> QED BY <3>1, <3>2, <3>3, <3>5
  <2> DEFINE m == Message(role, Append(x.parts, piece))
  <2>4. x.parts \in Seq(RequestParts)
    BY DEF RequestMessages
  <2>5. Append(x.parts, piece) \in Seq(RequestParts) /\ Len(Append(x.parts, piece)) = Len(x.parts) + 1
    <3> HIDE DEF piece
    <3> QED BY <1>1, <2>4, AppendProperties
  <2>6. m \in RequestMessages /\ m.parts = Append(x.parts, piece)
    BY <2>5 DEF Message, RequestMessages
  <2>7. Extended(kind, role, id) = t \o <<m>>
    BY <1>2, <1>4, <2>3
  <2> HIDE DEF m
  <2>8. t \o <<m>> = Append(t, m)
    BY <2>6, AppendIsConcat
  <2>9. /\ PartsOf(t) \in Seq(RequestParts) /\ PartsOf(Append(t, m)) = PartsOf(t) \o m.parts
        /\ PartsOf(conv0) = PartsOf(t) \o x.parts /\ Append(t, m) \in Seq(RequestMessages)
    BY <2>2, <2>6, PartsTyped
  <2>10. /\ Len(PartsOf(t) \o m.parts) = Len(PartsOf(t)) + (Len(x.parts) + 1)
         /\ Len(PartsOf(t) \o x.parts) = Len(PartsOf(t)) + Len(x.parts)
    <3>1. m.parts \in Seq(RequestParts) /\ Len(m.parts) = Len(x.parts) + 1
      BY <2>5, <2>6
    <3>2. Len(PartsOf(t) \o m.parts) = Len(PartsOf(t)) + Len(m.parts)
      BY <2>9, <3>1, ConcatProperties
    <3>3. Len(PartsOf(t) \o x.parts) = Len(PartsOf(t)) + Len(x.parts)
      BY <2>4, <2>9, ConcatProperties
    <3> QED BY <3>1, <3>2, <3>3
  <2>11. Len(PartsOf(t)) \in Nat /\ Len(x.parts) \in Nat
    <3>1. \A s \in Seq(RequestParts) : Len(s) \in Nat
      BY LenProperties
    <3> QED BY <2>4, <2>9, <3>1
  <2>12. /\ Extended(kind, role, id) = Append(t, m)
         /\ PartsOf(Append(t, m)) = PartsOf(t) \o m.parts
         /\ Parts = PartsOf(t) \o x.parts
    BY <2>7, <2>8, <2>9 DEF Parts
  <2>13. Len(Parts) = Len(PartsOf(t)) + Len(x.parts)
    BY <2>10, <2>12
  <2>14. Len(PartsOf(Extended(kind, role, id))) = Len(PartsOf(t)) + (Len(x.parts) + 1)
    BY <2>10, <2>12
  <2>15. Extended(kind, role, id) \in Seq(RequestMessages)
    BY <2>9, <2>12
  <2>16. WellShaped(draft.dialect, Extended(kind, role, id))
    <3>1. draft.dialect # "responses" /\ x.role = role
      BY <1>4, <2>3
    <3>2. t \in Seq(SpokenMessages) /\ x \in SpokenMessages
      <4>1. conv0 \in Seq(SpokenMessages) /\ conv0 # <<>>
        BY <1>1b, <1>4
      <4>2. PICK u \in Seq(SpokenMessages), y \in SpokenMessages : conv0 = Append(u, y)
        <5> HIDE DEF conv0
        <5> QED BY <4>1, LastOne
      <4>3. u \in Seq(RequestMessages) /\ y \in RequestMessages
        <5>1. SpokenMessages \subseteq RequestMessages
          BY DEF SpokenMessages
        <5> QED BY <5>1, SeqMonotonic
      <4>4. t = u /\ x = y
        <5>1. Append(t, x) = Append(u, y)
          BY <2>2, <4>2
        <5>2. /\ t \in Seq(RequestMessages) /\ x \in RequestMessages
              /\ u \in Seq(RequestMessages) /\ y \in RequestMessages
          BY <2>2, <4>3
        <5> QED BY ONLY <5>1, <5>2, AppendInjective
      <4> QED BY <4>4
    <3>3. m \in SpokenMessages
      <4> HIDE DEF piece
      <4> QED BY <1>1a, <3>1, <3>2 DEF m
    <3>4. Append(t, m) \in Seq(SpokenMessages)
      BY <3>2, <3>3, AppendProperties
    <3> QED BY <2>12, <3>1, <3>4 DEF WellShaped
  <2> QED BY <2>11, <2>13, <2>14, <2>15, <2>16
<1> QED BY <1>3, <1>4

LEMMA DraftGrows ==
  ASSUME DraftInv, AddFragment \/ AddPart PROVE DraftInv'
<1>1. MaxSize \in Nat
  BY RequestPathAssumption
<1>2. CASE AddFragment
  <2>1. PICK f \in Fragments(draft.dialect) \ draft.options :
          draft' = [draft EXCEPT !.options = @ \cup {f}]
    BY <1>2 DEF AddFragment
  <2>2. Size < MaxSize
    BY <1>2 DEF AddFragment
  <2>3. draft' = [dialect |-> draft.dialect, options |-> draft.options \cup {f}, conv |-> draft.conv]
    BY <2>1 DEF DraftInv, IsDraft
  <2>4. /\ IsFiniteSet(draft.options \cup {f})
        /\ Cardinality(draft.options \cup {f}) = Cardinality(draft.options) + 1
    BY <2>1, FS_AddElement DEF DraftInv, IsDraft
  <2>5. Size' = Cardinality(draft.options \cup {f}) + Len(Parts)
    BY <2>3 DEF Size, Parts
  <2>6. Size' <= MaxSize
    BY <1>1, <2>2, <2>4, <2>5, SizeIs
  <2> QED BY <2>1, <2>3, <2>4, <2>6 DEF DraftInv, IsDraft, Size, Parts
<1>3. CASE AddPart
  <2>1. PICK kind \in PartKinds, role \in {"user", "assistant", "system", "tool"}, id \in Nat :
          /\ draft' = [draft EXCEPT !.conv = Extended(kind, role, id)]
          /\ role = "tool" => kind # "text"
    <3>1. Len(Parts) + 1 \in Nat
      BY SizeIs
    <3>2. Ids(OfKind(Parts, "call")) \subseteq Nat
      <4>1. OfKind(Parts, "call") \in Seq(RequestParts)
        BY SizeIs, KindTyped
      <4>2. \A i \in DOMAIN OfKind(Parts, "call") : OfKind(Parts, "call")[i] \in RequestParts
        BY <4>1, LenProperties, ElementOfSeq
      <4> QED BY <4>2 DEF Ids, ToSet, RequestParts
    <3> QED BY <1>3, <3>1, <3>2 DEF AddPart, PartKinds
  <2>2. Size < MaxSize
    BY <1>3 DEF AddPart
  <2>3. draft' = [dialect |-> draft.dialect, options |-> draft.options,
                  conv |-> Extended(kind, role, id)]
    BY <2>1 DEF DraftInv, IsDraft
  <2>4. /\ Extended(kind, role, id) \in Seq(RequestMessages)
        /\ Len(PartsOf(Extended(kind, role, id))) = Len(Parts) + 1
        /\ WellShaped(draft.dialect, Extended(kind, role, id))
    BY <2>1, ExtendedIs
  <2>5. Size' = Cardinality(draft.options) + Len(PartsOf(Extended(kind, role, id)))
    BY <2>3 DEF Size, Parts
  <2>6. Size' <= MaxSize
    BY <1>1, <2>2, <2>4, <2>5, SizeIs
  <2> QED BY <2>3, <2>4, <2>6 DEF DraftInv, IsDraft, Size, Parts
<1> QED BY <1>2, <1>3

---------------------------------------------------------------------------
(* RequestPath: matching.                                                  *)

\* The dialects a request in d may go out in.
Reach(d) == {d} \cup (IF d \in Dialects3 THEN Dialects3 ELSE {})

LEMMA EdgesAre ==
  ASSUME NEW d
  PROVE  /\ ToSet(ConversionEdgesFor(d)) = Reach(d) \ {d}
         /\ DOMAIN ConversionEdgesFor(d) \subseteq Nat
<1>1. CASE d = "messages"
  BY <1>1 DEF ConversionEdgesFor, ToSet, Reach, Dialects3
<1>2. CASE d = "responses"
  BY <1>2 DEF ConversionEdgesFor, ToSet, Reach, Dialects3
<1>3. CASE d = "chat"
  BY <1>3 DEF ConversionEdgesFor, ToSet, Reach, Dialects3
<1>4. CASE d \notin Dialects3
  BY <1>4 DEF ConversionEdgesFor, ToSet, Reach, Dialects3
<1> QED BY <1>1, <1>2, <1>3, <1>4 DEF Dialects3

\* What a route in the dialect d asks of a target.
Carries(q, s, t, d) ==
  /\ SupportsModel(s, t.provider, t.model, d)
  /\ IF d = q.dialect THEN NativeFeaturesSupported(q, s, t) ELSE EdgeSupportsRequest(q, d, s, t)

\* A target is used in a dialect that carries the request, if there is one.
LEMMA CandidateAmong ==
  ASSUME NEW q, NEW s, NEW t, NEW A,
         \A d \in Reach(q.dialect) : Carries(q, s, t, d) => MakeCandidate(t, d) \in A
  PROVE  /\ Candidate(q, s, t) \in Seq(A)
         /\ Candidate(q, s, t) = <<>> => \A d \in Reach(q.dialect) : ~Carries(q, s, t, d)
<1> DEFINE edge == ConversionEdgesFor(q.dialect)
           possible == {n \in DOMAIN edge : /\ SupportsModel(s, t.provider, t.model, edge[n])
                                           /\ EdgeSupportsRequest(q, edge[n], s, t)}
           native == /\ SupportsModel(s, t.provider, t.model, q.dialect)
                     /\ NativeFeaturesSupported(q, s, t)
           first == CHOOSE n \in possible : \A m \in possible : n <= m
<1>1. Candidate(q, s, t) = IF native THEN <<MakeCandidate(t, q.dialect)>>
                           ELSE IF possible = {} THEN <<>>
                           ELSE <<MakeCandidate(t, edge[first])>>
  BY DEF Candidate
<1>2. \A n \in DOMAIN edge : edge[n] \in Reach(q.dialect) \ {q.dialect}
  BY EdgesAre DEF ToSet
<1>3. q.dialect \in Reach(q.dialect)
  BY DEF Reach
<1>4. CASE native
  <2>1. MakeCandidate(t, q.dialect) \in A
    BY <1>3, <1>4 DEF Carries
  <2> QED BY <1>1, <1>4, <2>1
<1>5. CASE ~native /\ possible = {}
  <2>1. \A d \in Reach(q.dialect) \ {q.dialect} : \E n \in DOMAIN edge : edge[n] = d
    BY EdgesAre DEF ToSet
  <2>2. ASSUME NEW d \in Reach(q.dialect), Carries(q, s, t, d) PROVE FALSE
    <3>1. CASE d = q.dialect
      BY <1>5, <2>2, <3>1 DEF Carries
    <3>2. CASE d # q.dialect
      <4>1. PICK n \in DOMAIN edge : edge[n] = d
        BY <2>1, <3>2
      <4>2. n \in possible
        BY <2>2, <3>2, <4>1 DEF Carries
      <4> QED BY <1>5, <4>2
    <3> QED BY <3>1, <3>2
  <2>3. Candidate(q, s, t) = <<>>
    BY <1>1, <1>5
  <2> QED BY <2>2, <2>3
<1>6. CASE ~native /\ possible # {}
  <2>1. first \in possible
    <3>1. possible \in SUBSET Nat
      BY EdgesAre
    <3>2. \E n \in possible : \A m \in possible : n <= m
      <4> HIDE DEF possible
      <4> QED BY <1>6, <3>1, LeastNat
    <3> HIDE DEF possible
    <3> QED BY <3>2
  <2>2. edge[first] \in Reach(q.dialect) /\ Carries(q, s, t, edge[first])
    <3> HIDE DEF first
    <3> QED BY <1>2, <2>1 DEF Carries
  <2>3. Candidate(q, s, t) = <<MakeCandidate(t, edge[first])>>
    BY <1>1, <1>6
  <2> HIDE DEF first
  <2>4. MakeCandidate(t, edge[first]) \in A
    BY <2>2
  <2> HIDE DEF edge
  <2> QED BY <2>3, <2>4
<1> QED BY <1>4, <1>5, <1>6

\* Which error is said of which rule.
WellSelected(found, q, rules, providers, open, s, A) ==
  /\ found.error \in {"", "no_matching_rule", "unsupported_feature", "service_unavailable"}
  /\ found.error = "" => found.candidates \in Seq(A) /\ found.candidates # <<>>
  /\ found.error = "unsupported_feature" =>
       \E r \in FindModelRule(rules) :
         /\ \A t \in ToSet(r.targets) : Considered(t, providers, open) => Candidate(q, s, t) = <<>>
         /\ \E t \in ToSet(r.targets) : Considered(t, providers, open) /\ RejectedWireRoute(q, s, t)
  /\ found.error = "service_unavailable" =>
       \E r \in FindModelRule(rules) : \A t \in ToSet(r.targets) :
         ~(Considered(t, providers, open) /\ RejectedWireRoute(q, s, t))

LEMMA Selected ==
  ASSUME NEW q, NEW rules, NEW providers, NEW open, NEW s, NEW A,
         \A r \in rules : r.targets \in Seq(ToSet(r.targets)),
         \A r \in FindModelRule(rules) : \A t \in ToSet(r.targets) :
           Considered(t, providers, open) => Candidate(q, s, t) \in Seq(A),
         NEW found, found = SelectCandidates(q, rules, providers, open, s)
  PROVE  WellSelected(found, q, rules, providers, open, s, A)
<1>1. CASE FindModelRule(rules) = {}
  BY <1>1 DEF SelectCandidates, WellSelected
<1>2. CASE FindModelRule(rules) # {}
  <2> DEFINE r == CHOOSE x \in FindModelRule(rules) : TRUE
             listed == r.targets
             pieces == [i \in DOMAIN listed |->
                         IF Considered(listed[i], providers, open) THEN Candidate(q, s, listed[i])
                         ELSE <<>>]
             out == FlattenSeq(pieces)
             rejected == \E t \in ToSet(listed) :
                           Considered(t, providers, open) /\ RejectedWireRoute(q, s, t)
  <2>1. r \in FindModelRule(rules) /\ listed \in Seq(ToSet(listed))
    <3>1. r \in FindModelRule(rules)
      BY <1>2
    <3> HIDE DEF r
    <3> QED BY <3>1 DEF FindModelRule
  <2> DEFINE error == CASE out # <<>> -> ""
                        [] out = <<>> /\ rejected -> "unsupported_feature"
                        [] OTHER -> "service_unavailable"
  <2>2. found = [candidates |-> out, error |-> error]
    BY <1>2 DEF SelectCandidates
  <2> HIDE DEF r
  <2>3. Len(listed) \in Nat /\ DOMAIN listed = 1 .. Len(listed)
        /\ \A i \in DOMAIN listed : listed[i] \in ToSet(listed)
    BY <2>1, LenProperties DEF ToSet
  <2>4. pieces \in Seq(Seq(A))
    <3>1. \A i \in DOMAIN listed : pieces[i] \in Seq(A)
      <4>1. <<>> \in Seq(A)
        OBVIOUS
      <4> QED BY <2>1, <2>3, <4>1
    <3>2. pieces \in [1 .. Len(listed) -> Seq(A)]
      BY <2>3, <3>1
    <3> HIDE DEF pieces
    <3> QED BY <2>3, <3>2, SeqDef
  <2>5. out \in Seq(A)
    <3> HIDE DEF pieces
    <3> QED BY <2>4, FlattenTyped
  <2>6. ASSUME out = <<>>, NEW t \in ToSet(listed), Considered(t, providers, open)
        PROVE  Candidate(q, s, t) = <<>>
    <3>1. PICK i \in DOMAIN listed : listed[i] = t
      BY DEF ToSet
    <3>2. pieces[i] = Candidate(q, s, t) /\ i \in DOMAIN pieces
      BY <2>6, <3>1
    <3> HIDE DEF pieces
    <3>3. pieces[i] = <<>>
      BY <2>4, <2>6, <3>2, FlattenEmpty
    <3> QED BY <3>2, <3>3
  <2> HIDE DEF out, listed, error
  <2>7. found.candidates = out /\ found.error = error
    BY <2>2
  <2> HIDE DEF rejected
  <2>8. CASE out # <<>>
    <3>1. found.error = ""
      BY <2>7, <2>8 DEF error
    <3> QED BY <2>5, <2>7, <2>8, <3>1 DEF WellSelected
  <2>9. CASE out = <<>> /\ rejected
    <3>1. found.error = "unsupported_feature"
      BY <2>7, <2>9 DEF error
    <3> QED BY <2>1, <2>6, <2>9, <3>1 DEF listed, rejected, WellSelected
  <2>10. CASE out = <<>> /\ ~rejected
    <3>1. found.error = "service_unavailable"
      BY <2>7, <2>10 DEF error
    <3> QED BY <2>1, <2>10, <3>1 DEF listed, rejected, WellSelected
  <2> QED BY <2>8, <2>9, <2>10
<1> QED BY <1>1, <1>2

\* Routes that are shut leave a part of the candidates.
LEMMA RoutedAmong ==
  ASSUME NEW A, NEW candidates \in Seq(A), NEW shut PROVE Routed(candidates, shut) \in Seq(A)
<1> DEFINE pieces == [i \in DOMAIN candidates |->
                       IF candidates[i].to # query.dialect /\ candidates[i].provider \in shut THEN <<>>
                       ELSE <<candidates[i]>>]
<1>1. Len(candidates) \in Nat /\ DOMAIN candidates = 1 .. Len(candidates)
      /\ \A i \in DOMAIN candidates : candidates[i] \in A
  BY LenProperties, ElementOfSeq
<1>2. \A i \in DOMAIN candidates : <<candidates[i]>> \in Seq(A) /\ <<>> \in Seq(A)
  BY <1>1
<1>3. pieces \in [1 .. Len(candidates) -> Seq(A)]
  BY <1>1, <1>2
<1>4. pieces \in Seq(Seq(A))
  BY <1>1, <1>3, SeqDef
<1>5. Routed(candidates, shut) = FlattenSeq(pieces)
  BY DEF Routed
<1> HIDE DEF pieces
<1> QED BY <1>4, <1>5, FlattenTyped

---------------------------------------------------------------------------
(* What was read, against what one configuration says.                     *)

Filtered(all) == {c \in all : c.provider \in Referenced}
Restricted(providers) == [p \in Referenced \cap DOMAIN providers |-> providers[p]]

ReadAsOf(m) ==
  /\ read.rules = m.rules
  /\ read.providerRows = Filtered(m.providerRows)
  /\ read.providers = Restricted(m.providers)
  /\ read.modelRows = Filtered(m.modelRows)

LEMMA SnapshotIs ==
  LET s == Capabilities IN
  /\ s.providers =
       [p \in DOMAIN read.providers |->
          LET on(b) == {c.dialect : c \in {r \in Native(read.providerRows) : r.provider = p /\ r.enabled = b}}
          IN  (({"chat", "openai"} \cup read.providers[p].columns) \ on(FALSE)) \cup on(TRUE)]
  /\ s.providerFeatures = Explicit(read.providerRows)
  /\ s.models = Native(read.modelRows)
  /\ s.modelFeatures = Explicit(read.modelRows)
<1> DEFINE P == [p \in DOMAIN read.providers |->
          LET on(b) == {c.dialect : c \in {r \in Native(read.providerRows) : r.provider = p /\ r.enabled = b}}
          IN  (({"chat", "openai"} \cup read.providers[p].columns) \ on(FALSE)) \cup on(TRUE)]
           bare == NewCapabilitySnapshot(read.providerRows, read.providers)
<1>1. bare = [providers |-> P, providerFeatures |-> Explicit(read.providerRows),
              models |-> {}, modelFeatures |-> {}]
  BY DEF NewCapabilitySnapshot
<1>2. Capabilities = WithModels(bare, read.modelRows)
  BY DEF Capabilities
<1> HIDE DEF P, bare
<1>3. Capabilities = [providers |-> P, providerFeatures |-> Explicit(read.providerRows),
                  models |-> Native(read.modelRows), modelFeatures |-> Explicit(read.modelRows)]
  BY <1>1, <1>2 DEF WithModels
<1>4. /\ Capabilities.providers = P /\ Capabilities.providerFeatures = Explicit(read.providerRows)
      /\ Capabilities.models = Native(read.modelRows)
      /\ Capabilities.modelFeatures = Explicit(read.modelRows)
  BY <1>3
<1> QED BY <1>4 DEF P

LEMMA SnapshotSpeaks ==
  ASSUME NEW m, IsConfiguration(m), ReadAsOf(m), NEW t, t.provider \in Referenced,
         t.provider \in DOMAIN m.providers, NEW d
  PROVE  SupportsModel(Capabilities, t.provider, t.model, d) <=> Speaks(m, t, d)
<1> DEFINE row == RowsFor(Capabilities.models, t.provider, t.model, d)
           ofModel == {c \in m.modelRows : /\ c.provider = t.provider /\ c.model = t.model
                                           /\ c.dialect = d /\ c.what = "native" /\ ~c.legacy}
           ofProvider == {c \in m.providerRows : /\ c.provider = t.provider /\ c.model = ""
                                           /\ c.dialect = d /\ c.what = "native" /\ ~c.legacy}
           on(b) == {c.dialect : c \in {r \in Native(read.providerRows) :
                                          r.provider = t.provider /\ r.enabled = b}}
<1>1. row = ofModel
  BY SnapshotIs DEF RowsFor, Native, ReadAsOf, Filtered
<1>2. Decides(m, t, d, "native") = IF ofModel # {} THEN ofModel ELSE ofProvider
  BY DEF Decides
<1>3. t.provider \in DOMAIN read.providers /\ read.providers[t.provider] = m.providers[t.provider]
  BY DEF ReadAsOf, Restricted
<1>4. /\ t.provider \in DOMAIN Capabilities.providers
      /\ Capabilities.providers[t.provider] =
           (({"chat", "openai"} \cup m.providers[t.provider].columns) \ on(FALSE)) \cup on(TRUE)
  BY <1>3, SnapshotIs
<1>5. CASE ofModel # {}
  <2>1. Speaks(m, t, d) <=> \E c \in ofModel : c.enabled
    BY <1>2, <1>5 DEF Speaks
  <2>2. SupportsModel(Capabilities, t.provider, t.model, d) <=> \E c \in row : c.enabled
    BY <1>1, <1>4, <1>5 DEF SupportsModel
  <2> QED BY <1>1, <2>1, <2>2
<1>6. CASE ofModel = {}
  <2>1. SupportsModel(Capabilities, t.provider, t.model, d) <=> d \in Capabilities.providers[t.provider]
    BY <1>1, <1>4, <1>6 DEF SupportsModel, Supports
  <2>2. \A b \in BOOLEAN : d \in on(b) <=> \E c \in ofProvider : c.enabled = b
    <3> TAKE b \in BOOLEAN
    <3>1. ASSUME d \in on(b) PROVE \E c \in ofProvider : c.enabled = b
      <4>1. PICK c \in Native(read.providerRows) : c.provider = t.provider /\ c.enabled = b /\ c.dialect = d
        BY <3>1
      <4>2. c \in ofProvider
        BY <4>1 DEF Native, ReadAsOf, Filtered, IsConfiguration
      <4> QED BY <4>1, <4>2
    <3>2. ASSUME NEW c \in ofProvider, c.enabled = b PROVE d \in on(b)
      <4>1. c \in Native(read.providerRows) /\ c.provider = t.provider /\ c.dialect = d
        BY DEF Native, ReadAsOf, Filtered
      <4> QED BY <3>2, <4>1
    <3> QED BY <3>1, <3>2
  <2>3. \A c \in ofProvider : c.enabled \in BOOLEAN
    BY DEF IsConfiguration
  <2>4. Speaks(m, t, d) <=> IF ofProvider # {} THEN \E c \in ofProvider : c.enabled
                            ELSE d \in {"chat", "openai"} \cup m.providers[t.provider].columns
    BY <1>2, <1>6 DEF Speaks
  <2> HIDE DEF on, ofProvider
  <2>5. d \in on(TRUE) <=> \E c \in ofProvider : c.enabled
    BY <2>2, <2>3
  <2>6. d \in on(FALSE) <=> \E c \in ofProvider : ~c.enabled
    BY <2>2, <2>3
  <2> QED BY <1>4, <2>1, <2>4, <2>5, <2>6
<1> QED BY <1>5, <1>6

LEMMA SnapshotGrants ==
  ASSUME NEW m, IsConfiguration(m), ReadAsOf(m), NEW t, t.provider \in Referenced,
         t.provider \in DOMAIN m.providers, NEW d, NEW f \in Features
  PROVE  FeatureEnabled(Capabilities, t.provider, t.model, d, f, query.enforce) <=> Grants(m, t, d, f)
<1> DEFINE about(all, model) == {c \in all : /\ c.provider = t.provider /\ c.model = model
                                               /\ c.dialect = d /\ c.what = f /\ ~c.legacy}
<1>1. f # "native"
  BY DEF Features
<1>2. About(RowsFor(Capabilities.modelFeatures, t.provider, t.model, d), f) = about(m.modelRows, t.model)
  BY <1>1, SnapshotIs DEF About, RowsFor, Explicit, ReadAsOf, Filtered
<1>3. About(RowsFor(Capabilities.providerFeatures, t.provider, "", d), f) = about(m.providerRows, "")
  BY <1>1, SnapshotIs DEF About, RowsFor, Explicit, ReadAsOf, Filtered
<1>4. t.provider \in DOMAIN Capabilities.providers
  BY SnapshotIs DEF ReadAsOf, Restricted
<1>5. ModelNativeExplicitlyEnabled(Capabilities, t.provider, t.model, d) <=>
        \E c \in m.modelRows : /\ c.provider = t.provider /\ c.model = t.model /\ c.dialect = d
                               /\ c.what = "native" /\ c.enabled /\ ~c.legacy
  BY SnapshotIs DEF ModelNativeExplicitlyEnabled, RowsFor, Native, ReadAsOf, Filtered
<1>6. Decides(m, t, d, f) = IF about(m.modelRows, t.model) # {} THEN about(m.modelRows, t.model)
                            ELSE about(m.providerRows, "")
  BY DEF Decides
<1> HIDE DEF about
<1> QED BY <1>2, <1>3, <1>4, <1>5, <1>6 DEF FeatureEnabled, Grants

---------------------------------------------------------------------------
(* RequestPath: the invariant.                                             *)

Querying == {"providerRows", "providers", "modelRows", "match"}
Routing == {"rules"} \cup Querying
Attempting == {"prepare", "sent"}

\* What the store holds, and has held since the request arrived.
StoreInv ==
  /\ config \in DOMAIN Configurations /\ moments \subseteq DOMAIN Configurations
  /\ edits \in 0 .. MaxEdits
  /\ edits = 0 => config = Configured
  /\ edits <= 1 => moments \subseteq {Configured, config}
  /\ IF stage \in Routing \cup Attempting THEN config \in moments ELSE edits = 0 /\ moments = {}

\* What the inspection found of a request of one of the dialects.
SeenIn(d, o, c) ==
  CASE d = "chat" -> InspectChatRequest(o, c)
    [] d = "responses" -> InspectResponsesRequest(o, c)
    [] d = "messages" -> InspectMessagesRequest(o, c)

QueryInv ==
  IF stage \in Routing \cup Attempting
  THEN /\ query.dialect = draft.dialect /\ query.inspected = (query.dialect # "openai")
       /\ query.features \subseteq Features
       /\ query.dialect \in Dialects3 =>
            LET seen == SeenIn(draft.dialect, draft.options, draft.conv)
            IN  ~seen.refused /\ query.native = seen.native /\ query.features = seen.features
  ELSE query = NoQuery

\* Each read is of some moment.
ReadInv ==
  /\ read = [rules |-> read.rules, providerRows |-> read.providerRows,
             providers |-> read.providers, modelRows |-> read.modelRows]
  /\ stage \in Querying => read.rules = {} \/ \E m \in Moments : read.rules = m.rules
  /\ stage \in {"providers", "modelRows", "match"} =>
       \E m \in Moments : read.providerRows = Filtered(m.providerRows)
  /\ stage \in {"modelRows", "match"} => \E m \in Moments : read.providers = Restricted(m.providers)
  /\ stage = "match" => \E m \in Moments : read.modelRows = Filtered(m.modelRows)

AllTargets == UNION {UNION {ToSet(r.targets) : r \in Configurations[n].rules} : n \in DOMAIN Configurations}
AnyCandidate(d) == {MakeCandidate(t, to) : t \in AllTargets, to \in Reach(d)}

Prepared ==
  IF Head(cands).to = draft.dialect THEN {Outbound}
  ELSE ConvertRequest(draft.dialect, Head(cands).to, Outbound)

CandsInv ==
  /\ stage \in {"draft", "reply", "relay", "answered"} \cup Routing \cup Attempting
  /\ cands \in Seq(AnyCandidate(draft.dialect))
  /\ cands # <<>> <=> stage \in {"prepare", "sent", "reply"}
  /\ sent = IF stage = "sent" THEN Prepared ELSE {}
  /\ stage = "sent" => sent # {}

PathInv == StoreInv /\ DraftInv /\ QueryInv /\ ReadInv /\ CandsInv

LEMMA NothingIsRead ==
  NothingRead = [rules |-> NothingRead.rules, providerRows |-> NothingRead.providerRows,
                 providers |-> NothingRead.providers, modelRows |-> NothingRead.modelRows]
BY DEF NothingRead

LEMMA PathStarts == PathInit => PathInv
<1> SUFFICES ASSUME PathInit PROVE PathInv
  OBVIOUS
<1>1. StoreInv
  BY RequestPathAssumption DEF PathInit, StoreInv, Routing, Querying, Attempting
<1>2. DraftInv
  BY BlankIs DEF PathInit, DraftInv
<1>3. QueryInv
  BY DEF PathInit, QueryInv, Routing, Querying, Attempting
<1>4. ReadInv
  BY NothingIsRead DEF PathInit, ReadInv, Querying
<1>5. CandsInv
  BY DEF PathInit, CandsInv
<1> QED BY <1>1, <1>2, <1>3, <1>4, <1>5 DEF PathInv

\* The end of a request, or of what the request path has to do with it.
LEMMA Forgets ==
  ASSUME PathInv, Forget, cands' = <<>>, stage' \in {"answered", "relay"} PROVE PathInv'
<1>1. StoreInv'
  BY RequestPathAssumption DEF Forget, StoreInv, Routing, Querying, Attempting
<1>2. DraftInv'
  <2>1. IsDraft(Blank(draft.dialect)) /\ draft' = Blank(draft.dialect)
    BY BlankIs DEF Forget, PathInv, DraftInv, IsDraft
  <2> QED BY <2>1 DEF DraftInv
<1>3. QueryInv'
  BY DEF Forget, QueryInv, Routing, Querying, Attempting
<1>4. ReadInv'
  BY NothingIsRead DEF Forget, ReadInv, Querying
<1>5. CandsInv'
  BY DEF Forget, CandsInv
<1> QED BY <1>1, <1>2, <1>3, <1>4, <1>5 DEF PathInv

LEMMA Responds ==
  ASSUME PathInv, NEW kind, NEW open, Respond(kind, open) PROVE PathInv'
BY Forgets DEF Respond

LEMMA DraftStep ==
  ASSUME PathInv, AddFragment \/ AddPart PROVE PathInv'
<1>1. /\ stage = "draft" /\ stage' = stage /\ config' = config /\ moments' = moments
      /\ edits' = edits /\ query' = query /\ read' = read /\ cands' = cands /\ sent' = sent
  BY DEF AddFragment, AddPart, store
<1>2. DraftInv'
  BY DraftGrows DEF PathInv
<1>3. StoreInv'
  BY <1>1 DEF PathInv, StoreInv
<1>4. QueryInv'
  BY <1>1 DEF PathInv, QueryInv, Routing, Querying, Attempting
<1>5. ReadInv'
  BY <1>1 DEF PathInv, ReadInv, Querying
<1>6. CandsInv'
  <2>1. cands' = <<>> /\ sent' = {}
    BY <1>1 DEF PathInv, CandsInv
  <2> QED BY <1>1, <2>1 DEF CandsInv
<1> QED BY <1>2, <1>3, <1>4, <1>5, <1>6 DEF PathInv

LEMMA FeaturesSeen ==
  ASSUME NEW o, NEW c
  PROVE  /\ InspectChatRequest(o, c).features \subseteq Features
         /\ InspectResponsesRequest(o, c).features \subseteq Features
         /\ InspectMessagesRequest(o, c).features \subseteq Features
         /\ InspectGeminiRequest(o).features \subseteq Features
<1>1. \A f \in Features : \A b : Given(f, b) \subseteq Features
  BY DEF Given
<1>2. InspectChatRequest(o, c).features \subseteq Features
  BY <1>1 DEF InspectChatRequest, Features
<1>3. InspectResponsesRequest(o, c).features \subseteq Features
  BY <1>1 DEF InspectResponsesRequest, Features
<1>4. InspectMessagesRequest(o, c).features \subseteq Features
  BY <1>1 DEF InspectMessagesRequest, Features
<1>5. InspectGeminiRequest(o).features \subseteq Features
  BY <1>1 DEF InspectGeminiRequest, Features
<1> QED BY <1>2, <1>3, <1>4, <1>5

\* What an inspection found is what the matcher is asked.
LEMMA HandleStep ==
  ASSUME PathInv, NEW dialect, NEW seen, Handle(dialect, seen),
         seen.features \subseteq Features,
         dialect \in Dialects3 =>
           LET s == SeenIn(dialect, draft.options, draft.conv)
           IN  seen.refused = s.refused /\ seen.native = s.native /\ seen.features = s.features
  PROVE  PathInv'
<1>1. CASE seen.refused
  BY <1>1, Responds DEF Handle
<1>2. CASE ~seen.refused
  <2>1. /\ stage = "draft" /\ draft.dialect = dialect /\ stage' = "rules" /\ moments' = {config}
        /\ config' = config /\ edits' = edits /\ draft' = draft /\ read' = read
        /\ cands' = cands /\ sent' = sent
    BY <1>2 DEF Handle
  <2>2. PICK enforce \in Enforcements :
          query' = [dialect |-> dialect, stream |-> "stream" \in draft.options,
                    inspected |-> dialect # "openai", native |-> seen.native,
                    features |-> seen.features, enforce |-> enforce]
    BY <1>2 DEF Handle
  <2>3. StoreInv'
    BY <2>1 DEF PathInv, StoreInv, Routing, Querying, Attempting
  <2>4. QueryInv'
    <3>1. /\ query'.dialect = dialect /\ query'.inspected = (dialect # "openai")
          /\ query'.native = seen.native /\ query'.features = seen.features
      BY <2>2
    <3>2. stage' \in Routing \cup Attempting
      BY <2>1 DEF Routing
    <3> QED BY <1>2, <2>1, <3>1, <3>2 DEF QueryInv
  <2>5. DraftInv' /\ ReadInv'
    BY <2>1 DEF PathInv, DraftInv, ReadInv, Querying
  <2>6. CandsInv'
    <3>1. cands' = <<>> /\ sent' = {}
      BY <2>1 DEF PathInv, CandsInv
    <3> QED BY <2>1, <3>1 DEF CandsInv, Routing
  <2> QED BY <2>3, <2>4, <2>5, <2>6 DEF PathInv
<1> QED BY <1>1, <1>2

LEMMA HandlerSteps ==
  ASSUME PathInv, \/ HandleChatCompletions \/ HandleResponses \/ HandleMessages \/ HandleGemini
                  \/ HandleEmbeddings \/ HandleOpenAI
  PROVE  PathInv'
<1>1. CASE HandleChatCompletions
  <2>1. SeenIn("chat", draft.options, draft.conv) = InspectChatRequest(draft.options, draft.conv)
    BY DEF SeenIn
  <2> QED BY <1>1, <2>1, HandleStep, FeaturesSeen DEF HandleChatCompletions
<1>2. CASE HandleResponses
  <2>1. SeenIn("responses", draft.options, draft.conv)
          = InspectResponsesRequest(draft.options, draft.conv)
    BY DEF SeenIn
  <2> QED BY <1>2, <2>1, HandleStep, FeaturesSeen DEF HandleResponses
<1>3. CASE HandleMessages
  <2>1. SeenIn("messages", draft.options, draft.conv)
          = InspectMessagesRequest(draft.options, draft.conv)
    BY DEF SeenIn
  <2> QED BY <1>3, <2>1, HandleStep, FeaturesSeen DEF HandleMessages
<1>4. CASE HandleGemini
  <2> DEFINE was == InspectGeminiRequest(draft.options)
             seen == [was EXCEPT !.features = @ \cup Given("streaming", "stream" \in draft.options)]
  <2>1. Handle("gemini", seen)
    BY <1>4 DEF HandleGemini
  <2>2. seen.features = was.features \cup Given("streaming", "stream" \in draft.options)
    BY DEF InspectGeminiRequest
  <2>3. seen.features \subseteq Features
    BY <2>2, FeaturesSeen DEF Given, Features
  <2> HIDE DEF seen
  <2> QED BY <2>1, <2>3, HandleStep DEF Dialects3
<1>5. CASE HandleOpenAI
  <2>1. Uninspected.features \subseteq Features
    BY DEF Uninspected
  <2> QED BY <1>5, <2>1, HandleStep DEF HandleOpenAI, Dialects3
<1>6. CASE HandleEmbeddings
  <2>1. PICK isJSON \in BOOLEAN : Handle("openai", [Uninspected EXCEPT !.refused = ~isJSON])
    BY <1>6 DEF HandleEmbeddings
  <2>2. [Uninspected EXCEPT !.refused = ~isJSON].features \subseteq Features
    BY DEF Uninspected
  <2> QED BY <2>1, <2>2, HandleStep DEF Dialects3
<1> QED BY <1>1, <1>2, <1>3, <1>4, <1>5, <1>6

\* The store, the request and the query, while it is read.
LEMMA ReadingFrame ==
  ASSUME PathInv, stage \in Routing, stage' \in Routing, UNCHANGED <<store, draft, query, cands, sent>>
  PROVE  StoreInv' /\ DraftInv' /\ QueryInv' /\ CandsInv' /\ Moments' = Moments
                   /\ Configurations[config] \in Moments
<1>1. /\ config' = config /\ moments' = moments /\ edits' = edits /\ draft' = draft
      /\ query' = query /\ cands' = cands /\ sent' = sent
  BY DEF store
<1>2. stage \notin {"prepare", "sent", "reply"} /\ stage' \notin {"prepare", "sent", "reply"}
  BY DEF Routing, Querying
<1>3. StoreInv' /\ DraftInv' /\ QueryInv'
  BY <1>1 DEF PathInv, StoreInv, DraftInv, QueryInv
<1>4. CandsInv'
  <2>1. cands' = <<>> /\ sent' = {}
    BY <1>1, <1>2 DEF PathInv, CandsInv
  <2> QED BY <1>2, <2>1 DEF CandsInv
<1> QED BY <1>1, <1>3, <1>4 DEF PathInv, StoreInv, Moments

LEMMA ReadRulesStep == ASSUME PathInv, ReadRules PROVE PathInv'
<1>1. PICK rules \in {Now.rules, {}} : read' = [read EXCEPT !.rules = rules]
  BY DEF ReadRules
<1>2. /\ stage = "rules" /\ stage' = "providerRows"
      /\ UNCHANGED <<store, draft, query, cands, sent>>
  BY DEF ReadRules
<1>3. StoreInv' /\ DraftInv' /\ QueryInv' /\ CandsInv' /\ Moments' = Moments
      /\ Configurations[config] \in Moments
  BY <1>2, ReadingFrame DEF Routing, Querying
<1>4. read' = [rules |-> rules, providerRows |-> read.providerRows,
               providers |-> read.providers, modelRows |-> read.modelRows]
  BY <1>1 DEF PathInv, ReadInv
<1>5. ReadInv'
  BY <1>2, <1>3, <1>4 DEF ReadInv, Now
<1> QED BY <1>3, <1>5 DEF PathInv

LEMMA ReadStep3 ==
  ASSUME PathInv, ReadProviderRows \/ ReadProviders \/ ReadModelRows PROVE PathInv'
<1>1. ASSUME NEW from, NEW to, NEW name, NEW value, Advance(from, to, name, value)
      PROVE  \/ PathInv'
             \/ /\ stage = from /\ stage' = to /\ read' = [read EXCEPT ![name] = value]
                /\ UNCHANGED <<store, draft, query, cands, sent>>
  <2>1. CASE Respond("store_error", {})
    BY <2>1, Responds
  <2> QED BY <1>1, <2>1 DEF Advance
<1>2. read = [rules |-> read.rules, providerRows |-> read.providerRows,
              providers |-> read.providers, modelRows |-> read.modelRows]
  BY DEF PathInv, ReadInv
<1> DEFINE provided == Filtered(Now.providerRows)
           providers == Restricted(Now.providers)
           models == Filtered(Now.modelRows)
<1>3. CASE /\ stage = "providerRows" /\ stage' = "providers"
           /\ read' = [read EXCEPT !["providerRows"] = provided]
           /\ UNCHANGED <<store, draft, query, cands, sent>>
  <2>1. StoreInv' /\ DraftInv' /\ QueryInv' /\ CandsInv' /\ Moments' = Moments
        /\ Configurations[config] \in Moments
    BY <1>3, ReadingFrame DEF Routing, Querying
  <2>2. read' = [rules |-> read.rules, providerRows |-> provided,
                 providers |-> read.providers, modelRows |-> read.modelRows]
    BY <1>2, <1>3
  <2>3. read.rules = {} \/ \E m \in Moments : read.rules = m.rules
    BY <1>3 DEF PathInv, ReadInv, Querying
  <2>4. ReadInv'
    BY <1>3, <2>1, <2>2, <2>3 DEF ReadInv, Filtered, Referenced, Now
  <2> QED BY <2>1, <2>4 DEF PathInv
<1>4. CASE /\ stage = "providers" /\ stage' = "modelRows"
           /\ read' = [read EXCEPT !["providers"] = providers]
           /\ UNCHANGED <<store, draft, query, cands, sent>>
  <2>1. StoreInv' /\ DraftInv' /\ QueryInv' /\ CandsInv' /\ Moments' = Moments
        /\ Configurations[config] \in Moments
    BY <1>4, ReadingFrame DEF Routing, Querying
  <2>2. read' = [rules |-> read.rules, providerRows |-> read.providerRows,
                 providers |-> providers, modelRows |-> read.modelRows]
    BY <1>2, <1>4
  <2>3. /\ read.rules = {} \/ \E m \in Moments : read.rules = m.rules
        /\ \E m \in Moments : read.providerRows = Filtered(m.providerRows)
    BY <1>4 DEF PathInv, ReadInv, Querying
  <2>4. ReadInv'
    BY <1>4, <2>1, <2>2, <2>3 DEF ReadInv, Filtered, Restricted, Referenced, Now
  <2> QED BY <2>1, <2>4 DEF PathInv
<1>5. CASE /\ stage = "modelRows" /\ stage' = "match"
           /\ read' = [read EXCEPT !["modelRows"] = models]
           /\ UNCHANGED <<store, draft, query, cands, sent>>
  <2>1. StoreInv' /\ DraftInv' /\ QueryInv' /\ CandsInv' /\ Moments' = Moments
        /\ Configurations[config] \in Moments
    BY <1>5, ReadingFrame DEF Routing, Querying
  <2>2. read' = [rules |-> read.rules, providerRows |-> read.providerRows,
                 providers |-> read.providers, modelRows |-> models]
    BY <1>2, <1>5
  <2>3. /\ read.rules = {} \/ \E m \in Moments : read.rules = m.rules
        /\ \E m \in Moments : read.providerRows = Filtered(m.providerRows)
        /\ \E m \in Moments : read.providers = Restricted(m.providers)
    BY <1>5 DEF PathInv, ReadInv, Querying
  <2>4. ReadInv'
    <3>1. Referenced' = Referenced
      BY <2>2 DEF Referenced
    <3>2. read'.rules = read.rules /\ read'.providerRows = read.providerRows
          /\ read'.providers = read.providers /\ read'.modelRows = models
      BY <2>2
    <3>3. \E m \in Moments' : read'.modelRows = {c \in m.modelRows : c.provider \in Referenced}
      BY <2>1, <3>2 DEF Filtered, Now
    <3>4. /\ read'.rules = {} \/ \E m \in Moments' : read'.rules = m.rules
          /\ \E m \in Moments' :
               read'.providerRows = {c \in m.providerRows : c.provider \in Referenced}
          /\ \E m \in Moments' :
               read'.providers = [p \in Referenced \cap DOMAIN m.providers |-> m.providers[p]]
      BY <2>1, <2>3, <3>2 DEF Filtered, Restricted
    <3>5. read' = [rules |-> read'.rules, providerRows |-> read'.providerRows,
                   providers |-> read'.providers, modelRows |-> read'.modelRows]
      BY <2>2, <3>2
    <3> QED BY <3>1, <3>3, <3>4, <3>5 DEF ReadInv, Filtered, Restricted
  <2> QED BY <2>1, <2>4 DEF PathInv
<1> QED BY <1>1, <1>3, <1>4, <1>5 DEF ReadProviderRows, ReadProviders, ReadModelRows, Filtered, Restricted

LEMMA EditStep == ASSUME PathInv, Edit PROVE PathInv'
<1>1. PICK c \in DOMAIN Configurations \ {config} : config' = c /\ moments' = moments \cup {c}
  BY DEF Edit
<1>2. /\ stage \in Routing /\ stage' = stage /\ edits < MaxEdits /\ edits' = edits + 1
      /\ draft' = draft /\ query' = query /\ read' = read /\ cands' = cands /\ sent' = sent
  BY DEF Edit, Routing, Querying
<1>3. StoreInv'
  <2>1. edits \in Nat /\ MaxEdits \in Nat /\ (edits + 1 <= 1 => edits = 0)
    BY RequestPathAssumption DEF PathInv, StoreInv
  <2> QED BY <1>1, <1>2, <2>1 DEF PathInv, StoreInv
<1>4. DraftInv' /\ QueryInv'
  BY <1>2 DEF PathInv, DraftInv, QueryInv
<1>5. Moments \subseteq Moments'
  BY <1>1 DEF Moments
<1>6. ReadInv'
  <2>1. Referenced' = Referenced
    BY <1>2 DEF Referenced
  <2>2. ReadInv /\ read' = read /\ stage' = stage
    BY <1>2 DEF PathInv
  <2>3. stage \in Querying => read.rules = {} \/ \E m \in Moments' : read.rules = m.rules
    BY <1>5, <2>2 DEF ReadInv
  <2>4. stage \in {"providers", "modelRows", "match"} =>
          \E m \in Moments' : read.providerRows = {row \in m.providerRows : row.provider \in Referenced}
    BY <1>5, <2>2 DEF ReadInv, Filtered
  <2>5. stage \in {"modelRows", "match"} =>
          \E m \in Moments' :
            read.providers = [p \in Referenced \cap DOMAIN m.providers |-> m.providers[p]]
    BY <1>5, <2>2 DEF ReadInv, Restricted
  <2>6. stage = "match" =>
          \E m \in Moments' : read.modelRows = {row \in m.modelRows : row.provider \in Referenced}
    BY <1>5, <2>2 DEF ReadInv, Filtered
  <2> QED BY <2>1, <2>2, <2>3, <2>4, <2>5, <2>6 DEF ReadInv, Filtered, Restricted
<1>7. CandsInv'
  <2>1. stage \notin {"prepare", "sent", "reply"}
    BY <1>2 DEF Routing, Querying
  <2>2. cands' = <<>> /\ sent' = {}
    BY <1>2, <2>1 DEF PathInv, CandsInv
  <2> QED BY <1>2, <2>1, <2>2 DEF CandsInv
<1> QED BY <1>3, <1>4, <1>6, <1>7 DEF PathInv

\* What the matcher finds, whatever was read.
LEMMA FoundAmong ==
  ASSUME PathInv, stage = "match", NEW open, NEW A,
         \A r \in FindModelRule(read.rules) : \A t \in ToSet(r.targets) :
           Considered(t, read.providers, open) =>
             \A d \in Reach(query.dialect) :
               Carries(query, Capabilities, t, d) => MakeCandidate(t, d) \in A
  PROVE  LET found == Found(open) IN
         /\ found.error \in {"", "no_matching_rule", "unsupported_feature", "service_unavailable"}
         /\ found.error = "" => found.candidates \in Seq(A) /\ found.candidates # <<>>
         /\ found.error = "unsupported_feature" =>
              \E r \in FindModelRule(read.rules) :
                /\ \A t \in ToSet(r.targets) : Considered(t, read.providers, open) =>
                     \A d \in Reach(query.dialect) : ~Carries(query, Capabilities, t, d)
                /\ \E t \in ToSet(r.targets) :
                     Considered(t, read.providers, open) /\ RejectedWireRoute(query, Capabilities, t)
         /\ found.error = "service_unavailable" =>
              \E r \in FindModelRule(read.rules) : \A t \in ToSet(r.targets) :
                ~(Considered(t, read.providers, open) /\ RejectedWireRoute(query, Capabilities, t))
<1>1. \A r \in read.rules : r.targets \in Seq(ToSet(r.targets))
  <2>1. read.rules = {} \/ \E m \in Moments : read.rules = m.rules
    BY DEF PathInv, ReadInv, Querying
  <2>2. \A m \in Moments : IsConfiguration(m)
    BY RequestPathAssumption DEF PathInv, StoreInv, Moments
  <2> QED BY <2>1, <2>2 DEF IsConfiguration
<1>2. \A r \in FindModelRule(read.rules) : \A t \in ToSet(r.targets) :
        Considered(t, read.providers, open) =>
          /\ Candidate(query, Capabilities, t) \in Seq(A)
          /\ Candidate(query, Capabilities, t) = <<>> =>
               \A d \in Reach(query.dialect) : ~Carries(query, Capabilities, t, d)
  BY CandidateAmong
<1>2a. \A r \in FindModelRule(read.rules) : \A t \in ToSet(r.targets) :
        Considered(t, read.providers, open) => Candidate(query, Capabilities, t) \in Seq(A)
  BY <1>2
<1> DEFINE found == Found(open)
<1>3. found = SelectCandidates(query, read.rules, read.providers, open, Capabilities)
  BY DEF Found
<1> HIDE DEF found
<1>4. WellSelected(found, query, read.rules, read.providers, open, Capabilities, A)
  BY <1>1, <1>2a, <1>3, Selected
<1>5. ASSUME found.error = "unsupported_feature"
      PROVE  \E r \in FindModelRule(read.rules) :
                /\ \A t \in ToSet(r.targets) : Considered(t, read.providers, open) =>
                     \A d \in Reach(query.dialect) : ~Carries(query, Capabilities, t, d)
                /\ \E t \in ToSet(r.targets) :
                     Considered(t, read.providers, open) /\ RejectedWireRoute(query, Capabilities, t)
  <2>1. PICK r \in FindModelRule(read.rules) :
          /\ \A t \in ToSet(r.targets) :
               Considered(t, read.providers, open) => Candidate(query, Capabilities, t) = <<>>
          /\ \E t \in ToSet(r.targets) :
               Considered(t, read.providers, open) /\ RejectedWireRoute(query, Capabilities, t)
    BY <1>4, <1>5 DEF WellSelected
  <2> QED BY <1>2, <2>1
<1> QED BY <1>4, <1>5 DEF found, WellSelected

\* A match that does not answer leaves some of the candidates to be tried.
LEMMA TryStep ==
  ASSUME PathInv, stage = "match", NEW A, NEW routed \in Seq(A),
         A \subseteq AnyCandidate(draft.dialect), NEW open, Try(routed, open)
  PROVE  PathInv' /\ (stage' = "prepare" => cands' \in Seq(A))
<1>1. CASE Respond("route_unavailable", open) \/ Respond("unsupported_feature", open)
  <2>1. stage' = "answered"
    BY <1>1 DEF Respond
  <2> QED BY <1>1, <2>1, Responds
<1>2. CASE /\ routed # <<>> /\ stage' = "prepare" /\ cands' = routed /\ read' = NothingRead
           /\ UNCHANGED <<store, draft, query, sent, answer>>
  <2>1. /\ config' = config /\ moments' = moments /\ edits' = edits /\ draft' = draft
        /\ query' = query /\ sent' = sent
    BY <1>2 DEF store
  <2>2. StoreInv' /\ DraftInv' /\ QueryInv'
    BY <1>2, <2>1 DEF PathInv, StoreInv, DraftInv, QueryInv, Routing, Querying, Attempting
  <2>3. ReadInv'
    BY <1>2, NothingIsRead DEF ReadInv, Querying
  <2>4. CandsInv'
    <3>1. sent' = {}
      BY <2>1 DEF PathInv, CandsInv
    <3>2. routed \in Seq(AnyCandidate(draft.dialect))
      BY SeqMonotonic
    <3> QED BY <1>2, <2>1, <3>1, <3>2 DEF CandsInv, Attempting
  <2> QED BY <1>2, <2>2, <2>3, <2>4 DEF PathInv
<1> QED BY <1>1, <1>2 DEF Try

LEMMA TargetsKnown ==
  ASSUME PathInv, stage = "match", draft.dialect = query.dialect
  PROVE  \A r \in FindModelRule(read.rules) : \A t \in ToSet(r.targets) :
           \A d \in Reach(query.dialect) : MakeCandidate(t, d) \in AnyCandidate(draft.dialect)
<1>1. read.rules = {} \/ \E m \in Moments : read.rules = m.rules
  BY DEF PathInv, ReadInv, Querying
<1>2. \A m \in Moments : UNION {ToSet(r.targets) : r \in m.rules} \subseteq AllTargets
  BY DEF PathInv, StoreInv, Moments, AllTargets
<1>3. \A r \in FindModelRule(read.rules) : ToSet(r.targets) \subseteq AllTargets
  BY <1>1, <1>2 DEF FindModelRule
<1> QED BY <1>3 DEF AnyCandidate

LEMMA MatchStep == ASSUME PathInv, Match PROVE PathInv'
<1>1. stage = "match" /\ draft.dialect = query.dialect
  BY DEF Match, PathInv, QueryInv, Routing, Querying
<1>2. PICK open \in SUBSET DOMAIN read.providers :
        LET found == Found(open) IN
        IF found.error # "" THEN Respond(found.error, open)
        ELSE \E shut \in SUBSET {c.provider : c \in
                              {c \in ToSet(found.candidates) : c.to # query.dialect}} :
               Try(Routed(found.candidates, shut), open)
  BY DEF Match
<1>3. CASE Found(open).error # ""
  BY <1>2, <1>3, Responds
<1>4. CASE Found(open).error = ""
  <2>1. PICK shut : Try(Routed(Found(open).candidates, shut), open)
    BY <1>2, <1>4
  <2>2. \A r \in FindModelRule(read.rules) : \A t \in ToSet(r.targets) :
          \A d \in Reach(query.dialect) : MakeCandidate(t, d) \in AnyCandidate(draft.dialect)
    BY <1>1, TargetsKnown
  <2>3. Found(open).candidates \in Seq(AnyCandidate(draft.dialect))
    BY <1>1, <1>4, <2>2, FoundAmong
  <2>4. Routed(Found(open).candidates, shut) \in Seq(AnyCandidate(draft.dialect))
    BY <2>3, RoutedAmong
  <2> QED BY <1>1, <2>1, <2>4, TryStep
<1> QED BY <1>3, <1>4

---------------------------------------------------------------------------
(* The candidates.                                                         *)

LEMMA HeadTail ==
  ASSUME NEW A, NEW s \in Seq(A), s # <<>>
  PROVE  /\ Head(s) \in A /\ <<Head(s)>> \in Seq(A) /\ Len(s) \in Nat /\ Len(s) # 0
         /\ Tail(s) \in Seq(A) /\ (Len(s) # 1 => Tail(s) # <<>>)
<1>1. Head(s) \in A /\ Tail(s) \in Seq(A) /\ Len(Tail(s)) = Len(s) - 1
  BY HeadTailProperties
<1>2. Len(s) \in Nat /\ Len(s) # 0
  BY EmptySeq, LenProperties
<1>3. Len(s) # 1 => Tail(s) # <<>>
  <2>1. Len(<<>>) = 0
    OBVIOUS
  <2>2. Len(s) # 1 => Len(Tail(s)) # 0
    BY <1>1, <1>2
  <2> QED BY <2>1, <2>2
<1> QED BY <1>1, <1>2, <1>3

LEMMA NextCandidateStep ==
  ASSUME PathInv, stage \in Attempting, NextCandidate
  PROVE  PathInv' /\ (stage' \in Attempting => cands' = Tail(cands) /\ UNCHANGED <<store, draft, query>>)
<1>1. cands \in Seq(AnyCandidate(draft.dialect)) /\ cands # <<>>
  BY DEF PathInv, CandsInv, Attempting
<1>2. CASE Len(cands) = 1
  <2>1. Respond("all_failed", {})
    BY <1>2 DEF NextCandidate
  <2>2. stage' = "answered"
    BY <2>1 DEF Respond
  <2> QED BY <2>1, <2>2, Responds DEF Attempting
<1>3. CASE Len(cands) # 1
  <2>1. /\ stage' = "prepare" /\ cands' = Tail(cands) /\ sent' = {}
        /\ UNCHANGED <<store, draft, query, read, answer>>
    BY <1>3 DEF NextCandidate
  <2>2. StoreInv' /\ DraftInv' /\ QueryInv' /\ ReadInv'
    BY <2>1 DEF PathInv, StoreInv, DraftInv, QueryInv, ReadInv, Routing, Querying, Attempting, store
  <2>3. CandsInv'
    <3>1. Tail(cands) \in Seq(AnyCandidate(draft.dialect)) /\ Tail(cands) # <<>>
      BY <1>1, <1>3, HeadTail
    <3> QED BY <2>1, <3>1 DEF CandsInv, Attempting
  <2> QED BY <2>1, <2>2, <2>3 DEF PathInv
<1> QED BY <1>2, <1>3

LEMMA PrepareStep == ASSUME PathInv, PrepareAttempt PROVE PathInv'
<1>1. stage = "prepare"
  BY DEF PrepareAttempt
<1>2. CASE NextCandidate
  BY <1>1, <1>2, NextCandidateStep DEF Attempting
<1>3. CASE /\ Prepared # {} /\ stage' = "sent" /\ sent' = Prepared
           /\ UNCHANGED <<store, draft, query, read, cands, answer>>
  <2>1. StoreInv' /\ DraftInv' /\ QueryInv' /\ ReadInv'
    BY <1>1, <1>3 DEF PathInv, StoreInv, DraftInv, QueryInv, ReadInv, Routing, Querying, Attempting, store
  <2>2. Prepared' = Prepared
    BY <1>3 DEF Prepared, Outbound
  <2>3. CandsInv'
    BY <1>1, <1>3, <2>2 DEF PathInv, CandsInv, Attempting
  <2> QED BY <2>1, <2>3 DEF PathInv
<1> QED BY <1>2, <1>3 DEF PrepareAttempt, Prepared

LEMMA LastSteps == ASSUME PathInv, ReplyArrives \/ Deliver PROVE PathInv'
<1>1. cands \in Seq(AnyCandidate(draft.dialect)) /\ DraftInv
  BY DEF PathInv, CandsInv
<1>2. CASE ReplyArrives
  <2>1. stage = "sent" /\ stage' = "reply" /\ cands' = <<Head(cands)>> /\ Forget
    BY <1>2 DEF ReplyArrives
  <2>2. cands # <<>>
    BY <2>1 DEF PathInv, CandsInv
  <2>3. <<Head(cands)>> \in Seq(AnyCandidate(draft.dialect)) /\ <<Head(cands)>> # <<>>
    BY <1>1, <2>2, HeadTail
  <2>4. StoreInv' /\ QueryInv' /\ ReadInv'
    BY <2>1, RequestPathAssumption, NothingIsRead
      DEF Forget, StoreInv, QueryInv, ReadInv, Routing, Querying, Attempting
  <2>5. draft'.dialect = draft.dialect /\ DraftInv'
    <3>1. IsDraft(Blank(draft.dialect)) /\ draft' = Blank(draft.dialect)
      BY <1>1, <2>1, BlankIs DEF Forget, DraftInv, IsDraft
    <3> QED BY <3>1 DEF DraftInv, Blank
  <2>6. CandsInv'
    BY <2>1, <2>3, <2>5 DEF CandsInv, Forget
  <2> QED BY <2>4, <2>5, <2>6 DEF PathInv
<1>3. CASE Deliver
  <2>1. /\ stage = "reply" /\ stage' = "answered" /\ cands' = <<>>
        /\ UNCHANGED <<store, draft, query, read, sent>>
    BY <1>3 DEF Deliver
  <2>2. StoreInv' /\ DraftInv' /\ QueryInv' /\ ReadInv'
    BY <2>1 DEF PathInv, StoreInv, DraftInv, QueryInv, ReadInv, Routing, Querying, Attempting, store
  <2>3. CandsInv'
    BY <2>1 DEF PathInv, CandsInv
  <2> QED BY <2>2, <2>3 DEF PathInv
<1> QED BY <1>2, <1>3

LEMMA PathStep == PathInv /\ [PathNext]_pathVars => PathInv'
<1> SUFFICES ASSUME PathInv, [PathNext]_pathVars PROVE PathInv'
  OBVIOUS
<1>1. CASE AddFragment \/ AddPart
  BY <1>1, DraftStep
<1>2. CASE Unauthorized \/ Unreadable
  BY <1>2, Responds DEF Unauthorized, Unreadable
<1>3. CASE \/ HandleChatCompletions \/ HandleResponses \/ HandleMessages \/ HandleGemini
           \/ HandleEmbeddings \/ HandleOpenAI
  BY <1>3, HandlerSteps
<1>4. CASE ReadRules
  BY <1>4, ReadRulesStep
<1>5. CASE ReadProviderRows \/ ReadProviders \/ ReadModelRows
  BY <1>5, ReadStep3
<1>6. CASE Match
  BY <1>6, MatchStep
<1>7. CASE PrepareAttempt
  BY <1>7, PrepareStep
<1>8. CASE AttemptFails
  BY <1>8, NextCandidateStep DEF AttemptFails, Attempting
<1>9. CASE ReplyArrives \/ Deliver
  BY <1>9, LastSteps
<1>10. CASE Edit
  BY <1>10, EditStep
<1>11. CASE UNCHANGED pathVars
  <2>1. /\ config' = config /\ moments' = moments /\ edits' = edits /\ draft' = draft
        /\ stage' = stage /\ query' = query /\ read' = read /\ cands' = cands /\ sent' = sent
    BY <1>11 DEF pathVars
  <2>2. StoreInv' /\ DraftInv' /\ QueryInv'
    BY <2>1 DEF PathInv, StoreInv, DraftInv, QueryInv
  <2>3. ReadInv'
    <3>1. Moments' = Moments /\ Referenced' = Referenced
      BY <2>1 DEF Moments, Referenced
    <3> QED BY <2>1, <3>1 DEF PathInv, ReadInv, Filtered, Restricted
  <2>4. Prepared' = Prepared
    BY <2>1 DEF Prepared, Outbound
  <2>5. CandsInv'
    BY <2>1, <2>4 DEF PathInv, CandsInv
  <2> QED BY <2>2, <2>3, <2>5 DEF PathInv
<1> QED BY <1>1, <1>2, <1>3, <1>4, <1>5, <1>6, <1>7, <1>8, <1>9, <1>10, <1>11 DEF PathNext

\* A stream is handed over.
LEMMA HandOverStep == ASSUME PathInv, HandOver PROVE PathInv'
BY Forgets DEF HandOver

---------------------------------------------------------------------------
(* A conversion yields one body at most.                                   *)

AtMostOne(S) == \A x, y \in S : x = y

LEMMA UnlessOne == ASSUME NEW refused, NEW result PROVE AtMostOne(Unless(refused, result))
BY DEF AtMostOne, Unless

LEMMA OneBody ==
  ASSUME NEW from, NEW to, from \in Dialects3, to \in Dialects3 \ {from}, NEW b
  PROVE  AtMostOne(ConvertRequest(from, to, b))
<1>1. \A c : AtMostOne(MessagesToResponsesRequest(c)) /\ AtMostOne(ResponsesToMessagesRequest(c))
  BY UnlessOne DEF MessagesToResponsesRequest, ResponsesToMessagesRequest
<1>2. \A c : AtMostOne(ChatMessagesToResponses(c))
  BY UnlessOne DEF ChatMessagesToResponses
<1>3. \A c, i : AtMostOne(ResponsesInputToChat(c, i))
  BY UnlessOne DEF ResponsesInputToChat
<1>4. \A c : AtMostOne(ChatToResponsesRequest(c))
  BY <1>2 DEF ChatToResponsesRequest, AtMostOne
<1>5. \A c : AtMostOne(ResponsesToChatRequest(c))
  BY <1>3 DEF ResponsesToChatRequest, AtMostOne
<1>6. AtMostOne(UNION {ResponsesToMessagesRequest(c) : c \in ChatToResponsesRequest(b)})
  BY <1>1, <1>4 DEF AtMostOne
<1>7. AtMostOne(UNION {ResponsesToChatRequest(c) : c \in MessagesToResponsesRequest(b)})
  BY <1>1, <1>5 DEF AtMostOne
<1>8. CASE from = "messages" /\ to = "responses"
  BY <1>1, <1>8 DEF ConvertRequest
<1>9. CASE from = "responses" /\ to = "messages"
  BY <1>1, <1>9 DEF ConvertRequest
<1>10. CASE from = "chat" /\ to = "responses"
  BY <1>4, <1>10 DEF ConvertRequest
<1>11. CASE from = "responses" /\ to = "chat"
  BY <1>5, <1>11 DEF ConvertRequest
<1>12. CASE from = "chat" /\ to = "messages"
  BY <1>6, <1>12 DEF ConvertRequest
<1>13. CASE from = "messages" /\ to = "chat"
  BY <1>7, <1>13 DEF ConvertRequest
<1> QED BY <1>8, <1>9, <1>10, <1>11, <1>12, <1>13 DEF Dialects3

LEMMA PathTypes == PathInv => PathTypeOK
<1> SUFFICES ASSUME PathInv PROVE PathTypeOK
  OBVIOUS
<1>1. /\ config \in DOMAIN Configurations /\ moments \subseteq DOMAIN Configurations
      /\ edits \in 0 .. MaxEdits
  BY DEF PathInv, StoreInv
<1>2. /\ draft.dialect \in ClientDialects /\ draft.options \subseteq Fragments(draft.dialect)
      /\ Size <= MaxSize
  BY DEF PathInv, DraftInv, IsDraft, Size, Parts
<1>3. stage \in {"draft", "rules", "providerRows", "providers", "modelRows", "match",
                 "prepare", "sent", "reply", "relay", "answered"}
  BY DEF PathInv, CandsInv, Routing, Querying, Attempting
<1>4. query.features \subseteq Features
  <2>1. CASE stage \in Routing \cup Attempting
    BY <2>1 DEF PathInv, QueryInv
  <2>2. CASE stage \notin Routing \cup Attempting
    <3>1. query = NoQuery
      BY <2>2 DEF PathInv, QueryInv
    <3> QED BY <3>1 DEF NoQuery
  <2> QED BY <2>1, <2>2
<1>5. (sent # {} <=> stage = "sent") /\ (cands # <<>> <=> stage \in {"prepare", "sent", "reply"})
  BY DEF PathInv, CandsInv
<1>6. Cardinality(sent) <= 1
  <2>1. CASE stage # "sent"
    BY <2>1, <1>5, FS_EmptySet
  <2>2. CASE stage = "sent"
    <3>1. cands # <<>> /\ cands \in Seq(AnyCandidate(draft.dialect)) /\ sent = Prepared
      BY <2>2 DEF PathInv, CandsInv
    <3>2. Head(cands) \in AnyCandidate(draft.dialect)
      BY <3>1, HeadTail
    <3>3. Head(cands).to \in Reach(draft.dialect)
      <4>1. PICK t \in AllTargets, to \in Reach(draft.dialect) : Head(cands) = MakeCandidate(t, to)
        BY <3>2 DEF AnyCandidate
      <4> QED BY <4>1 DEF MakeCandidate
    <3>4. AtMostOne(sent)
      <4>1. CASE Head(cands).to = draft.dialect
        BY <3>1, <4>1 DEF Prepared, AtMostOne
      <4>2. CASE Head(cands).to # draft.dialect
        BY <3>1, <3>3, <4>2, OneBody DEF Prepared, Reach
      <4> QED BY <4>1, <4>2
    <3>5. CASE sent = {}
      BY <3>5, FS_EmptySet
    <3>6. CASE sent # {}
      <4>1. \E x : sent = {x}
        <5>1. PICK x : x \in sent
          BY <3>6
        <5>2. sent = {x}
          BY <3>4, <5>1 DEF AtMostOne
        <5> QED BY <5>2
      <4>2. PICK x : sent = {x}
        BY <4>1
      <4>3. Cardinality({x}) = 1
        BY FS_Singleton
      <4> QED BY <4>2, <4>3
    <3> QED BY <3>5, <3>6
  <2> QED BY <2>1, <2>2
<1> QED BY <1>1, <1>2, <1>3, <1>4, <1>5, <1>6 DEF PathTypeOK

---------------------------------------------------------------------------
(* What was read, as of one moment.                                        *)

\* One edit, of one table, may fall between the four queries.
OneEdit ==
  /\ MaxEdits <= 1
  /\ \A name \in DOMAIN Configurations :
       LET m == Configurations[name]
           b == Configurations[Configured]
       IN  \/ /\ m.providers = b.providers /\ m.providerRows = b.providerRows
              /\ m.modelRows = b.modelRows
           \/ /\ m.rules = b.rules /\ m.providerRows = b.providerRows /\ m.modelRows = b.modelRows
           \/ /\ m.rules = b.rules /\ m.providers = b.providers /\ m.modelRows = b.modelRows
           \/ /\ m.rules = b.rules /\ m.providers = b.providers /\ m.providerRows = b.providerRows

LEMMA OneMoment ==
  ASSUME PathInv, OneEdit, stage = "match", read.rules # {}
  PROVE  \E m \in Moments : ReadAsOf(m)
<1> DEFINE b == Configurations[Configured]
           c == Configurations[config]
<1>1. Moments \subseteq {b, c} /\ c \in Moments
  <2>1. edits \in 0 .. MaxEdits /\ MaxEdits <= 1 /\ MaxEdits \in Nat
    BY RequestPathAssumption DEF PathInv, StoreInv, OneEdit
  <2>2. moments \subseteq {Configured, config} /\ config \in moments
    BY <2>1 DEF PathInv, StoreInv, Routing, Querying
  <2> QED BY <2>2 DEF Moments
<1>2. \/ /\ c.providers = b.providers /\ c.providerRows = b.providerRows
         /\ c.modelRows = b.modelRows
      \/ /\ c.rules = b.rules /\ c.providerRows = b.providerRows /\ c.modelRows = b.modelRows
      \/ /\ c.rules = b.rules /\ c.providers = b.providers /\ c.modelRows = b.modelRows
      \/ /\ c.rules = b.rules /\ c.providers = b.providers /\ c.providerRows = b.providerRows
  BY DEF OneEdit, PathInv, StoreInv
<1> HIDE DEF b, c
<1>3. PICK m1 \in Moments : read.rules = m1.rules
  BY DEF PathInv, ReadInv, Querying
<1>4. PICK m2 \in Moments : read.providerRows = Filtered(m2.providerRows)
  BY DEF PathInv, ReadInv
<1>5. PICK m3 \in Moments : read.providers = Restricted(m3.providers)
  BY DEF PathInv, ReadInv
<1>6. PICK m4 \in Moments : read.modelRows = Filtered(m4.modelRows)
  BY DEF PathInv, ReadInv
<1>7. \A m, n \in Moments : m = n \/ (m = b /\ n = c) \/ (m = c /\ n = b)
  BY <1>1
<1>8. CASE c.providers = b.providers /\ c.providerRows = b.providerRows /\ c.modelRows = b.modelRows
  <2>1. m2.providerRows = m1.providerRows /\ m3.providers = m1.providers /\ m4.modelRows = m1.modelRows
    BY <1>7, <1>8
  <2> QED BY <1>3, <1>4, <1>5, <1>6, <2>1 DEF ReadAsOf
<1>9. CASE c.rules = b.rules /\ c.providerRows = b.providerRows /\ c.modelRows = b.modelRows
  <2>1. m2.providerRows = m3.providerRows /\ m1.rules = m3.rules /\ m4.modelRows = m3.modelRows
    BY <1>7, <1>9
  <2> QED BY <1>3, <1>4, <1>5, <1>6, <2>1 DEF ReadAsOf
<1>10. CASE c.rules = b.rules /\ c.providers = b.providers /\ c.modelRows = b.modelRows
  <2>1. m3.providers = m2.providers /\ m1.rules = m2.rules /\ m4.modelRows = m2.modelRows
    BY <1>7, <1>10
  <2> QED BY <1>3, <1>4, <1>5, <1>6, <2>1 DEF ReadAsOf
<1>11. CASE c.rules = b.rules /\ c.providers = b.providers /\ c.providerRows = b.providerRows
  <2>1. m3.providers = m4.providers /\ m1.rules = m4.rules /\ m2.providerRows = m4.providerRows
    BY <1>7, <1>11
  <2> QED BY <1>3, <1>4, <1>5, <1>6, <2>1 DEF ReadAsOf
<1> QED BY <1>2, <1>8, <1>9, <1>10, <1>11

\* What the matcher looks at is what is usable at that moment, and what carries
\* the request is what serves it.
LEMMA MatcherAgrees ==
  ASSUME PathInv, stage = "match", NEW m \in Moments, ReadAsOf(m), NEW open,
         NEW r \in FindModelRule(read.rules), NEW t \in ToSet(r.targets)
  PROVE  /\ Considered(t, read.providers, open) <=> t \in Usable(m, open)
         /\ Considered(t, read.providers, open) =>
              \A d \in Reach(query.dialect) :
                /\ SupportsModel(Capabilities, t.provider, t.model, d) <=> Speaks(m, t, d)
                /\ Carries(query, Capabilities, t, d) <=> Serves(m, t, d)
<1>1. r \in m.rules /\ r.enabled /\ IsConfiguration(m)
  BY RequestPathAssumption DEF ReadAsOf, FindModelRule, PathInv, StoreInv, Moments
<1>2. t.enabled => t.provider \in Referenced
  BY DEF Referenced, FindModelRule
<1>3. /\ DOMAIN read.providers = Referenced \cap DOMAIN m.providers
      /\ \A p \in DOMAIN read.providers : read.providers[p] = m.providers[p]
  BY DEF ReadAsOf, Restricted
<1>4. t \in UNION {ToSet(q.targets) : q \in {q \in m.rules : q.enabled}}
  BY <1>1
<1>5. Considered(t, read.providers, open) <=> t \in Usable(m, open)
  BY <1>2, <1>3, <1>4 DEF Considered, Usable
<1>6. ASSUME Considered(t, read.providers, open), NEW d \in Reach(query.dialect)
      PROVE  /\ SupportsModel(Capabilities, t.provider, t.model, d) <=> Speaks(m, t, d)
             /\ Carries(query, Capabilities, t, d) <=> Serves(m, t, d)
  <2>1. t.provider \in Referenced /\ t.provider \in DOMAIN m.providers
    BY <1>2, <1>3, <1>6 DEF Considered
  <2>2. SupportsModel(Capabilities, t.provider, t.model, d) <=> Speaks(m, t, d)
    BY <1>1, <2>1, SnapshotSpeaks
  <2>3. query.features \subseteq Features /\ query.inspected = (query.dialect # "openai")
    BY DEF PathInv, QueryInv, Routing, Querying
  <2>4. \A f \in query.features :
          FeatureEnabled(Capabilities, t.provider, t.model, d, f, query.enforce) <=> Grants(m, t, d, f)
    BY <1>1, <2>1, <2>3, SnapshotGrants
  <2>5. CASE d = query.dialect
    <3>1. NativeFeaturesSupported(query, Capabilities, t) <=> \A f \in query.features : Grants(m, t, d, f)
      BY <2>4, <2>5 DEF NativeFeaturesSupported
    <3> QED BY <2>2, <2>5, <3>1 DEF Carries, Serves
  <2>6. CASE d # query.dialect
    <3>1. query.dialect \in Dialects3 /\ d \in Dialects3 /\ query.inspected
      BY <2>3, <2>6 DEF Reach, Dialects3
    <3>2. SupportsStreamConversion(query.dialect, d)
      BY <2>6, <3>1 DEF SupportsStreamConversion, Dialects3
    <3>3. PreservesTextTools(query) <=> ~query.native /\ query.features \subseteq {"tools", "streaming"}
      BY <3>1 DEF PreservesTextTools
    <3>4. EdgeSupportsRequest(query, d, Capabilities, t) <=>
            /\ ~query.native /\ query.features \subseteq {"tools", "streaming"}
            /\ \A f \in query.features : Grants(m, t, d, f)
      BY <2>4, <3>2, <3>3 DEF EdgeSupportsRequest
    <3> QED BY <2>2, <2>6, <3>4 DEF Carries, Serves
  <2> QED BY <2>2, <2>5, <2>6
<1> QED BY <1>5, <1>6

---------------------------------------------------------------------------
(* The candidates are served.                                              *)

\* Candidates some moment allows, the breakers apart.
ServedCands(open) ==
  {c \in AnyCandidate(query.dialect) :
     \E m \in Moments : \E t \in Usable(m, open) :
       t.provider = c.provider /\ t.model = c.model /\ Serves(m, t, c.to)}

ServedInv == OneEdit /\ stage \in Attempting => cands \in Seq(ServedCands({}))

LEMMA MatchServes ==
  ASSUME PathInv, OneEdit, stage = "match", NEW open,
         NEW r \in FindModelRule(read.rules), NEW t \in ToSet(r.targets),
         Considered(t, read.providers, open), NEW d \in Reach(query.dialect),
         Carries(query, Capabilities, t, d)
  PROVE  MakeCandidate(t, d) \in ServedCands(open)
<1>1. read.rules # {}
  BY DEF FindModelRule
<1>2. PICK m \in Moments : ReadAsOf(m)
  BY <1>1, OneMoment
<1>3. t \in Usable(m, open) /\ Serves(m, t, d)
  BY <1>2, MatcherAgrees
<1>4. t \in AllTargets
  <2>1. r \in m.rules
    BY <1>2 DEF ReadAsOf, FindModelRule
  <2>2. m \in {Configurations[n] : n \in DOMAIN Configurations}
    BY DEF PathInv, StoreInv, Moments
  <2> QED BY <2>1, <2>2 DEF AllTargets
<1>5. MakeCandidate(t, d) \in AnyCandidate(query.dialect)
  BY <1>4 DEF AnyCandidate
<1>6. /\ MakeCandidate(t, d).provider = t.provider /\ MakeCandidate(t, d).model = t.model
      /\ MakeCandidate(t, d).to = d
  BY DEF MakeCandidate
<1> QED BY <1>2, <1>3, <1>5, <1>6 DEF ServedCands

LEMMA ServedAmong ==
  ASSUME NEW open PROVE ServedCands(open) \subseteq ServedCands({})
<1>1. \A m : Usable(m, open) \subseteq Usable(m, {})
  BY DEF Usable
<1> QED BY <1>1 DEF ServedCands

LEMMA MatchFinds ==
  ASSUME PathInv, OneEdit, stage = "match", NEW open
  PROVE  Found(open).error = "" =>
           /\ Found(open).candidates \in Seq(ServedCands(open)) /\ Found(open).candidates # <<>>
<1>1. \A r \in FindModelRule(read.rules) : \A t \in ToSet(r.targets) :
        Considered(t, read.providers, open) =>
          \A d \in Reach(query.dialect) :
            Carries(query, Capabilities, t, d) => MakeCandidate(t, d) \in ServedCands(open)
  BY MatchServes
<1> QED BY <1>1, FoundAmong

\* What the candidates are while they are tried: those the match found.
LEMMA CandsStep ==
  ASSUME PathInv, [PathNext]_pathVars, stage' \in Attempting, NEW A,
         stage \in Attempting => cands \in Seq(A),
         stage = "match" => \A open : Found(open).error = "" => Found(open).candidates \in Seq(A)
  PROVE  /\ cands' \in Seq(A) /\ UNCHANGED <<store, draft, query>>
         /\ stage \in Attempting \cup {"match"}
<1>1. stage' \notin {"answered", "draft", "reply", "relay"} \cup Routing
  BY DEF Attempting, Routing, Querying
<1>2. CASE AddFragment \/ AddPart
  BY <1>1, <1>2 DEF AddFragment, AddPart
<1>3. CASE Unauthorized \/ Unreadable
  BY <1>1, <1>3 DEF Unauthorized, Unreadable, Respond
<1>4. ASSUME NEW d, NEW seen, Handle(d, seen) PROVE FALSE
  BY <1>1, <1>4 DEF Handle, Respond, Routing
<1>5. CASE \/ HandleChatCompletions \/ HandleResponses \/ HandleMessages \/ HandleGemini
           \/ HandleEmbeddings \/ HandleOpenAI
  BY <1>4, <1>5 DEF HandleChatCompletions, HandleResponses, HandleMessages, HandleGemini,
    HandleEmbeddings, HandleOpenAI
<1>6. ASSUME NEW from, NEW to \in Querying, NEW name, NEW value, Advance(from, to, name, value)
      PROVE  FALSE
  BY <1>1, <1>6 DEF Advance, Respond, Routing
<1>7. CASE ReadRules \/ ReadProviderRows \/ ReadProviders \/ ReadModelRows
  BY <1>1, <1>6, <1>7 DEF ReadRules, ReadProviderRows, ReadProviders, ReadModelRows, Querying, Routing
<1>8. CASE Match
  <2>1. ASSUME NEW kind, NEW open, Respond(kind, open) PROVE FALSE
    BY <1>1, <2>1 DEF Respond
  <2>2. stage = "match"
    BY <1>8 DEF Match
  <2>3. PICK open, shut :
          /\ Found(open).error = ""
          /\ Try(Routed(Found(open).candidates, shut), open)
    BY <1>8, <2>1 DEF Match
  <2> DEFINE routed == Routed(Found(open).candidates, shut)
  <2>4. routed \in Seq(A)
    BY <2>2, <2>3, RoutedAmong
  <2>5. cands' = routed /\ UNCHANGED <<store, draft, query>>
    BY <2>1, <2>3 DEF Try
  <2> QED BY <2>2, <2>4, <2>5
<1>9. CASE stage \in Attempting /\ NextCandidate
  <2>1. cands' = Tail(cands) /\ UNCHANGED <<store, draft, query>>
    BY <1>9, NextCandidateStep
  <2>2. cands \in Seq(A) /\ cands # <<>>
    BY <1>9 DEF PathInv, CandsInv, Attempting
  <2>3. Tail(cands) \in Seq(A)
    BY <2>2, HeadTail
  <2> QED BY <1>9, <2>1, <2>3
<1>10. CASE AttemptFails
  BY <1>9, <1>10 DEF AttemptFails, Attempting
<1>11. CASE PrepareAttempt
  <2>1. stage \in Attempting
    BY <1>11 DEF PrepareAttempt, Attempting
  <2>2. CASE UNCHANGED <<store, draft, query, read, cands, answer>>
    BY <2>1, <2>2
  <2> QED BY <1>9, <1>11, <2>1, <2>2 DEF PrepareAttempt
<1>12. CASE ReplyArrives \/ Deliver
  BY <1>1, <1>12 DEF ReplyArrives, Deliver
<1>13. CASE Edit
  BY <1>13 DEF Edit, Attempting
<1>14. CASE UNCHANGED pathVars
  <2>1. stage' = stage /\ cands' = cands /\ UNCHANGED <<store, draft, query>>
    BY <1>14 DEF pathVars, store
  <2> QED BY <2>1
<1> QED BY <1>2, <1>3, <1>5, <1>7, <1>8, <1>10, <1>11, <1>12, <1>13, <1>14 DEF PathNext

LEMMA ServedStep == ASSUME PathInv, ServedInv, [PathNext]_pathVars PROVE ServedInv'
<1> SUFFICES ASSUME OneEdit, stage' \in Attempting PROVE cands' \in Seq(ServedCands({})')
  BY DEF ServedInv, OneEdit
<1>1. stage = "match" => \A open : Found(open).error = "" =>
        Found(open).candidates \in Seq(ServedCands({}))
  <2> SUFFICES ASSUME stage = "match", NEW open, Found(open).error = ""
               PROVE  Found(open).candidates \in Seq(ServedCands({}))
    OBVIOUS
  <2>1. Found(open).candidates \in Seq(ServedCands(open))
    BY MatchFinds
  <2> QED BY <2>1, ServedAmong, SeqMonotonic
<1>2. cands' \in Seq(ServedCands({})) /\ UNCHANGED <<store, query>>
  BY <1>1, CandsStep DEF ServedInv
<1>3. ServedCands({})' = ServedCands({})
  <2>1. moments' = moments /\ query' = query
    BY <1>2 DEF store
  <2> QED BY <2>1 DEF ServedCands, Moments, Usable, Serves, Speaks, Grants, Decides
<1> QED BY <1>2, <1>3

LEMMA ServedHolds == PathInv /\ ServedInv /\ OneEdit => SentWhereSupported
<1> SUFFICES ASSUME PathInv, ServedInv, OneEdit, stage = "sent"
             PROVE  \E m \in Moments : \E t \in Usable(m, {}) :
                      /\ t.provider = Head(cands).provider /\ t.model = Head(cands).model
                      /\ Serves(m, t, Head(cands).to)
  BY DEF SentWhereSupported
<1>1. cands \in Seq(ServedCands({})) /\ cands # <<>>
  BY DEF ServedInv, PathInv, CandsInv, Attempting
<1>2. Head(cands) \in ServedCands({})
  BY <1>1, HeadTail
<1> QED BY <1>2 DEF ServedCands

---------------------------------------------------------------------------
(* What is said of a request that is not routed.                           *)

SaysWhy ==
  stage = "match" /\ stage' = "answered" =>
    LET usable(m) == Usable(m, answer'.open)
        spoken(m) == \E t \in usable(m), d \in Wires : Speaks(m, t, d)
        served(m) == \E t \in usable(m), d \in Wires : Serves(m, t, d)
    IN  CASE answer'.kind = "unsupported_feature" -> \E m \in Moments : spoken(m) /\ ~served(m)
          [] answer'.kind = "service_unavailable" -> \E m \in Moments : ~spoken(m)
          [] answer'.kind = "route_unavailable" -> \E m \in Moments : served(m)
          [] OTHER -> answer'.kind = "no_matching_rule"

LEMMA OnlyRule ==
  ASSUME PathInv, stage = "match", NEW m \in Moments, ReadAsOf(m), NEW open,
         NEW r \in FindModelRule(read.rules)
  PROVE  Usable(m, open) \subseteq ToSet(r.targets)
<1>1. IsConfiguration(m) /\ r \in m.rules
  BY RequestPathAssumption DEF ReadAsOf, FindModelRule, PathInv, StoreInv, Moments
<1>2. \A q \in m.rules : q = r
  BY <1>1 DEF IsConfiguration
<1> QED BY <1>2 DEF Usable

LEMMA Explains ==
  ASSUME PathInv, OneEdit, stage = "match", NEW open
  PROVE  /\ Found(open).error = "unsupported_feature" =>
              \E m \in Moments :
                /\ \E t \in Usable(m, open), d \in Wires : Speaks(m, t, d)
                /\ ~\E t \in Usable(m, open), d \in Wires : Serves(m, t, d)
         /\ Found(open).error = "service_unavailable" =>
              \E m \in Moments : ~\E t \in Usable(m, open), d \in Wires : Speaks(m, t, d)
         /\ Found(open).error \in {"", "no_matching_rule", "unsupported_feature", "service_unavailable"}
<1>1. \A r \in FindModelRule(read.rules) : \A t \in ToSet(r.targets) :
        Considered(t, read.providers, open) =>
          \A d \in Reach(query.dialect) :
            Carries(query, Capabilities, t, d) => MakeCandidate(t, d) \in ServedCands(open)
  BY MatchServes
<1>2. Wires = Reach(query.dialect)
  BY DEF Wires, Reach
<1>3. Reach(query.dialect) = {query.dialect} \cup ToSet(ConversionEdgesFor(query.dialect))
  BY EdgesAre DEF Reach
<1>4. ASSUME NEW r \in FindModelRule(read.rules) PROVE \E m \in Moments : ReadAsOf(m)
  <2>1. read.rules # {}
    BY <1>4 DEF FindModelRule
  <2> QED BY <2>1, OneMoment
<1>5. ASSUME NEW m \in Moments, ReadAsOf(m), NEW r \in FindModelRule(read.rules),
             NEW t \in ToSet(r.targets), Considered(t, read.providers, open)
      PROVE  RejectedWireRoute(query, Capabilities, t) <=> \E d \in Wires : Speaks(m, t, d)
  <2>1. \A d \in Reach(query.dialect) :
          SupportsModel(Capabilities, t.provider, t.model, d) <=> Speaks(m, t, d)
    BY <1>5, MatcherAgrees
  <2> QED BY <1>2, <1>3, <2>1 DEF RejectedWireRoute
<1>6. CASE Found(open).error = "unsupported_feature"
  <2>1. PICK r \in FindModelRule(read.rules) :
          /\ \A t \in ToSet(r.targets) : Considered(t, read.providers, open) =>
               \A d \in Reach(query.dialect) : ~Carries(query, Capabilities, t, d)
          /\ \E t \in ToSet(r.targets) :
               Considered(t, read.providers, open) /\ RejectedWireRoute(query, Capabilities, t)
    BY <1>1, <1>6, FoundAmong
  <2>2. PICK m \in Moments : ReadAsOf(m)
    BY <1>4
  <2>3. PICK s \in ToSet(r.targets) :
          Considered(s, read.providers, open) /\ RejectedWireRoute(query, Capabilities, s)
    BY <2>1
  <2>4. s \in Usable(m, open) /\ \E d \in Wires : Speaks(m, s, d)
    BY <1>5, <2>2, <2>3, MatcherAgrees
  <2>5. ASSUME NEW t \in Usable(m, open), NEW d \in Wires, Serves(m, t, d) PROVE FALSE
    <3>1. t \in ToSet(r.targets)
      BY <2>2, OnlyRule
    <3>2. Considered(t, read.providers, open) /\ Carries(query, Capabilities, t, d)
      BY <1>2, <2>2, <2>5, <3>1, MatcherAgrees
    <3> QED BY <1>2, <2>1, <3>1, <3>2
  <2>6. \E m1 \in Moments :
          /\ \E t \in Usable(m1, open), d \in Wires : Speaks(m1, t, d)
          /\ ~\E t \in Usable(m1, open), d \in Wires : Serves(m1, t, d)
    BY <2>4, <2>5
  <2> QED BY <1>6, <2>6
<1>7. CASE Found(open).error = "service_unavailable"
  <2>1. PICK r \in FindModelRule(read.rules) : \A t \in ToSet(r.targets) :
          ~(Considered(t, read.providers, open) /\ RejectedWireRoute(query, Capabilities, t))
    BY <1>1, <1>7, FoundAmong
  <2>2. PICK m \in Moments : ReadAsOf(m)
    BY <1>4
  <2>3. ASSUME NEW t \in Usable(m, open), NEW d \in Wires, Speaks(m, t, d) PROVE FALSE
    <3>1. t \in ToSet(r.targets)
      BY <2>2, OnlyRule
    <3>2. Considered(t, read.providers, open)
      BY <2>2, <3>1, MatcherAgrees
    <3>3. RejectedWireRoute(query, Capabilities, t)
      BY <1>5, <2>2, <2>3, <3>1, <3>2
    <3> QED BY <2>1, <3>1, <3>2, <3>3
  <2>4. \E m1 \in Moments : ~\E t \in Usable(m1, open), d \in Wires : Speaks(m1, t, d)
    BY <2>3
  <2> QED BY <1>7, <2>4
<1>8. Found(open).error \in {"", "no_matching_rule", "unsupported_feature", "service_unavailable"}
  BY <1>1, FoundAmong
<1> QED BY <1>6, <1>7, <1>8

\* A stream is never routed where it could not be converted.
LEMMA StreamsConvert ==
  ASSUME NEW A, A \subseteq AnyCandidate(query.dialect), NEW routed \in Seq(A)
  PROVE  ~HasUnsupportedStreamConversion(routed, query.dialect)
<1> SUFFICES ASSUME NEW c \in ToSet(routed), c.to # query.dialect
             PROVE  SupportsStreamConversion(query.dialect, c.to)
  BY DEF HasUnsupportedStreamConversion
<1>1. c \in AnyCandidate(query.dialect)
  BY ElementOfSeq, LenProperties DEF ToSet
<1>2. c.to \in Reach(query.dialect)
  <2>1. PICK t \in AllTargets, to \in Reach(query.dialect) : c = MakeCandidate(t, to)
    BY <1>1 DEF AnyCandidate
  <2> QED BY <2>1 DEF MakeCandidate
<1>3. query.dialect \in Dialects3 /\ c.to \in Dialects3
  BY <1>2 DEF Reach
<1> QED BY <1>3 DEF SupportsStreamConversion, Dialects3

LEMMA MatchExplains == ASSUME PathInv, OneEdit, Match PROVE SaysWhy
<1> DEFINE spoken(m) == \E t \in Usable(m, answer'.open), d \in Wires : Speaks(m, t, d)
           served(m) == \E t \in Usable(m, answer'.open), d \in Wires : Serves(m, t, d)
<1> SUFFICES ASSUME stage' = "answered"
             PROVE  CASE answer'.kind = "unsupported_feature" -> \E m \in Moments : spoken(m) /\ ~served(m)
                      [] answer'.kind = "service_unavailable" -> \E m \in Moments : ~spoken(m)
                      [] answer'.kind = "route_unavailable" -> \E m \in Moments : served(m)
                      [] OTHER -> answer'.kind = "no_matching_rule"
  BY DEF SaysWhy
<1>1. stage = "match"
  BY DEF Match
<1>2. ASSUME NEW kind, NEW open, Respond(kind, open) PROVE answer'.kind = kind /\ answer'.open = open
  BY <1>2 DEF Respond
<1>3. PICK open :
        LET found == Found(open) IN
        IF found.error # "" THEN Respond(found.error, open)
        ELSE \E shut : Try(Routed(found.candidates, shut), open)
  BY DEF Match
<1>4. CASE Found(open).error # ""
  <2>1. answer'.kind = Found(open).error /\ answer'.open = open
    BY <1>2, <1>3, <1>4
  <2>2. CASE Found(open).error = "unsupported_feature"
    <3>1. \E m \in Moments : spoken(m) /\ ~served(m)
      BY <1>1, <2>1, <2>2, Explains
    <3> QED BY <2>1, <2>2, <3>1
  <2>3. CASE Found(open).error = "service_unavailable"
    <3>1. \E m \in Moments : ~spoken(m)
      BY <1>1, <2>1, <2>3, Explains
    <3> QED BY <2>1, <2>3, <3>1
  <2>4. CASE Found(open).error = "no_matching_rule"
    BY <2>1, <2>4
  <2> QED BY <1>1, <1>4, <2>2, <2>3, <2>4, Explains
<1>5. CASE Found(open).error = ""
  <2>1. PICK shut : Try(Routed(Found(open).candidates, shut), open)
    BY <1>3, <1>5
  <2> DEFINE routed == Routed(Found(open).candidates, shut)
  <2>2. Found(open).candidates \in Seq(ServedCands(open)) /\ Found(open).candidates # <<>>
    BY <1>1, <1>5, MatchFinds
  <2>3. routed \in Seq(ServedCands(open))
    BY <2>2, RoutedAmong
  <2>4. ServedCands(open) \subseteq AnyCandidate(query.dialect)
    BY DEF ServedCands
  <2>5. ~HasUnsupportedStreamConversion(routed, query.dialect)
    <3> HIDE DEF routed
    <3> QED BY <2>3, <2>4, StreamsConvert
  <2>6. Respond("route_unavailable", open)
    BY <2>1, <2>5 DEF Try
  <2>7. answer'.kind = "route_unavailable" /\ answer'.open = open
    BY <1>2, <2>6
  <2>8. PICK c \in ServedCands(open) : TRUE
    <3> DEFINE found == Found(open).candidates
    <3> HIDE DEF found
    <3>1. found \in Seq(ServedCands(open)) /\ found # <<>>
      BY <2>2 DEF found
    <3> QED BY <3>1, HeadTail
  <2>9. PICK m \in Moments : \E t \in Usable(m, open) : Serves(m, t, c.to)
    BY DEF ServedCands
  <2>10. c.to \in Wires
    <3>1. PICK t \in AllTargets, to \in Reach(query.dialect) : c = MakeCandidate(t, to)
      BY <2>4 DEF AnyCandidate
    <3> QED BY <3>1 DEF MakeCandidate, Wires, Reach
  <2>11. served(m)
    BY <2>7, <2>9, <2>10
  <2> QED BY <2>7, <2>11
<1> QED BY <1>4, <1>5

LEMMA StepExplains == PathInv /\ OneEdit /\ [PathNext]_pathVars => SaysWhy
<1> SUFFICES ASSUME PathInv, OneEdit, [PathNext]_pathVars, stage = "match", stage' = "answered"
             PROVE  Match \/ SaysWhy
  BY MatchExplains DEF SaysWhy
<1>1. CASE AddFragment \/ AddPart \/ Unauthorized \/ Unreadable
  BY <1>1 DEF AddFragment, AddPart, Unauthorized, Unreadable
<1>2. CASE \/ HandleChatCompletions \/ HandleResponses \/ HandleMessages \/ HandleGemini
           \/ HandleEmbeddings \/ HandleOpenAI
  BY <1>2 DEF HandleChatCompletions, HandleResponses, HandleMessages, HandleGemini,
    HandleEmbeddings, HandleOpenAI, Handle
<1>3. CASE ReadRules \/ ReadProviderRows \/ ReadProviders \/ ReadModelRows
  BY <1>3 DEF ReadRules, ReadProviderRows, ReadProviders, ReadModelRows, Advance
<1>4. CASE PrepareAttempt \/ AttemptFails \/ ReplyArrives \/ Deliver \/ Edit
  BY <1>4 DEF PrepareAttempt, AttemptFails, ReplyArrives, Deliver, Edit
<1>5. CASE UNCHANGED pathVars
  BY <1>5 DEF pathVars
<1> QED BY <1>1, <1>2, <1>3, <1>4, <1>5 DEF PathNext

---------------------------------------------------------------------------
(* The parts of one kind.                                                  *)

\* One part more.
LEMMA KindLast ==
  ASSUME NEW A, NEW s \in Seq(A), NEW x \in A, NEW kind
  PROVE  OfKind(Append(s, x), kind) = OfKind(s, kind) \o (IF x.kind = kind THEN <<x>> ELSE <<>>)
<1> DEFINE t == Append(s, x)
           before == [i \in DOMAIN s |-> IF s[i].kind = kind THEN <<s[i]>> ELSE <<>>]
           after == [i \in DOMAIN t |-> IF t[i].kind = kind THEN <<t[i]>> ELSE <<>>]
           piece == IF x.kind = kind THEN <<x>> ELSE <<>>
           both == Append(before, piece)
<1>1. /\ Len(s) \in Nat /\ DOMAIN s = 1 .. Len(s) /\ DOMAIN t = 1 .. Len(s) + 1
      /\ t[Len(s) + 1] = x /\ \A i \in 1 .. Len(s) : t[i] = s[i]
  BY Appended
<1>2. \A i \in DOMAIN s : s[i] \in A
  BY <1>1, ElementOfSeq
<1>3. before \in Seq(Seq(A)) /\ Len(before) = Len(s)
  <2>1. \A i \in DOMAIN s : <<s[i]>> \in Seq(A) /\ <<>> \in Seq(A)
    BY <1>2
  <2>2. before \in [1 .. Len(s) -> Seq(A)]
    BY <1>1, <2>1
  <2>3. before \in Seq(Seq(A)) /\ DOMAIN before = 1 .. Len(s)
    BY <1>1, <2>2, SeqDef
  <2> HIDE DEF before
  <2> QED BY <1>1, <2>3, LenProperties
<1>4. piece \in Seq(A)
  OBVIOUS
<1>5. after = both
  <2>1. /\ both \in Seq(Seq(A)) /\ DOMAIN both = 1 .. Len(s) + 1 /\ Len(both) = Len(s) + 1
        /\ \A i \in 1 .. Len(s) : both[i] = before[i]
        /\ both[Len(s) + 1] = piece
    <3> HIDE DEF before, piece
    <3>1. \A u \in Seq(Seq(A)), v \in Seq(A) :
            /\ DOMAIN Append(u, v) = 1 .. Len(u) + 1
            /\ \A i \in 1 .. Len(u) : Append(u, v)[i] = u[i]
            /\ Append(u, v)[Len(u) + 1] = v
      BY Appended
    <3>2. both \in Seq(Seq(A)) /\ Len(both) = Len(before) + 1
      BY <1>3, <1>4, Appended
    <3> QED BY <1>3, <1>4, <3>1, <3>2
  <2>2. both = [i \in 1 .. Len(s) + 1 |-> both[i]]
    <3> HIDE DEF both
    <3> QED BY <2>1, IsASeq
  <2>3. \A i \in 1 .. Len(s) : before[i] = IF s[i].kind = kind THEN <<s[i]>> ELSE <<>>
    BY <1>1
  <2> HIDE DEF t, before
  <2>4. \A i \in 1 .. Len(s) + 1 : both[i] = IF t[i].kind = kind THEN <<t[i]>> ELSE <<>>
    <3> SUFFICES ASSUME NEW i \in 1 .. Len(s) + 1
                 PROVE  both[i] = IF t[i].kind = kind THEN <<t[i]>> ELSE <<>>
      OBVIOUS
    <3>1. CASE i = Len(s) + 1
      <4> HIDE DEF both
      <4> QED BY <1>1, <2>1, <3>1
    <3>2. CASE i # Len(s) + 1
      <4>1. i \in 1 .. Len(s)
        BY <1>1, <3>2
      <4> HIDE DEF both
      <4> QED BY <1>1, <2>1, <2>3, <4>1
    <3> QED BY <3>1, <3>2
  <2> HIDE DEF both
  <2>5. after = [i \in 1 .. Len(s) + 1 |-> IF t[i].kind = kind THEN <<t[i]>> ELSE <<>>]
    BY <1>1
  <2>6. both = [i \in 1 .. Len(s) + 1 |-> IF t[i].kind = kind THEN <<t[i]>> ELSE <<>>]
    BY <2>2, <2>4
  <2> QED BY <2>5, <2>6
<1>6. OfKind(t, kind) = FlattenSeq(after) /\ OfKind(s, kind) = FlattenSeq(before)
  BY DEF OfKind
<1>7. FlattenSeq(both) = FlattenSeq(before) \o piece
  <2> HIDE DEF before, piece
  <2> QED BY <1>3, <1>4, FlattenLast
<1> HIDE DEF after, both, before
<1> QED BY <1>5, <1>6, <1>7

LEMMA KindNothing == ASSUME NEW kind PROVE OfKind(<<>>, kind) = <<>>
BY FlattenNone DEF OfKind

\* All are of the kind that is looked for.
LEMMA KindOnly ==
  ASSUME NEW A, NEW s \in Seq(A), NEW kind
  PROVE  OfKind(s, kind) \in Seq({x \in A : x.kind = kind})
<1> DEFINE B == {x \in A : x.kind = kind}
           P == {t \in Seq(A) : OfKind(t, kind) \in Seq(B)}
<1>1. <<>> \in P
  <2>1. <<>> \in Seq(A) /\ <<>> \in Seq(B)
    OBVIOUS
  <2> HIDE DEF B
  <2> QED BY <2>1, KindNothing
<1>2. ASSUME NEW t \in Seq(A), NEW x \in A, t \in P PROVE Append(t, x) \in P
  <2>1. Append(t, x) \in Seq(A) /\ OfKind(t, kind) \in Seq(B)
    BY <1>2, AppendProperties
  <2>2. (IF x.kind = kind THEN <<x>> ELSE <<>>) \in Seq(B)
    <3>1. CASE x.kind = kind
      <4>1. x \in B
        BY <3>1
      <4> HIDE DEF B
      <4> QED BY <3>1, <4>1
    <3>2. CASE x.kind # kind
      BY <3>2
    <3> QED BY <3>1, <3>2
  <2>3. OfKind(Append(t, x), kind) = OfKind(t, kind) \o (IF x.kind = kind THEN <<x>> ELSE <<>>)
    BY KindLast
  <2> HIDE DEF B
  <2> QED BY <2>1, <2>2, <2>3, ConcatProperties
<1> HIDE DEF P
<1>3. s \in P
  BY <1>1, <1>2, SeqInduction
<1> QED BY <1>3 DEF P

\* Where all are of the kind, nothing is left out; where none is, everything.
LEMMA KindSame ==
  ASSUME NEW A, NEW kind, \A x \in A : x.kind = kind, NEW s \in Seq(A)
  PROVE  OfKind(s, kind) = s
<1> DEFINE P == {t \in Seq(A) : OfKind(t, kind) = t}
<1>1. <<>> \in P
  BY KindNothing
<1>2. ASSUME NEW t \in Seq(A), NEW x \in A, t \in P PROVE Append(t, x) \in P
  <2>1. Append(t, x) \in Seq(A) /\ Append(t, x) = t \o <<x>>
    BY AppendProperties, AppendIsConcat
  <2>2. OfKind(Append(t, x), kind) = OfKind(t, kind) \o <<x>>
    BY KindLast
  <2> QED BY <1>2, <2>1, <2>2
<1> HIDE DEF P
<1>3. s \in P
  BY <1>1, <1>2, SeqInduction
<1> QED BY <1>3 DEF P

LEMMA KindNone ==
  ASSUME NEW A, NEW kind, \A x \in A : x.kind # kind, NEW s \in Seq(A)
  PROVE  OfKind(s, kind) = <<>>
<1> DEFINE P == {t \in Seq(A) : OfKind(t, kind) = <<>>}
<1>1. <<>> \in P
  BY KindNothing
<1>2. ASSUME NEW t \in Seq(A), NEW x \in A, t \in P PROVE Append(t, x) \in P
  <2>1. Append(t, x) \in Seq(A)
    BY AppendProperties
  <2>2. OfKind(Append(t, x), kind) = OfKind(t, kind) \o <<>>
    BY KindLast
  <2>3. <<>> \o <<>> = <<>>
    OBVIOUS
  <2> QED BY <1>2, <2>1, <2>2, <2>3
<1> HIDE DEF P
<1>3. s \in P
  BY <1>1, <1>2, SeqInduction
<1> QED BY <1>3 DEF P

LEMMA KindJoined ==
  ASSUME NEW A, NEW s \in Seq(A), NEW t \in Seq(A), NEW kind
  PROVE  OfKind(s \o t, kind) = OfKind(s, kind) \o OfKind(t, kind)
<1> DEFINE P == {u \in Seq(A) : OfKind(s \o u, kind) = OfKind(s, kind) \o OfKind(u, kind)}
<1>1. <<>> \in P
  <2>1. s \o <<>> = s /\ OfKind(s, kind) \o <<>> = OfKind(s, kind)
    BY KindTyped, ConcatEmptySeq
  <2>2. <<>> \in Seq(A)
    OBVIOUS
  <2> QED BY <2>1, <2>2, KindNothing
<1>2. ASSUME NEW u \in Seq(A), NEW x \in A, u \in P PROVE Append(u, x) \in P
  <2> DEFINE piece == IF x.kind = kind THEN <<x>> ELSE <<>>
  <2>1. piece \in Seq(A) /\ <<x>> \in Seq(A) /\ Append(u, x) \in Seq(A)
    BY AppendProperties
  <2>2. s \o Append(u, x) = Append(s \o u, x)
    <3>1. Append(u, x) = u \o <<x>> /\ s \o u \in Seq(A)
      BY AppendIsConcat, ConcatProperties
    <3>2. Append(s \o u, x) = (s \o u) \o <<x>>
      BY <3>1, AppendIsConcat
    <3> QED BY <2>1, <3>1, <3>2, ConcatAssociative
  <2>3. OfKind(Append(s \o u, x), kind) = OfKind(s \o u, kind) \o piece
    <3>1. s \o u \in Seq(A)
      BY ConcatProperties
    <3> QED BY <3>1, KindLast
  <2>4. OfKind(Append(u, x), kind) = OfKind(u, kind) \o piece
    BY KindLast
  <2> HIDE DEF piece
  <2>5. (OfKind(s, kind) \o OfKind(u, kind)) \o piece = OfKind(s, kind) \o (OfKind(u, kind) \o piece)
    <3>1. OfKind(s, kind) \in Seq(A) /\ OfKind(u, kind) \in Seq(A)
      BY KindTyped
    <3>2. CASE x.kind = kind
      <4>1. piece = <<x>>
        BY <3>2 DEF piece
      <4> QED BY <2>1, <3>1, <4>1, ConcatAssociative
    <3>3. CASE x.kind # kind
      <4>1. piece = <<>>
        BY <3>3 DEF piece
      <4>2. OfKind(s, kind) \o OfKind(u, kind) \in Seq(A)
        BY <3>1, ConcatProperties
      <4>3. \A v \in Seq(A) : v \o <<>> = v
        BY ConcatEmptySeq
      <4> QED BY <3>1, <4>1, <4>2, <4>3
    <3> QED BY <3>2, <3>3
  <2> QED BY <1>2, <2>1, <2>2, <2>3, <2>4, <2>5
<1> HIDE DEF P
<1>3. t \in P
  BY <1>1, <1>2, SeqInduction
<1> QED BY <1>3 DEF P

\* Texts before calls are the same texts and the same calls.
LEMMA KindsApart ==
  ASSUME NEW A, NEW s \in Seq(A)
  PROVE  LET u == OfKind(s, "text") \o OfKind(s, "call")
         IN  /\ u \in Seq(A)
             /\ OfKind(u, "text") = OfKind(s, "text") /\ OfKind(u, "call") = OfKind(s, "call")
<1> DEFINE texts == OfKind(s, "text")
           calls == OfKind(s, "call")
<1>1. texts \in Seq({x \in A : x.kind = "text"}) /\ calls \in Seq({x \in A : x.kind = "call"})
  BY KindOnly
<1>2. texts \in Seq(A) /\ calls \in Seq(A) /\ texts \o calls \in Seq(A)
  BY KindTyped, ConcatProperties
<1> HIDE DEF texts, calls
<1>3. OfKind(texts, "text") = texts /\ OfKind(calls, "call") = calls
  BY <1>1, KindSame
<1>4. OfKind(texts, "call") = <<>>
  <2>1. \A x \in {x \in A : x.kind = "text"} : x.kind # "call"
    OBVIOUS
  <2> QED BY <1>1, <2>1, KindNone
<1>5. OfKind(calls, "text") = <<>>
  <2>1. \A x \in {x \in A : x.kind = "call"} : x.kind # "text"
    OBVIOUS
  <2> QED BY <1>1, <2>1, KindNone
<1>6. OfKind(texts \o calls, "text") = texts
  <2>1. OfKind(texts \o calls, "text") = OfKind(texts, "text") \o OfKind(calls, "text")
    BY <1>2, KindJoined
  <2>2. texts \o <<>> = texts
    BY <1>2, ConcatEmptySeq
  <2> QED BY <1>3, <1>5, <2>1, <2>2
<1>7. OfKind(texts \o calls, "call") = calls
  <2>1. OfKind(texts \o calls, "call") = OfKind(texts, "call") \o OfKind(calls, "call")
    BY <1>2, KindJoined
  <2>2. <<>> \o calls = calls
    BY <1>2, ConcatEmptySeq
  <2> QED BY <1>3, <1>4, <2>1, <2>2
<1> QED BY <1>2, <1>6, <1>7 DEF texts, calls

---------------------------------------------------------------------------
(* Buffered replies.                                                       *)

ReplyPart == [kind : {"text", "call", "other"}, id : Nat]

\* s says what r says.
SameSaid(r, s) ==
  /\ s.parts \in Seq(ReplyPart) /\ TextsOf(s) = TextsOf(r) /\ CallsOf(s) = CallsOf(r)

LEMMA RepliesTyped ==
  ASSUME NEW d, NEW r \in Replies(d) PROVE r.parts \in Seq(ReplyPart) /\ r.stop \in Stops(d)
<1>1. r.stop \in Stops(d)
  BY DEF Replies
<1>2. PICK n \in 0 .. MaxReplyParts :
        r.parts \in {[i \in 1 .. n |-> [kind |-> k[i], id |-> i]] : k \in [1 .. n -> {"text", "call", "other"}]}
  BY DEF Replies
<1>3. PICK k \in [1 .. n -> {"text", "call", "other"}] :
        r.parts = [i \in 1 .. n |-> [kind |-> k[i], id |-> i]]
  BY <1>2
<1>4. n \in Nat
  BY RequestPathAssumption
<1>5. \A i \in 1 .. n : [kind |-> k[i], id |-> i] \in ReplyPart
  BY <1>4 DEF ReplyPart
<1>6. r.parts \in [1 .. n -> ReplyPart]
  BY <1>3, <1>5
<1> QED BY <1>1, <1>4, <1>6, SeqDef

LEMMA ReplyFields ==
  ASSUME NEW parts, NEW stop PROVE Reply(parts, stop).parts = parts /\ Reply(parts, stop).stop = stop
BY DEF Reply

LEMMA TextsFirst ==
  ASSUME NEW r, r.parts \in Seq(ReplyPart), NEW stop
  PROVE  SameSaid(r, Reply(TextsOf(r) \o CallsOf(r), stop))
<1> DEFINE u == OfKind(r.parts, "text") \o OfKind(r.parts, "call")
<1>1. /\ u \in Seq(ReplyPart)
      /\ OfKind(u, "text") = OfKind(r.parts, "text") /\ OfKind(u, "call") = OfKind(r.parts, "call")
  BY KindsApart
<1>2. Reply(u, stop).parts = u
  BY ReplyFields
<1> HIDE DEF u
<1>3. SameSaid(r, Reply(u, stop))
  BY <1>1, <1>2 DEF SameSaid, TextsOf, CallsOf
<1> QED BY <1>3 DEF u, TextsOf, CallsOf

LEMMA ToResponsesReply ==
  ASSUME NEW r, r.parts \in Seq(ReplyPart), NEW s \in MessagesToResponsesResponse(r)
  PROVE  SameSaid(r, s) /\ s.stop = MessagesStopToResponsesStatus(r.stop)
BY TextsFirst, ReplyFields
  DEF MessagesToResponsesResponse, Unless, MessagesBlocksToResponsesOutput

LEMMA ToMessagesReply ==
  ASSUME NEW r, r.parts \in Seq(ReplyPart), NEW s \in ResponsesToMessagesResponse(r)
  PROVE  SameSaid(r, s) /\ s.stop = ResponsesStatusToMessagesStop(r.stop)
BY ReplyFields
  DEF ResponsesToMessagesResponse, Unless, ResponsesOutputToMessagesBlocks, SameSaid, TextsOf, CallsOf

LEMMA FromChatReply ==
  ASSUME NEW r, r.parts \in Seq(ReplyPart), NEW s \in ChatToResponsesResponse(r)
  PROVE  SameSaid(r, s) /\ s.stop = (IF r.stop \in {"cut", "filtered"} THEN r.stop ELSE "done")
BY TextsFirst, ReplyFields DEF ChatToResponsesResponse, Unless

LEMMA ToChatReply ==
  ASSUME NEW r, r.parts \in Seq(ReplyPart), NEW one, NEW s \in ResponsesToChatResponse(r, one)
  PROVE  /\ SameSaid(r, s) /\ r.stop \in {"done", "cut", "filtered"}
         /\ r.stop # "done" => s.stop = r.stop
BY TextsFirst, ReplyFields DEF ResponsesToChatResponse, Unless

Conveys(r, s) ==
  /\ TextsOf(s) = TextsOf(r) /\ CallsOf(s) = CallsOf(r)
  /\ r.stop \in {"cut", "failed"} => s.stop \notin {"done", "calls"}

\* What is converted back says what the provider said, and whether it ended.
LEMMA ConvertedBack ==
  ASSUME NEW from \in Dialects3, NEW to \in Dialects3, from # to,
         NEW r \in Replies(to), NEW s \in ConvertResponse(from, to, r)
  PROVE  Conveys(r, s)
<1>1. r.parts \in Seq(ReplyPart) /\ r.stop \in Stops(to)
  BY RepliesTyped
<1>2. CASE from = "messages" /\ to = "responses"
  <2>1. s \in ResponsesToMessagesResponse(r)
    BY <1>2 DEF ConvertResponse
  <2> QED BY <1>1, <2>1, ToMessagesReply DEF SameSaid, Conveys, ResponsesStatusToMessagesStop
<1>3. CASE from = "responses" /\ to = "messages"
  <2>1. s \in MessagesToResponsesResponse(r)
    BY <1>3 DEF ConvertResponse
  <2> QED BY <1>1, <2>1, ToResponsesReply DEF SameSaid, Conveys, MessagesStopToResponsesStatus
<1>4. CASE from = "chat" /\ to = "responses"
  <2>1. s \in ResponsesToChatResponse(r, FALSE)
    BY <1>4 DEF ConvertResponse
  <2> QED BY <1>1, <2>1, ToChatReply DEF SameSaid, Conveys
<1>5. CASE from = "responses" /\ to = "chat"
  <2>1. s \in ChatToResponsesResponse(r) /\ r.stop \in {"done", "calls", "cut", "filtered"}
    BY <1>1, <1>5 DEF ConvertResponse, Stops
  <2> QED BY <1>1, <2>1, FromChatReply DEF SameSaid, Conveys
<1>6. CASE from = "chat" /\ to = "messages"
  <2>1. PICK m \in MessagesToResponsesResponse(r) : s \in ResponsesToChatResponse(m, TRUE)
    BY <1>6 DEF ConvertResponse
  <2>2. SameSaid(r, m) /\ m.stop = MessagesStopToResponsesStatus(r.stop)
    BY <1>1, <2>1, ToResponsesReply
  <2>3. SameSaid(m, s) /\ m.stop \in {"done", "cut", "filtered"}
    BY <2>1, <2>2, ToChatReply DEF SameSaid
  <2>4. r.stop \notin {"cut", "failed"}
    BY <2>2, <2>3 DEF MessagesStopToResponsesStatus
  <2> QED BY <2>2, <2>3, <2>4 DEF SameSaid, Conveys
<1>7. CASE from = "messages" /\ to = "chat"
  <2>1. PICK m \in ChatToResponsesResponse(r) : s \in ResponsesToMessagesResponse(m)
    BY <1>7 DEF ConvertResponse
  <2>2. SameSaid(r, m) /\ m.stop = (IF r.stop \in {"cut", "filtered"} THEN r.stop ELSE "done")
    BY <1>1, <2>1, FromChatReply
  <2>3. SameSaid(m, s) /\ s.stop = ResponsesStatusToMessagesStop(m.stop)
    BY <2>1, <2>2, ToMessagesReply DEF SameSaid
  <2>4. r.stop \in {"done", "calls", "cut", "filtered"}
    BY <1>1, <1>7 DEF Stops
  <2>5. r.stop = "cut" => s.stop = "cut"
    BY <2>2, <2>3 DEF ResponsesStatusToMessagesStop
  <2> QED BY <2>2, <2>3, <2>4, <2>5 DEF SameSaid, Conveys
<1> QED BY <1>2, <1>3, <1>4, <1>5, <1>6, <1>7 DEF Dialects3

LEMMA FoundErrors ==
  ASSUME PathInv, stage = "match", NEW open PROVE Found(open).error # "reply"
<1>1. draft.dialect = query.dialect
  BY DEF PathInv, QueryInv, Routing, Querying
<1> DEFINE A == AnyCandidate(draft.dialect)
<1>2. \A r \in FindModelRule(read.rules) : \A t \in ToSet(r.targets) :
        Considered(t, read.providers, open) =>
          \A d \in Reach(query.dialect) :
            Carries(query, Capabilities, t, d) => MakeCandidate(t, d) \in A
  BY <1>1, TargetsKnown
<1> HIDE DEF A
<1>3. Found(open).error \in {"", "no_matching_rule", "unsupported_feature", "service_unavailable"}
  BY <1>2, FoundAmong
<1> QED BY <1>3

LEMMA DeliverKeeps == ASSUME PathInv, Deliver PROVE ReplyKept'
<1>1. stage = "reply"
  BY DEF Deliver
<1>2. Head(cands).to \in Reach(draft.dialect)
  <2>1. cands \in Seq(AnyCandidate(draft.dialect)) /\ cands # <<>>
    BY <1>1 DEF PathInv, CandsInv
  <2>2. Head(cands) \in AnyCandidate(draft.dialect)
    BY <2>1, HeadTail
  <2>3. PICK t \in AllTargets, to \in Reach(draft.dialect) : Head(cands) = MakeCandidate(t, to)
    BY <2>2 DEF AnyCandidate
  <2> QED BY <2>3 DEF MakeCandidate
<1> DEFINE from == draft.dialect
           to == Head(cands).to
<1>3. PICK r \in Replies(to) : \E got1 \in IF from = to THEN {r} ELSE ConvertResponse(from, to, r) :
        answer' = [kind |-> "reply", to |-> to, sent |-> r, got |-> got1]
  BY DEF Deliver
<1>4. PICK s \in IF from = to THEN {r} ELSE ConvertResponse(from, to, r) :
        answer' = [kind |-> "reply", to |-> to, sent |-> r, got |-> s]
  BY <1>3
<1>5. answer'.kind = "reply" /\ answer'.sent = r /\ answer'.got = s
  BY <1>4
<1>6. CASE from = to
  <2>1. s = r
    BY <1>4, <1>6
  <2>2. r.stop \in {"cut", "failed"} => r.stop \notin {"done", "calls"}
    OBVIOUS
  <2> QED BY <1>5, <2>1, <2>2 DEF ReplyKept
<1>7. CASE from # to
  <2>1. from \in Dialects3 /\ to \in Dialects3
    BY <1>2, <1>7 DEF Reach
  <2>2. Conveys(r, s)
    BY <1>4, <1>7, <2>1, ConvertedBack
  <2> QED BY <1>5, <2>2 DEF ReplyKept, Conveys
<1> QED BY <1>6, <1>7

LEMMA ReplyStep == ASSUME PathInv, ReplyKept, [PathNext]_pathVars PROVE ReplyKept'
<1>1. ASSUME UNCHANGED answer PROVE ReplyKept'
  BY <1>1 DEF ReplyKept
<1>2. ASSUME NEW kind, NEW open, Respond(kind, open), kind # "reply" PROVE ReplyKept'
  <2>1. answer' = [kind |-> kind, open |-> open]
    BY <1>2 DEF Respond
  <2>2. answer'.kind # "reply"
    BY <1>2, <2>1
  <2> QED BY <2>2 DEF ReplyKept
<1>3. CASE AddFragment \/ AddPart \/ Edit \/ ReplyArrives
  BY <1>1, <1>3 DEF AddFragment, AddPart, Edit, ReplyArrives
<1>4. CASE Unauthorized \/ Unreadable
  <2>1. \E kind \in {"401", "500", "400", "404"} : Respond(kind, {})
    BY <1>4 DEF Unauthorized, Unreadable
  <2> QED BY <1>2, <2>1
<1>5. ASSUME NEW d, NEW seen, Handle(d, seen) PROVE ReplyKept'
  BY <1>1, <1>2, <1>5 DEF Handle
<1>6. CASE \/ HandleChatCompletions \/ HandleResponses \/ HandleMessages \/ HandleGemini
           \/ HandleEmbeddings \/ HandleOpenAI
  BY <1>5, <1>6 DEF HandleChatCompletions, HandleResponses, HandleMessages, HandleGemini,
    HandleEmbeddings, HandleOpenAI
<1>7. ASSUME NEW from, NEW to, NEW name, NEW value, Advance(from, to, name, value) PROVE ReplyKept'
  BY <1>1, <1>2, <1>7 DEF Advance
<1>8. CASE ReadRules \/ ReadProviderRows \/ ReadProviders \/ ReadModelRows
  BY <1>1, <1>7, <1>8 DEF ReadRules, ReadProviderRows, ReadProviders, ReadModelRows
<1>9. CASE Match
  <2>1. stage = "match" /\ draft.dialect = query.dialect
    BY <1>9 DEF Match, PathInv, QueryInv, Routing, Querying
  <2>2. ASSUME NEW routed, NEW open, Try(routed, open) PROVE ReplyKept'
    BY <1>1, <1>2, <2>2 DEF Try
  <2>3. PICK open :
          LET found == Found(open) IN
          IF found.error # "" THEN Respond(found.error, open)
          ELSE \E shut : Try(Routed(found.candidates, shut), open)
    BY <1>9 DEF Match
  <2>4. Found(open).error # "reply"
    BY <2>1, FoundErrors
  <2> QED BY <1>2, <2>2, <2>3, <2>4
<1>10. CASE NextCandidate
  BY <1>1, <1>2, <1>10 DEF NextCandidate
<1>11. CASE PrepareAttempt \/ AttemptFails
  BY <1>1, <1>10, <1>11 DEF PrepareAttempt, AttemptFails
<1>12. CASE Deliver
  BY <1>12, DeliverKeeps
<1>13. CASE UNCHANGED pathVars
  BY <1>1, <1>13 DEF pathVars
<1> QED BY <1>3, <1>4, <1>6, <1>8, <1>9, <1>11, <1>12, <1>13 DEF PathNext

---------------------------------------------------------------------------
(* What a conversation says, and what of it a conversion keeps.            *)

\* Flattening one piece more.
LEMMA FlattenGrows ==
  ASSUME NEW B, NEW n \in Nat, NEW ss, NEW tt,
         ss \in [1 .. n -> Seq(B)], tt \in [1 .. n + 1 -> Seq(B)], AlikeTo(ss, tt, n)
  PROVE  FlattenSeq(tt) = FlattenSeq(ss) \o tt[n + 1] /\ FlattenSeq(ss) \in Seq(B)
<1>1. ss \in Seq(Seq(B)) /\ Len(ss) = n
  <2>1. ss \in Seq(Seq(B)) /\ DOMAIN ss = 1 .. n
    BY SeqDef
  <2> QED BY <2>1, LenProperties
<1> DEFINE x == tt[n + 1]
<1>2. x \in Seq(B)
  OBVIOUS
<1> HIDE DEF x
<1>3. Append(ss, x) = tt
  <2>1. tt \in Seq(Seq(B)) /\ Len(tt) = n + 1
    <3>1. n + 1 \in Nat
      OBVIOUS
    <3>2. tt \in Seq(Seq(B)) /\ DOMAIN tt = 1 .. n + 1
      BY <3>1, SeqDef
    <3> QED BY <3>1, <3>2, LenProperties
  <2>2. /\ Append(ss, x) \in Seq(Seq(B)) /\ Len(Append(ss, x)) = n + 1
        /\ \A i \in 1 .. n : Append(ss, x)[i] = ss[i]
        /\ Append(ss, x)[n + 1] = x
    BY <1>1, <1>2, Appended
  <2>3. \A i \in 1 .. n + 1 : Append(ss, x)[i] = tt[i]
    <3>1. \A i \in 1 .. n + 1 : i \in 1 .. n \/ i = n + 1
      OBVIOUS
    <3> QED BY <2>2, <3>1 DEF AlikeTo, x
  <2> QED BY <2>1, <2>2, <2>3, SeqEqual
<1> QED BY <1>1, <1>2, <1>3, FlattenLast, FlattenTyped DEF x

Maps(A, B) == [A -> Seq(B)]

\* The pieces G makes of the elements of s.
Mapped(s, G) == FlattenSeq([i \in DOMAIN s |-> G[s[i]]])

LEMMA MappedNone == ASSUME NEW G PROVE Mapped(<<>>, G) = <<>>
<1>1. [i \in DOMAIN <<>> |-> G[<<>>[i]]] = <<>>
  OBVIOUS
<1> QED BY <1>1, FlattenNone DEF Mapped

LEMMA MappedLast ==
  ASSUME NEW A, NEW B, NEW G \in Maps(A, B), NEW s \in Seq(A), NEW x \in A
  PROVE  Mapped(Append(s, x), G) = Mapped(s, G) \o G[x] /\ Mapped(s, G) \in Seq(B)
<1> DEFINE n == Len(s)
           t == Append(s, x)
           ss == [i \in DOMAIN s |-> G[s[i]]]
           tt == [i \in DOMAIN t |-> G[t[i]]]
<1>1. /\ n \in Nat /\ DOMAIN s = 1 .. n /\ DOMAIN t = 1 .. n + 1
      /\ \A i \in 1 .. n : t[i] = s[i]
      /\ t[n + 1] = x /\ n + 1 \in 1 .. n + 1
  BY Appended
<1>2. \A i \in 1 .. n : s[i] \in A /\ i \in 1 .. n + 1
  BY <1>1, ElementOfSeq
<1>3. \A i \in 1 .. n + 1 : t[i] \in A
  <2>1. \A i \in 1 .. n + 1 : i \in 1 .. n \/ i = n + 1
    BY <1>1
  <2> HIDE DEF t, n
  <2> QED BY <1>1, <1>2, <2>1
<1> HIDE DEF n, t
<1>4. /\ ss \in [1 .. n -> Seq(B)] /\ tt \in [1 .. n + 1 -> Seq(B)]
      /\ AlikeTo(ss, tt, n) /\ tt[n + 1] = G[x]
  BY <1>1, <1>2, <1>3 DEF AlikeTo, Maps
<1> HIDE DEF ss, tt
<1>5. FlattenSeq(tt) = FlattenSeq(ss) \o tt[n + 1] /\ FlattenSeq(ss) \in Seq(B)
  BY <1>1, <1>4, FlattenGrows
<1> QED BY <1>4, <1>5 DEF Mapped, ss, tt, t

LEMMA MappedTyped ==
  ASSUME NEW A, NEW B, NEW G \in Maps(A, B), NEW s \in Seq(A) PROVE Mapped(s, G) \in Seq(B)
<1>1. CASE s = <<>>
  <2>1. <<>> \in Seq(B)
    OBVIOUS
  <2> QED BY <1>1, <2>1, MappedNone
<1>2. CASE s # <<>>
  <2>1. PICK x \in A : TRUE
    BY <1>2, LastOne
  <2> QED BY <2>1, MappedLast
<1> QED BY <1>1, <1>2

LEMMA MappedOne ==
  ASSUME NEW A, NEW B, NEW G \in Maps(A, B), NEW x \in A PROVE Mapped(<<x>>, G) = G[x]
<1>1. Append(<<>>, x) = <<x>>
  OBVIOUS
<1>2. Mapped(Append(<<>>, x), G) = Mapped(<<>>, G) \o G[x]
  <2> DEFINE none == <<>>
  <2>1. none \in Seq(A)
    OBVIOUS
  <2> HIDE DEF none
  <2>2. Mapped(Append(none, x), G) = Mapped(none, G) \o G[x]
    BY <2>1, MappedLast
  <2> QED BY <2>2 DEF none
<1>3. G[x] \in Seq(B)
  BY DEF Maps
<1>4. <<>> \o G[x] = G[x]
  BY <1>3, ConcatEmptySeq
<1> QED BY <1>1, <1>2, <1>4, MappedNone

\* One more at the end of the second of two.
LEMMA JoinedLast ==
  ASSUME NEW A, NEW s \in Seq(A), NEW t \in Seq(A), NEW x \in A
  PROVE  s \o Append(t, x) = Append(s \o t, x) /\ s \o t \in Seq(A)
<1>1. <<x>> \in Seq(A) /\ s \o t \in Seq(A)
  BY ConcatProperties
<1>2. Append(t, x) = t \o <<x>> /\ Append(s \o t, x) = (s \o t) \o <<x>>
  BY <1>1, AppendIsConcat
<1> QED BY <1>1, <1>2, ConcatAssociative

LEMMA MappedJoined ==
  ASSUME NEW A, NEW B, NEW G \in Maps(A, B), NEW s \in Seq(A), NEW t \in Seq(A)
  PROVE  Mapped(s \o t, G) = Mapped(s, G) \o Mapped(t, G)
<1> DEFINE P == {u \in Seq(A) : Mapped(s \o u, G) = Mapped(s, G) \o Mapped(u, G)}
<1>1. <<>> \in P
  <2>1. s \o <<>> = s /\ Mapped(s, G) \o <<>> = Mapped(s, G) /\ <<>> \in Seq(A)
    BY MappedTyped, ConcatEmptySeq
  <2> QED BY <2>1, MappedNone
<1>2. ASSUME NEW u \in Seq(A), NEW x \in A, u \in P PROVE Append(u, x) \in P
  <2>1. s \o Append(u, x) = Append(s \o u, x) /\ s \o u \in Seq(A) /\ Append(u, x) \in Seq(A)
    BY JoinedLast, AppendProperties
  <2>2. Mapped(Append(s \o u, x), G) = Mapped(s \o u, G) \o G[x]
    <3> DEFINE v == s \o u
    <3>1. v \in Seq(A)
      BY <2>1
    <3> HIDE DEF v
    <3>2. Mapped(Append(v, x), G) = Mapped(v, G) \o G[x]
      BY <3>1, MappedLast
    <3> QED BY <3>2 DEF v
  <2>3. Mapped(Append(u, x), G) = Mapped(u, G) \o G[x]
    BY MappedLast
  <2>4. Mapped(s, G) \in Seq(B) /\ Mapped(u, G) \in Seq(B) /\ G[x] \in Seq(B)
    BY MappedTyped DEF Maps
  <2>5. (Mapped(s, G) \o Mapped(u, G)) \o G[x] = Mapped(s, G) \o (Mapped(u, G) \o G[x])
    <3> DEFINE v == Mapped(s, G)
               w == Mapped(u, G)
               y == G[x]
    <3>1. v \in Seq(B) /\ w \in Seq(B) /\ y \in Seq(B)
      BY <2>4
    <3> HIDE DEF v, w, y
    <3>2. (v \o w) \o y = v \o (w \o y)
      BY <3>1, ConcatAssociative
    <3> QED BY <3>2 DEF v, w, y
  <2> QED BY <1>2, <2>1, <2>2, <2>3, <2>5
<1> HIDE DEF P
<1>3. t \in P
  BY <1>1, <1>2, SeqInduction
<1> QED BY <1>3 DEF P

---------------------------------------------------------------------------
(* What a conversation says.                                               *)

Roles == {"user", "assistant", "system", "tool"}
By(p, role) == IF p.kind = "text" THEN role ELSE ""
Word(p, role) == [part |-> p, by |-> By(p, role)]
WordsOf(ps, role) == [j \in DOMAIN ps |-> Word(ps[j], role)]
Vocabulary == {Word(p, role) : p \in RequestParts, role \in Roles}
Hearing == [m \in RequestMessages |-> WordsOf(m.parts, m.role)]

\* The words of a conversation, whatever messages they are in.
HeardIn(c) == Mapped(c, Hearing)

LEMMA WordsTyped ==
  ASSUME NEW ps \in Seq(RequestParts), NEW role \in Roles
  PROVE  /\ WordsOf(ps, role) \in Seq(Vocabulary) /\ Len(WordsOf(ps, role)) = Len(ps)
         /\ Len(ps) \in Nat /\ DOMAIN ps = 1 .. Len(ps)
         /\ \A j \in 1 .. Len(ps) : WordsOf(ps, role)[j] = Word(ps[j], role)
<1>1. Len(ps) \in Nat /\ DOMAIN ps = 1 .. Len(ps) /\ \A j \in 1 .. Len(ps) : ps[j] \in RequestParts
  BY LenProperties, ElementOfSeq
<1>2. WordsOf(ps, role) \in [1 .. Len(ps) -> Vocabulary]
  BY <1>1 DEF WordsOf, Vocabulary
<1>3. WordsOf(ps, role) \in Seq(Vocabulary)
  BY <1>1, <1>2, SeqDef
<1>4. DOMAIN WordsOf(ps, role) = 1 .. Len(ps)
  BY <1>2
<1> QED BY <1>1, <1>3, <1>4, LenProperties DEF WordsOf

LEMMA WordsJoined ==
  ASSUME NEW ps \in Seq(RequestParts), NEW qs \in Seq(RequestParts), NEW role \in Roles
  PROVE  WordsOf(ps \o qs, role) = WordsOf(ps, role) \o WordsOf(qs, role)
<1> DEFINE v == WordsOf(ps, role)
           w == WordsOf(qs, role)
           u == WordsOf(ps \o qs, role)
<1>1. /\ ps \o qs \in Seq(RequestParts) /\ Len(ps \o qs) = Len(ps) + Len(qs)
      /\ \A i \in 1 .. Len(ps) + Len(qs) :
           (ps \o qs)[i] = IF i <= Len(ps) THEN ps[i] ELSE qs[i - Len(ps)]
  BY ConcatProperties
<1>2. /\ v \in Seq(Vocabulary) /\ Len(v) = Len(ps) /\ Len(ps) \in Nat
      /\ \A j \in 1 .. Len(ps) : v[j] = Word(ps[j], role)
  BY WordsTyped
<1>3. /\ w \in Seq(Vocabulary) /\ Len(w) = Len(qs) /\ Len(qs) \in Nat
      /\ \A j \in 1 .. Len(qs) : w[j] = Word(qs[j], role)
  BY WordsTyped
<1> DEFINE both == ps \o qs
<1>4. both \in Seq(RequestParts) /\ Len(both) = Len(ps) + Len(qs)
      /\ \A i \in 1 .. Len(ps) + Len(qs) : both[i] = IF i <= Len(ps) THEN ps[i] ELSE qs[i - Len(ps)]
  BY <1>1
<1> HIDE DEF both
<1>5. /\ WordsOf(both, role) \in Seq(Vocabulary) /\ Len(WordsOf(both, role)) = Len(both)
      /\ \A j \in 1 .. Len(both) : WordsOf(both, role)[j] = Word(both[j], role)
  BY <1>4, WordsTyped
<1>6. u = WordsOf(both, role)
  BY DEF both
<1> HIDE DEF u, v, w
<1>7. /\ v \o w \in Seq(Vocabulary) /\ Len(v \o w) = Len(ps) + Len(qs)
      /\ \A i \in 1 .. Len(ps) + Len(qs) : (v \o w)[i] = IF i <= Len(ps) THEN v[i] ELSE w[i - Len(ps)]
  <2>1. /\ v \o w \in Seq(Vocabulary) /\ Len(v \o w) = Len(v) + Len(w)
        /\ \A i \in 1 .. Len(v) + Len(w) : (v \o w)[i] = IF i <= Len(v) THEN v[i] ELSE w[i - Len(v)]
    <3>1. v \in Seq(Vocabulary) /\ w \in Seq(Vocabulary)
      BY <1>2, <1>3
    <3> QED BY <3>1, ConcatProperties
  <2> DEFINE z == v \o w
  <2> HIDE DEF z
  <2> QED BY <1>2, <1>3, <2>1
<1>8. \A i \in 1 .. Len(ps) + Len(qs) : u[i] = (v \o w)[i]
  <2> SUFFICES ASSUME NEW i \in 1 .. Len(ps) + Len(qs) PROVE u[i] = (v \o w)[i]
    OBVIOUS
  <2>1. u[i] = Word(both[i], role)
    BY <1>4, <1>5, <1>6
  <2>2. CASE i <= Len(ps)
    <3>1. i \in 1 .. Len(ps)
      BY <1>2, <1>3, <2>2
    <3> QED BY <1>2, <1>4, <1>7, <2>1, <2>2, <3>1
  <2>3. CASE ~(i <= Len(ps))
    <3>1. i - Len(ps) \in 1 .. Len(qs)
      BY <1>2, <1>3, <2>3
    <3> QED BY <1>3, <1>4, <1>7, <2>1, <2>3, <3>1
  <2> QED BY <2>2, <2>3
<1>9. u \in Seq(Vocabulary) /\ Len(u) = Len(v \o w)
  BY <1>4, <1>5, <1>6, <1>7
<1>10. u = v \o w
  <2> DEFINE z == v \o w
  <2>1. z \in Seq(Vocabulary) /\ Len(u) = Len(z) /\ \A i \in 1 .. Len(u) : u[i] = z[i]
    BY <1>7, <1>8, <1>9
  <2> HIDE DEF z
  <2>2. u = z
    BY <1>9, <2>1, SeqEqual
  <2> QED BY <2>2 DEF z
<1> QED BY <1>10 DEF u, v, w

LEMMA HearingIs ==
  /\ Hearing \in Maps(RequestMessages, Vocabulary)
  /\ \A m \in RequestMessages : Hearing[m] = WordsOf(m.parts, m.role)
<1>1. \A m \in RequestMessages : WordsOf(m.parts, m.role) \in Seq(Vocabulary)
  <2> SUFFICES ASSUME NEW m \in RequestMessages PROVE WordsOf(m.parts, m.role) \in Seq(Vocabulary)
    OBVIOUS
  <2>1. m.parts \in Seq(RequestParts) /\ m.role \in Roles
    BY DEF RequestMessages, Roles
  <2> QED BY <2>1, WordsTyped
<1> QED BY <1>1 DEF Hearing, Maps

LEMMA HeardLast ==
  ASSUME NEW c \in Seq(RequestMessages), NEW m \in RequestMessages
  PROVE  /\ HeardIn(Append(c, m)) = HeardIn(c) \o WordsOf(m.parts, m.role)
         /\ HeardIn(c) \in Seq(Vocabulary) /\ WordsOf(m.parts, m.role) \in Seq(Vocabulary)
         /\ m.parts \in Seq(RequestParts) /\ m.role \in Roles
<1>1. m.parts \in Seq(RequestParts) /\ m.role \in Roles
  BY DEF RequestMessages, Roles
<1>2. WordsOf(m.parts, m.role) \in Seq(Vocabulary)
  BY <1>1, WordsTyped
<1>3. Mapped(Append(c, m), Hearing) = Mapped(c, Hearing) \o Hearing[m]
      /\ Mapped(c, Hearing) \in Seq(Vocabulary)
  BY HearingIs, MappedLast
<1> QED BY <1>1, <1>2, <1>3, HearingIs DEF HeardIn

LEMMA HeardJoined ==
  ASSUME NEW c \in Seq(RequestMessages), NEW d \in Seq(RequestMessages)
  PROVE  HeardIn(c \o d) = HeardIn(c) \o HeardIn(d) /\ HeardIn(c) \in Seq(Vocabulary)
<1>1. Mapped(c \o d, Hearing) = Mapped(c, Hearing) \o Mapped(d, Hearing)
  BY HearingIs, MappedJoined
<1>2. Mapped(c, Hearing) \in Seq(Vocabulary)
  BY HearingIs, MappedTyped
<1> QED BY <1>1, <1>2 DEF HeardIn

LEMMA HeardOne ==
  ASSUME NEW m \in RequestMessages
  PROVE  HeardIn(<<m>>) = WordsOf(m.parts, m.role) /\ HeardIn(<<>>) = <<>>
<1>1. Mapped(<<m>>, Hearing) = Hearing[m]
  BY HearingIs, MappedOne
<1> QED BY <1>1, HearingIs, MappedNone DEF HeardIn

---------------------------------------------------------------------------
(* What is kept of it.                                                     *)

\* The element x of one conversation is the word w of another.
Fits(x, w) == w.part = x.part /\ w.by = x.by
Freely(x, y) == x.message = y.message /\ x.part.kind # y.part.kind

KeptBy(f, b, a) ==
  /\ f \in [1 .. Len(b) -> 1 .. Len(a)]
  /\ \A i \in 1 .. Len(b) : Fits(b[i], a[f[i]])
  /\ \A i, j \in 1 .. Len(b) : i < j /\ ~Freely(b[i], b[j]) => f[i] < f[j]

KeptIn(b, a) == Len(a) = Len(b) /\ \E f : KeptBy(f, b, a)

\* What is kept of two is kept of both.
LEMMA KeptJoined ==
  ASSUME NEW X, NEW Y, NEW b \in Seq(X), NEW bb \in Seq(X), NEW a \in Seq(Y), NEW aa \in Seq(Y),
         KeptIn(b, a), KeptIn(bb, aa)
  PROVE  KeptIn(b \o bb, a \o aa)
<1> DEFINE n == Len(b)
           k == Len(bb)
           u == b \o bb
           v == a \o aa
<1>1. PICK f : KeptBy(f, b, a)
  BY DEF KeptIn
<1>2. PICK g : KeptBy(g, bb, aa)
  BY DEF KeptIn
<1>3. n \in Nat /\ k \in Nat /\ Len(a) = n /\ Len(aa) = k
  BY LenProperties DEF KeptIn
<1>4. /\ Len(u) = n + k /\ \A i \in 1 .. n + k : u[i] = IF i <= n THEN b[i] ELSE bb[i - n]
  BY ConcatProperties
<1>5. /\ Len(v) = n + k /\ \A i \in 1 .. n + k : v[i] = IF i <= n THEN a[i] ELSE aa[i - n]
  <2>1. /\ Len(v) = Len(a) + Len(aa)
        /\ \A i \in 1 .. Len(a) + Len(aa) : v[i] = IF i <= Len(a) THEN a[i] ELSE aa[i - Len(a)]
    BY ConcatProperties
  <2> HIDE DEF n, k, v
  <2> QED BY <1>3, <2>1
<1> DEFINE h == [i \in 1 .. n + k |-> IF i <= n THEN f[i] ELSE n + g[i - n]]
<1> HIDE DEF n, k, u, v
<1>6. \A i \in 1 .. n + k : (i <= n => i \in 1 .. n) /\ (~(i <= n) => i - n \in 1 .. k)
  BY <1>3
<1>7. /\ \A i \in 1 .. n : f[i] \in 1 .. n /\ Fits(b[i], a[f[i]])
      /\ \A i \in 1 .. k : g[i] \in 1 .. k /\ Fits(bb[i], aa[g[i]])
  BY <1>1, <1>2, <1>3 DEF KeptBy, n, k
<1>8. h \in [1 .. n + k -> 1 .. n + k]
  <2>1. ASSUME NEW i \in 1 .. n + k PROVE h[i] \in 1 .. n + k
    <3>1. CASE i <= n
      <4>1. h[i] = f[i] /\ f[i] \in 1 .. n
        BY <1>6, <1>7, <3>1
      <4> QED BY <1>3, <4>1
    <3>2. CASE ~(i <= n)
      <4>1. h[i] = n + g[i - n] /\ g[i - n] \in 1 .. k
        BY <1>6, <1>7, <3>2
      <4> QED BY <1>3, <4>1
    <3> QED BY <3>1, <3>2
  <2> QED BY <2>1
<1>9. ASSUME NEW i \in 1 .. n + k PROVE Fits(u[i], v[h[i]])
  <2>1. CASE i <= n
    <3>1. h[i] = f[i] /\ f[i] \in 1 .. n /\ u[i] = b[i] /\ Fits(b[i], a[f[i]])
      BY <1>4, <1>6, <1>7, <2>1
    <3>2. v[f[i]] = a[f[i]]
      BY <1>3, <1>5, <3>1
    <3> QED BY <3>1, <3>2
  <2>2. CASE ~(i <= n)
    <3>1. /\ h[i] = n + g[i - n] /\ g[i - n] \in 1 .. k /\ u[i] = bb[i - n]
          /\ Fits(bb[i - n], aa[g[i - n]])
      BY <1>4, <1>6, <1>7, <2>2
    <3>2. v[n + g[i - n]] = aa[g[i - n]]
      <4>1. /\ n + g[i - n] \in 1 .. n + k /\ ~(n + g[i - n] <= n)
            /\ (n + g[i - n]) - n = g[i - n]
        BY <1>3, <3>1
      <4> QED BY <1>5, <4>1
    <3> QED BY <3>1, <3>2
  <2> QED BY <2>1, <2>2
<1>10. ASSUME NEW i \in 1 .. n + k, NEW j \in 1 .. n + k, i < j, ~Freely(u[i], u[j])
       PROVE  h[i] < h[j]
  <2>1. CASE j <= n
    <3>1. i <= n
      BY <1>3, <1>10, <2>1
    <3>2. u[i] = b[i] /\ u[j] = b[j] /\ i \in 1 .. n /\ j \in 1 .. n
      BY <1>4, <1>6, <2>1, <3>1
    <3>3. f[i] < f[j]
      BY <1>1, <1>10, <3>2 DEF KeptBy, n
    <3> QED BY <2>1, <3>1, <3>3
  <2>2. CASE i <= n /\ ~(j <= n)
    <3>1. h[i] = f[i] /\ f[i] \in 1 .. n /\ h[j] = n + g[j - n] /\ g[j - n] \in 1 .. k
      BY <1>6, <1>7, <2>2
    <3> QED BY <1>3, <3>1
  <2>3. CASE ~(i <= n)
    <3>1. ~(j <= n)
      BY <1>3, <1>10, <2>3
    <3>2. /\ u[i] = bb[i - n] /\ u[j] = bb[j - n] /\ i - n \in 1 .. k /\ j - n \in 1 .. k
          /\ i - n < j - n
      BY <1>3, <1>4, <1>6, <1>10, <2>3, <3>1
    <3>3. g[i - n] < g[j - n] /\ g[i - n] \in 1 .. k /\ g[j - n] \in 1 .. k
      BY <1>2, <1>7, <1>10, <3>2 DEF KeptBy, k
    <3>4. h[i] = n + g[i - n] /\ h[j] = n + g[j - n]
      BY <2>3, <3>1
    <3> QED BY <1>3, <3>3, <3>4
  <2> QED BY <2>1, <2>2, <2>3
<1> HIDE DEF h
<1>11. KeptBy(h, u, v)
  BY <1>4, <1>5, <1>8, <1>9, <1>10 DEF KeptBy
<1>12. KeptIn(u, v)
  BY <1>4, <1>5, <1>11 DEF KeptIn
<1> QED BY <1>12 DEF u, v

---------------------------------------------------------------------------
(* One message: its texts against the rest of it.                          *)

Unspoken == {p \in RequestParts : p.kind # "text"}
NotTexts == [p \in RequestParts |-> IF p.kind # "text" THEN <<p>> ELSE <<>>]

LEMMA OthersLast ==
  ASSUME NEW s \in Seq(RequestParts), NEW x \in RequestParts
  PROVE  /\ Others(Append(s, x)) = Others(s) \o (IF x.kind # "text" THEN <<x>> ELSE <<>>)
         /\ Others(s) \in Seq(Unspoken)
<1>1. NotTexts \in Maps(RequestParts, Unspoken)
  <2> SUFFICES ASSUME NEW p \in RequestParts
               PROVE  (IF p.kind # "text" THEN <<p>> ELSE <<>>) \in Seq(Unspoken)
    BY DEF NotTexts, Maps
  <2>1. CASE p.kind # "text"
    <3>1. p \in Unspoken
      BY <2>1 DEF Unspoken
    <3> QED BY <2>1, <3>1
  <2>2. CASE p.kind = "text"
    BY <2>2
  <2> QED BY <2>1, <2>2
<1>2. ASSUME NEW t \in Seq(RequestParts) PROVE Others(t) = Mapped(t, NotTexts)
  <2>1. \A i \in DOMAIN t : t[i] \in RequestParts
    BY LenProperties, ElementOfSeq
  <2>2. [i \in DOMAIN t |-> IF t[i].kind # "text" THEN <<t[i]>> ELSE <<>>]
          = [i \in DOMAIN t |-> NotTexts[t[i]]]
    BY <2>1 DEF NotTexts
  <2> QED BY <2>2 DEF Others, Mapped
<1>3. Append(s, x) \in Seq(RequestParts)
  BY AppendProperties
<1>4. Mapped(Append(s, x), NotTexts) = Mapped(s, NotTexts) \o NotTexts[x]
      /\ Mapped(s, NotTexts) \in Seq(Unspoken)
  BY <1>1, MappedLast
<1>5. NotTexts[x] = IF x.kind # "text" THEN <<x>> ELSE <<>>
  BY DEF NotTexts
<1> QED BY <1>2, <1>3, <1>4, <1>5

LEMMA OthersNone == Others(<<>>) = <<>>
BY FlattenNone DEF Others

LEMMA OthersTyped ==
  ASSUME NEW s \in Seq(RequestParts)
  PROVE  Others(s) \in Seq(Unspoken) /\ Others(s) \in Seq(RequestParts) /\ Len(Others(s)) \in Nat
<1>1. Unspoken \subseteq RequestParts
  BY DEF Unspoken
<1>2. Others(s) \in Seq(Unspoken)
  <2>1. CASE s = <<>>
    <3>1. <<>> \in Seq(Unspoken)
      OBVIOUS
    <3> QED BY <2>1, <3>1, OthersNone
  <2>2. CASE s # <<>>
    <3>1. PICK x \in RequestParts : TRUE
      BY <2>2, LastOne
    <3> QED BY <3>1, OthersLast
  <2> QED BY <2>1, <2>2
<1>3. Others(s) \in Seq(RequestParts)
  BY <1>1, <1>2, SeqMonotonic
<1> QED BY <1>2, <1>3, LenProperties

\* g gives each part its place, among the texts t or among the others o.
Places(g, ps, t, o) ==
  /\ Len(t) + Len(o) = Len(ps) /\ g \in [1 .. Len(ps) -> Nat]
  /\ \A i \in 1 .. Len(ps) :
       IF ps[i].kind = "text" THEN g[i] \in 1 .. Len(t) /\ t[g[i]] = ps[i]
       ELSE g[i] \in 1 .. Len(o) /\ o[g[i]] = ps[i]
  /\ \A i, j \in 1 .. Len(ps) : i < j /\ ps[i].kind = ps[j].kind => g[i] < g[j]

\* One part more has its place after the others of its sort.
LEMMA PlacesGrow ==
  ASSUME NEW ps \in Seq(RequestParts), NEW x \in RequestParts, NEW t \in Seq(RequestParts),
         NEW o \in Seq(RequestParts), NEW g, Places(g, ps, t, o)
  PROVE  \E h : IF x.kind = "text" THEN Places(h, Append(ps, x), Append(t, x), o)
                ELSE Places(h, Append(ps, x), t, Append(o, x))
<1> DEFINE n == Len(ps)
           qs == Append(ps, x)
           tt == IF x.kind = "text" THEN Append(t, x) ELSE t
           oo == IF x.kind = "text" THEN o ELSE Append(o, x)
           new == IF x.kind = "text" THEN Len(t) + 1 ELSE Len(o) + 1
           h == [i \in 1 .. n + 1 |-> IF i = n + 1 THEN new ELSE g[i]]
<1>1. /\ n \in Nat /\ Len(qs) = n + 1 /\ qs[n + 1] = x
      /\ \A i \in 1 .. n : qs[i] = ps[i]
  BY Appended
<1>2. /\ Len(t) \in Nat /\ Len(o) \in Nat
  BY LenProperties
<1>3. /\ Len(tt) = IF x.kind = "text" THEN Len(t) + 1 ELSE Len(t)
      /\ \A i \in 1 .. Len(t) : tt[i] = t[i]
      /\ x.kind = "text" => tt[Len(t) + 1] = x
  BY Appended
<1>4. /\ Len(oo) = IF x.kind = "text" THEN Len(o) ELSE Len(o) + 1
      /\ \A i \in 1 .. Len(o) : oo[i] = o[i]
      /\ x.kind # "text" => oo[Len(o) + 1] = x
  BY Appended
<1> HIDE DEF n, qs, tt, oo
<1>5. /\ n = Len(t) + Len(o)
      /\ \A i \in 1 .. n : g[i] \in Nat
      /\ \A i \in 1 .. n : ps[i].kind = "text" => g[i] \in 1 .. Len(t) /\ t[g[i]] = ps[i]
      /\ \A i \in 1 .. n : ps[i].kind # "text" => g[i] \in 1 .. Len(o) /\ o[g[i]] = ps[i]
      /\ \A i, j \in 1 .. n : i < j /\ ps[i].kind = ps[j].kind => g[i] < g[j]
  BY DEF Places, n
<1>6. \A i \in 1 .. n + 1 : i # n + 1 => i \in 1 .. n
  BY <1>1
<1>7. /\ h \in [1 .. n + 1 -> Nat] /\ h[n + 1] = new /\ \A i \in 1 .. n : h[i] = g[i]
  BY <1>1, <1>2, <1>5, <1>6
<1> HIDE DEF h
<1>8. Len(tt) + Len(oo) = n + 1
  BY <1>2, <1>3, <1>4, <1>5
<1>9. ASSUME NEW i \in 1 .. n + 1
      PROVE  IF qs[i].kind = "text" THEN h[i] \in 1 .. Len(tt) /\ tt[h[i]] = qs[i]
             ELSE h[i] \in 1 .. Len(oo) /\ oo[h[i]] = qs[i]
  <2>1. CASE i = n + 1
    BY <1>1, <1>2, <1>3, <1>4, <1>7, <2>1
  <2>2. CASE i # n + 1
    <3>1. i \in 1 .. n /\ qs[i] = ps[i] /\ h[i] = g[i]
      BY <1>1, <1>6, <1>7, <2>2
    <3>2. CASE ps[i].kind = "text"
      <4>1. g[i] \in 1 .. Len(t) /\ t[g[i]] = ps[i]
        BY <1>5, <3>1, <3>2
      <4>2. g[i] \in 1 .. Len(tt) /\ tt[g[i]] = t[g[i]]
        BY <1>2, <1>3, <4>1
      <4> QED BY <3>1, <3>2, <4>1, <4>2
    <3>3. CASE ps[i].kind # "text"
      <4>1. g[i] \in 1 .. Len(o) /\ o[g[i]] = ps[i]
        BY <1>5, <3>1, <3>3
      <4>2. g[i] \in 1 .. Len(oo) /\ oo[g[i]] = o[g[i]]
        BY <1>2, <1>4, <4>1
      <4> QED BY <3>1, <3>3, <4>1, <4>2
    <3> QED BY <3>2, <3>3
  <2> QED BY <2>1, <2>2
<1>10. ASSUME NEW i \in 1 .. n + 1, NEW j \in 1 .. n + 1, i < j, qs[i].kind = qs[j].kind
       PROVE  h[i] < h[j]
  <2>1. i \in 1 .. n /\ qs[i] = ps[i] /\ h[i] = g[i]
    <3>1. i # n + 1
      BY <1>1, <1>10
    <3> QED BY <1>1, <1>6, <1>7, <3>1
  <2>2. CASE j = n + 1
    <3>1. h[j] = new /\ qs[j] = x
      BY <1>1, <1>7, <2>2
    <3>2. CASE x.kind = "text"
      <4>1. g[i] \in 1 .. Len(t) /\ new = Len(t) + 1
        BY <1>5, <1>10, <2>1, <3>1, <3>2
      <4> QED BY <1>2, <2>1, <3>1, <4>1
    <3>3. CASE x.kind # "text"
      <4>1. g[i] \in 1 .. Len(o) /\ new = Len(o) + 1
        BY <1>5, <1>10, <2>1, <3>1, <3>3
      <4> QED BY <1>2, <2>1, <3>1, <4>1
    <3> QED BY <3>2, <3>3
  <2>3. CASE j # n + 1
    <3>1. j \in 1 .. n /\ qs[j] = ps[j] /\ h[j] = g[j]
      BY <1>1, <1>6, <1>7, <2>3
    <3>2. g[i] < g[j]
      BY <1>5, <1>10, <2>1, <3>1
    <3> QED BY <2>1, <3>1, <3>2
  <2> QED BY <2>2, <2>3
<1>11. Places(h, qs, tt, oo)
  BY <1>1, <1>7, <1>8, <1>9, <1>10 DEF Places
<1> QED BY <1>11 DEF qs, tt, oo

LEMMA EachHasAPlace ==
  ASSUME NEW ps \in Seq(RequestParts)
  PROVE  \E g : Places(g, ps, OfKind(ps, "text"), Others(ps))
<1> DEFINE P == {s \in Seq(RequestParts) : \E g : Places(g, s, OfKind(s, "text"), Others(s))}
<1>1. <<>> \in P
  <2> DEFINE none == <<>>
  <2>1. none \in Seq(RequestParts) /\ Len(none) = 0
    OBVIOUS
  <2>2. OfKind(none, "text") = none /\ Others(none) = none
    BY KindNothing, OthersNone
  <2> HIDE DEF none
  <2>3. Places([i \in 1 .. 0 |-> 0], none, none, none)
    BY <2>1 DEF Places
  <2>4. none \in P
    BY <2>1, <2>2, <2>3
  <2> QED BY <2>4 DEF none
<1>2. ASSUME NEW s \in Seq(RequestParts), NEW x \in RequestParts, s \in P
      PROVE  Append(s, x) \in P
  <2> DEFINE t == OfKind(s, "text")
             o == Others(s)
             q == Append(s, x)
  <2>1. PICK g : Places(g, s, t, o)
    BY <1>2
  <2>2. t \in Seq(RequestParts) /\ o \in Seq(RequestParts) /\ q \in Seq(RequestParts)
    BY KindTyped, OthersTyped, AppendProperties
  <2>3. OfKind(q, "text") = t \o (IF x.kind = "text" THEN <<x>> ELSE <<>>)
    BY KindLast
  <2>4. Others(q) = o \o (IF x.kind # "text" THEN <<x>> ELSE <<>>)
    BY OthersLast
  <2> HIDE DEF t, o
  <2>5. /\ t \o <<x>> = Append(t, x) /\ o \o <<x>> = Append(o, x)
        /\ t \o <<>> = t /\ o \o <<>> = o
    BY <2>2, AppendIsConcat, ConcatEmptySeq
  <2>6. \E h : Places(h, q, OfKind(q, "text"), Others(q))
    <3>1. PICK h : IF x.kind = "text" THEN Places(h, Append(s, x), Append(t, x), o)
                   ELSE Places(h, Append(s, x), t, Append(o, x))
      BY <2>1, <2>2, PlacesGrow
    <3>2. CASE x.kind = "text"
      <4>1. OfKind(q, "text") = Append(t, x) /\ Others(q) = o
        BY <2>3, <2>4, <2>5, <3>2
      <4> QED BY <3>1, <3>2, <4>1
    <3>3. CASE x.kind # "text"
      <4>1. OfKind(q, "text") = t /\ Others(q) = Append(o, x)
        BY <2>3, <2>4, <2>5, <3>3
      <4> QED BY <3>1, <3>3, <4>1
    <3> QED BY <3>2, <3>3
  <2> HIDE DEF q
  <2>7. q \in P
    BY <2>2, <2>6
  <2> QED BY <2>7 DEF q
<1> HIDE DEF P
<1>3. ps \in P
  BY <1>1, <1>2, SeqInduction
<1> QED BY <1>3 DEF P

\* What message k of a conversation says.
Saying(p, role, k) == [part |-> p, message |-> k, by |-> By(p, role)]
Sayings(ps, role, k) == [j \in DOMAIN ps |-> Saying(ps[j], role, k)]
Statements == {Saying(p, role, k) : p \in RequestParts, role \in Roles, k \in Nat}

LEMMA SayingsTyped ==
  ASSUME NEW ps \in Seq(RequestParts), NEW role \in Roles, NEW k \in Nat
  PROVE  /\ Sayings(ps, role, k) \in Seq(Statements) /\ Len(Sayings(ps, role, k)) = Len(ps)
         /\ \A j \in 1 .. Len(ps) : Sayings(ps, role, k)[j] = Saying(ps[j], role, k)
<1>1. Len(ps) \in Nat /\ DOMAIN ps = 1 .. Len(ps) /\ \A j \in 1 .. Len(ps) : ps[j] \in RequestParts
  BY LenProperties, ElementOfSeq
<1>2. Sayings(ps, role, k) \in [1 .. Len(ps) -> Statements]
  BY <1>1 DEF Sayings, Statements
<1>3. Sayings(ps, role, k) \in Seq(Statements)
  BY <1>1, <1>2, SeqDef
<1>4. DOMAIN Sayings(ps, role, k) = 1 .. Len(ps)
  BY <1>2
<1> QED BY <1>1, <1>3, <1>4, LenProperties DEF Sayings

\* The parts of a message in another order, those of a kind in theirs.
Shuffles(f, ps, qs) ==
  /\ Len(qs) = Len(ps) /\ f \in [1 .. Len(ps) -> 1 .. Len(ps)]
  /\ \A i \in 1 .. Len(ps) : qs[f[i]] = ps[i]
  /\ \A i, j \in 1 .. Len(ps) : i < j /\ ps[i].kind = ps[j].kind => f[i] < f[j]

LEMMA ShuffledIsKept ==
  ASSUME NEW ps \in Seq(RequestParts), NEW qs \in Seq(RequestParts), NEW role \in Roles,
         NEW k \in Nat, NEW f, Shuffles(f, ps, qs)
  PROVE  KeptIn(Sayings(ps, role, k), WordsOf(qs, role))
<1> DEFINE b == Sayings(ps, role, k)
           a == WordsOf(qs, role)
<1>1. Len(b) = Len(ps) /\ \A j \in 1 .. Len(ps) : b[j] = Saying(ps[j], role, k)
  BY SayingsTyped
<1>2. Len(a) = Len(qs) /\ \A j \in 1 .. Len(qs) : a[j] = Word(qs[j], role)
  BY WordsTyped
<1> HIDE DEF a, b
<1>3. /\ Len(qs) = Len(ps) /\ f \in [1 .. Len(ps) -> 1 .. Len(ps)]
      /\ \A i \in 1 .. Len(ps) : f[i] \in 1 .. Len(ps) /\ qs[f[i]] = ps[i]
      /\ \A i, j \in 1 .. Len(ps) : i < j /\ ps[i].kind = ps[j].kind => f[i] < f[j]
  BY DEF Shuffles
<1>4. ASSUME NEW i \in 1 .. Len(b) PROVE Fits(b[i], a[f[i]])
  <2>1. b[i] = Saying(ps[i], role, k) /\ a[f[i]] = Word(ps[i], role)
    BY <1>1, <1>2, <1>3
  <2> QED BY <2>1 DEF Fits, Saying, Word
<1>5. ASSUME NEW i \in 1 .. Len(b), NEW j \in 1 .. Len(b), i < j, ~Freely(b[i], b[j])
      PROVE  f[i] < f[j]
  <2>1. b[i] = Saying(ps[i], role, k) /\ b[j] = Saying(ps[j], role, k)
    BY <1>1
  <2>2. ps[i].kind = ps[j].kind
    BY <1>5, <2>1 DEF Freely, Saying
  <2> QED BY <1>1, <1>3, <1>5, <2>2
<1>6. KeptBy(f, b, a)
  BY <1>1, <1>2, <1>3, <1>4, <1>5 DEF KeptBy
<1> QED BY <1>1, <1>2, <1>3, <1>6 DEF KeptIn, a, b

\* The texts before or after the rest.
LEMMA TextsAside ==
  ASSUME NEW ps \in Seq(RequestParts)
  PROVE  LET t == OfKind(ps, "text")
             o == Others(ps)
         IN  /\ \E f : Shuffles(f, ps, t \o o)
             /\ \E f : Shuffles(f, ps, o \o t)
<1> DEFINE t == OfKind(ps, "text")
           o == Others(ps)
           n == Len(ps)
<1>1. PICK g : Places(g, ps, t, o)
  BY EachHasAPlace
<1>2. t \in Seq(RequestParts) /\ o \in Seq(RequestParts)
  BY KindTyped, OthersTyped
<1> HIDE DEF t, o
<1>3. Len(t) \in Nat /\ Len(o) \in Nat /\ n \in Nat
  BY <1>2, LenProperties
<1> DEFINE to == t \o o
           ot == o \o t
<1>4. /\ Len(to) = Len(t) + Len(o)
      /\ \A i \in 1 .. Len(t) + Len(o) : to[i] = IF i <= Len(t) THEN t[i] ELSE o[i - Len(t)]
  BY <1>2, ConcatProperties
<1>5. /\ Len(ot) = Len(o) + Len(t)
      /\ \A i \in 1 .. Len(o) + Len(t) : ot[i] = IF i <= Len(o) THEN o[i] ELSE t[i - Len(o)]
  BY <1>2, ConcatProperties
<1> HIDE DEF to, ot, n
<1>6. /\ n = Len(t) + Len(o)
      /\ \A i \in 1 .. n : g[i] \in Nat
      /\ \A i \in 1 .. n : ps[i].kind = "text" => g[i] \in 1 .. Len(t) /\ t[g[i]] = ps[i]
      /\ \A i \in 1 .. n : ps[i].kind # "text" => g[i] \in 1 .. Len(o) /\ o[g[i]] = ps[i]
      /\ \A i, j \in 1 .. n : i < j /\ ps[i].kind = ps[j].kind => g[i] < g[j]
  BY <1>1 DEF Places, n
<1>7. \E f : Shuffles(f, ps, to)
  <2> DEFINE f == [i \in 1 .. n |-> IF ps[i].kind = "text" THEN g[i] ELSE Len(t) + g[i]]
  <2>1. ASSUME NEW i \in 1 .. n PROVE f[i] \in 1 .. n /\ to[f[i]] = ps[i]
    <3>1. CASE ps[i].kind = "text"
      <4>1. f[i] = g[i] /\ g[i] \in 1 .. Len(t) /\ t[g[i]] = ps[i]
        BY <1>6, <3>1
      <4> HIDE DEF f
      <4> QED BY <1>3, <1>4, <1>6, <4>1
    <3>2. CASE ps[i].kind # "text"
      <4>1. f[i] = Len(t) + g[i] /\ g[i] \in 1 .. Len(o) /\ o[g[i]] = ps[i]
        BY <1>6, <3>2
      <4>2. f[i] \in 1 .. n /\ ~(f[i] <= Len(t)) /\ f[i] - Len(t) = g[i]
        <5> HIDE DEF f
        <5> QED BY <1>3, <1>6, <4>1
      <4> HIDE DEF f
      <4> QED BY <1>3, <1>4, <1>6, <4>1, <4>2
    <3> QED BY <3>1, <3>2
  <2>2. ASSUME NEW i \in 1 .. n, NEW j \in 1 .. n, i < j, ps[i].kind = ps[j].kind
        PROVE  f[i] < f[j]
    <3>1. g[i] < g[j] /\ g[i] \in Nat /\ g[j] \in Nat
      BY <1>6, <2>2
    <3> QED BY <1>3, <2>2, <3>1
  <2>3. f \in [1 .. n -> 1 .. n]
    BY <2>1
  <2> HIDE DEF f
  <2>4. Len(to) = n
    BY <1>3, <1>4, <1>6
  <2>5. Shuffles(f, ps, to)
    BY <2>1, <2>2, <2>3, <2>4 DEF Shuffles, n
  <2> QED BY <2>5
<1>8. \E f : Shuffles(f, ps, ot)
  <2> DEFINE f == [i \in 1 .. n |-> IF ps[i].kind = "text" THEN Len(o) + g[i] ELSE g[i]]
  <2>1. ASSUME NEW i \in 1 .. n PROVE f[i] \in 1 .. n /\ ot[f[i]] = ps[i]
    <3>1. CASE ps[i].kind # "text"
      <4>1. f[i] = g[i] /\ g[i] \in 1 .. Len(o) /\ o[g[i]] = ps[i]
        BY <1>6, <3>1
      <4> HIDE DEF f
      <4> QED BY <1>3, <1>5, <1>6, <4>1
    <3>2. CASE ps[i].kind = "text"
      <4>1. f[i] = Len(o) + g[i] /\ g[i] \in 1 .. Len(t) /\ t[g[i]] = ps[i]
        BY <1>6, <3>2
      <4>2. f[i] \in 1 .. n /\ ~(f[i] <= Len(o)) /\ f[i] - Len(o) = g[i]
        <5> HIDE DEF f
        <5> QED BY <1>3, <1>6, <4>1
      <4> HIDE DEF f
      <4> QED BY <1>3, <1>5, <1>6, <4>1, <4>2
    <3> QED BY <3>1, <3>2
  <2>2. ASSUME NEW i \in 1 .. n, NEW j \in 1 .. n, i < j, ps[i].kind = ps[j].kind
        PROVE  f[i] < f[j]
    <3>1. g[i] < g[j] /\ g[i] \in Nat /\ g[j] \in Nat
      BY <1>6, <2>2
    <3> QED BY <1>3, <2>2, <3>1
  <2>3. f \in [1 .. n -> 1 .. n]
    BY <2>1
  <2> HIDE DEF f
  <2>4. Len(ot) = n
    BY <1>3, <1>5, <1>6
  <2>5. Shuffles(f, ps, ot)
    BY <2>1, <2>2, <2>3, <2>4 DEF Shuffles, n
  <2> QED BY <2>5
<1> QED BY <1>7, <1>8 DEF t, o, to, ot

---------------------------------------------------------------------------
(* A conversation, message by message.                                     *)

LEMMA SaidNone == Said(<<>>) = <<>>
<1> QED BY FlattenNone DEF Said

LEMMA SaidLast ==
  ASSUME NEW c \in Seq(RequestMessages), NEW m \in RequestMessages
  PROVE  /\ Said(Append(c, m)) = Said(c) \o Sayings(m.parts, m.role, Len(c) + 1)
         /\ Said(c) \in Seq(Statements)
<1> DEFINE n == Len(c)
           d == Append(c, m)
           ss == [i \in DOMAIN c |-> Sayings(c[i].parts, c[i].role, i)]
           tt == [i \in DOMAIN d |-> Sayings(d[i].parts, d[i].role, i)]
<1>1. /\ n \in Nat /\ DOMAIN c = 1 .. n /\ DOMAIN d = 1 .. n + 1 /\ n + 1 \in 1 .. n + 1
      /\ \A i \in 1 .. n : d[i] = c[i] /\ i \in 1 .. n + 1
      /\ d[n + 1] = m
  BY Appended
<1>2. \A i \in 1 .. n : c[i] \in RequestMessages
  BY <1>1, ElementOfSeq
<1>3. \A i \in 1 .. n + 1 : d[i] \in RequestMessages
  <2>1. \A i \in 1 .. n + 1 : i \in 1 .. n \/ i = n + 1
    BY <1>1
  <2> HIDE DEF d, n
  <2> QED BY <1>1, <1>2, <2>1
<1> HIDE DEF n, d
<1>4. \A x \in RequestMessages : \A i \in Nat : Sayings(x.parts, x.role, i) \in Seq(Statements)
  <2> SUFFICES ASSUME NEW x \in RequestMessages, NEW i \in Nat
               PROVE  Sayings(x.parts, x.role, i) \in Seq(Statements)
    OBVIOUS
  <2>1. x.parts \in Seq(RequestParts) /\ x.role \in Roles
    BY DEF RequestMessages, Roles
  <2> QED BY <2>1, SayingsTyped
<1>5. ss \in [1 .. n -> Seq(Statements)] /\ tt \in [1 .. n + 1 -> Seq(Statements)]
  <2>1. 1 .. n \subseteq Nat /\ 1 .. n + 1 \subseteq Nat
    BY <1>1
  <2> QED BY <1>1, <1>2, <1>3, <1>4, <2>1
<1>6. AlikeTo(ss, tt, n) /\ tt[n + 1] = Sayings(m.parts, m.role, n + 1)
  BY <1>1 DEF AlikeTo
<1>7. Said(c) = FlattenSeq(ss) /\ Said(d) = FlattenSeq(tt)
  BY DEF Said, Sayings, Saying, By
<1> HIDE DEF ss, tt
<1>8. FlattenSeq(tt) = FlattenSeq(ss) \o tt[n + 1] /\ FlattenSeq(ss) \in Seq(Statements)
  BY <1>1, <1>5, <1>6, FlattenGrows
<1> QED BY <1>6, <1>7, <1>8 DEF n, d

\* What is said is what is heard.
Alike(s, h) == Len(s) = Len(h) /\ \A j \in 1 .. Len(h) : Fits(s[j], h[j])

LEMMA SaidIsHeard ==
  ASSUME NEW c \in Seq(RequestMessages)
  PROVE  Alike(Said(c), HeardIn(c)) /\ Said(c) \in Seq(Statements)
<1> DEFINE P == {d \in Seq(RequestMessages) : Alike(Said(d), HeardIn(d)) /\ Said(d) \in Seq(Statements)}
<1>1. <<>> \in P
  <2> DEFINE none == <<>>
  <2>1. none \in Seq(RequestMessages) /\ none \in Seq(Statements) /\ Len(none) = 0
    OBVIOUS
  <2>2. Said(none) = none /\ HeardIn(none) = none
    BY SaidNone, MappedNone DEF HeardIn
  <2> HIDE DEF none
  <2>3. Alike(none, none)
    BY <2>1 DEF Alike
  <2>4. none \in P
    BY <2>1, <2>2, <2>3
  <2> QED BY <2>4 DEF none
<1>2. ASSUME NEW d \in Seq(RequestMessages), NEW m \in RequestMessages, d \in P
      PROVE  Append(d, m) \in P
  <2> DEFINE k == Len(d) + 1
             s == Said(d)
             h == HeardIn(d)
             x == Sayings(m.parts, m.role, k)
             w == WordsOf(m.parts, m.role)
             n == Len(h)
             ss == s \o x
             hh == h \o w
  <2>1. k \in Nat
    BY LenProperties
  <2>2. /\ h \in Seq(Vocabulary) /\ w \in Seq(Vocabulary)
        /\ m.parts \in Seq(RequestParts) /\ m.role \in Roles
    BY HeardLast
  <2>3. Said(Append(d, m)) = ss /\ HeardIn(Append(d, m)) = hh /\ s \in Seq(Statements)
    BY HeardLast, SaidLast
  <2>4. Len(s) = n /\ \A j \in 1 .. n : Fits(s[j], h[j])
    BY <1>2 DEF Alike
  <2> HIDE DEF k, s, h
  <2>5. /\ x \in Seq(Statements) /\ Len(x) = Len(m.parts)
        /\ \A j \in 1 .. Len(m.parts) : x[j] = Saying(m.parts[j], m.role, k)
    BY <2>1, <2>2, SayingsTyped
  <2>6. /\ Len(w) = Len(m.parts) /\ \A j \in 1 .. Len(m.parts) : w[j] = Word(m.parts[j], m.role)
    BY <2>2, WordsTyped
  <2>7. \A j \in 1 .. Len(w) : Fits(x[j], w[j])
    <3> SUFFICES ASSUME NEW j \in 1 .. Len(w) PROVE Fits(x[j], w[j])
      OBVIOUS
    <3>1. x[j] = Saying(m.parts[j], m.role, k) /\ w[j] = Word(m.parts[j], m.role)
      BY <2>5, <2>6
    <3> QED BY <3>1 DEF Fits, Saying, Word
  <2>7a. Len(x) = Len(w)
    BY <2>5, <2>6
  <2>7b. x \in Seq(Statements)
    BY <2>5
  <2> HIDE DEF x, w
  <2>8. n \in Nat /\ Len(w) \in Nat
    BY <2>2, LenProperties
  <2>9. /\ ss \in Seq(Statements) /\ Len(ss) = Len(s) + Len(x)
        /\ \A i \in 1 .. Len(s) + Len(x) : ss[i] = IF i <= Len(s) THEN s[i] ELSE x[i - Len(s)]
    BY <2>3, <2>7b, ConcatProperties
  <2>10. /\ Len(hh) = n + Len(w)
         /\ \A i \in 1 .. n + Len(w) : hh[i] = IF i <= n THEN h[i] ELSE w[i - n]
    BY <2>2, ConcatProperties
  <2> HIDE DEF ss, hh, n
  <2>11. Len(ss) = Len(hh) /\ Len(hh) = n + Len(w)
    BY <2>4, <2>7a, <2>9, <2>10
  <2>12. \A i \in 1 .. Len(hh) : Fits(ss[i], hh[i])
    <3> SUFFICES ASSUME NEW i \in 1 .. n + Len(w) PROVE Fits(ss[i], hh[i])
      BY <2>11
    <3>1. CASE i <= n
      <4>1. ss[i] = s[i] /\ hh[i] = h[i] /\ i \in 1 .. n
        BY <2>4, <2>7a, <2>8, <2>9, <2>10, <3>1
      <4> QED BY <2>4, <4>1
    <3>2. CASE ~(i <= n)
      <4>1. ss[i] = x[i - n] /\ hh[i] = w[i - n] /\ i - n \in 1 .. Len(w)
        BY <2>4, <2>7a, <2>8, <2>9, <2>10, <3>2
      <4> QED BY <2>7, <4>1
    <3> QED BY <3>1, <3>2
  <2>13. Alike(ss, hh)
    BY <2>11, <2>12 DEF Alike
  <2>14. Append(d, m) \in Seq(RequestMessages)
    BY AppendProperties
  <2> QED BY <2>3, <2>9, <2>13, <2>14
<1> HIDE DEF P
<1>3. c \in P
  BY <1>1, <1>2, SeqInduction
<1> QED BY <1>3 DEF P

---------------------------------------------------------------------------
(* Messages and Chat to Responses.                                         *)

ItemsFor(o) == [j \in DOMAIN o |-> Item(o[j])]

LEMMA ItemIs ==
  ASSUME NEW p \in Unspoken, NEW role \in Roles
  PROVE  /\ Item(p) \in ItemMessages /\ Item(p).parts = <<p>>
         /\ WordsOf(<<p>>, Item(p).role) = WordsOf(<<p>>, role)
<1>1. p \in RequestParts /\ p.kind # "text"
  BY DEF Unspoken
<1>1a. \A r : WordsOf(<<p>>, r) = WordsOf(<<p>>, role)
  <2>1. \A r : By(p, r) = By(p, role)
    BY <1>1, Zenon DEF By
  <2>2. \A r : Word(p, r) = Word(p, role)
    BY <2>1 DEF Word
  <2>3. \A j \in DOMAIN <<p>> : <<p>>[j] = p
    OBVIOUS
  <2> DEFINE x == <<p>>
  <2> HIDE DEF x
  <2>4. \A j \in DOMAIN x : x[j] = p
    BY <2>3 DEF x
  <2>5. \A r : WordsOf(x, r) = WordsOf(x, role)
    BY <2>2, <2>4 DEF WordsOf
  <2> QED BY <2>5 DEF x
<1>2. CASE p.kind = "call"
  <2>1. Item(p) = Message("assistant", <<p>>)
    BY <1>2 DEF Item
  <2>2. Message("assistant", <<p>>) \in ItemMessages
    BY <1>1, SaidBy
  <2> QED BY <1>1a, <2>1, <2>2 DEF Message
<1>3. CASE p.kind # "call"
  <2>1. Item(p) = Message("tool", <<p>>)
    BY <1>3 DEF Item
  <2>2. Message("tool", <<p>>) \in ItemMessages
    BY <1>1, SaidBy
  <2> QED BY <1>1a, <2>1, <2>2 DEF Message
<1> QED BY <1>2, <1>3

\* The calls and results, an item each.
LEMMA ItemsHeard ==
  ASSUME NEW o \in Seq(Unspoken), NEW role \in Roles
  PROVE  ItemsFor(o) \in Seq(ItemMessages) /\ HeardIn(ItemsFor(o)) = WordsOf(o, role)
<1> DEFINE P == {s \in Seq(Unspoken) :
                   ItemsFor(s) \in Seq(ItemMessages) /\ HeardIn(ItemsFor(s)) = WordsOf(s, role)}
<1>1. <<>> \in P
  <2> DEFINE none == <<>>
  <2>1. none \in Seq(Unspoken) /\ none \in Seq(ItemMessages)
    OBVIOUS
  <2>2. ItemsFor(none) = none /\ WordsOf(none, role) = none
    BY DEF ItemsFor, WordsOf
  <2>3. HeardIn(none) = none
    BY MappedNone DEF HeardIn
  <2> HIDE DEF none
  <2>4. none \in P
    BY <2>1, <2>2, <2>3
  <2> QED BY <2>4 DEF none
<1>2. ASSUME NEW s \in Seq(Unspoken), NEW p \in Unspoken, s \in P PROVE Append(s, p) \in P
  <2> DEFINE q == Append(s, p)
             c == ItemsFor(s)
             m == Item(p)
             n == Len(s)
  <2>1. /\ q \in Seq(Unspoken) /\ DOMAIN q = 1 .. n + 1 /\ DOMAIN s = 1 .. n /\ n \in Nat
        /\ \A i \in 1 .. n : q[i] = s[i]
        /\ q[n + 1] = p
    BY Appended
  <2>2. /\ m \in ItemMessages /\ m.parts = <<p>>
        /\ WordsOf(<<p>>, m.role) = WordsOf(<<p>>, role)
    BY ItemIs
  <2>3. c \in Seq(ItemMessages) /\ HeardIn(c) = WordsOf(s, role) /\ DOMAIN c = 1 .. n
    BY <1>2, <2>1 DEF ItemsFor
  <2>3a. \A i \in 1 .. n : c[i] = Item(s[i])
    BY <2>1 DEF ItemsFor
  <2>4. Len(c) = n
    <3> HIDE DEF c, n
    <3> QED BY <2>1, <2>3, LenProperties
  <2> HIDE DEF q, c, n
  <2>5. ItemsFor(q) = Append(c, m)
    <3> DEFINE d == Append(c, m)
    <3>1. /\ d \in Seq(ItemMessages) /\ Len(d) = n + 1 /\ DOMAIN d = 1 .. n + 1
          /\ \A i \in 1 .. n : d[i] = c[i]
          /\ d[n + 1] = m
      <4> HIDE DEF m
      <4> QED BY <2>2, <2>3, <2>4, Appended
    <3> HIDE DEF d
    <3>2. d = [i \in 1 .. n + 1 |-> d[i]]
      BY <3>1, IsASeq
    <3>3. \A i \in 1 .. n + 1 : d[i] = Item(q[i])
      <4>1. \A i \in 1 .. n + 1 : i \in 1 .. n \/ i = n + 1
        BY <2>1
      <4> QED BY <2>1, <2>3a, <3>1, <4>1
    <3>4. ItemsFor(q) = [i \in 1 .. n + 1 |-> Item(q[i])]
      BY <2>1 DEF ItemsFor
    <3>5. d = [i \in 1 .. n + 1 |-> Item(q[i])]
      BY <3>2, <3>3
    <3>6. ItemsFor(q) = d
      BY <3>4, <3>5
    <3> QED BY <3>6 DEF d
  <2> HIDE DEF m
  <2>6. Append(c, m) \in Seq(ItemMessages)
    BY <2>2, <2>3, AppendProperties
  <2>7. HeardIn(Append(c, m)) = HeardIn(c) \o WordsOf(m.parts, m.role)
    <3>1. ItemMessages \subseteq RequestMessages
      BY DEF ItemMessages, SpokenMessages
    <3>2. c \in Seq(RequestMessages) /\ m \in RequestMessages
      BY <2>2, <2>3, <3>1, SeqMonotonic
    <3> QED BY <3>2, HeardLast
  <2>8. WordsOf(q, role) = WordsOf(s, role) \o WordsOf(<<p>>, role)
    <3>1. Unspoken \subseteq RequestParts
      BY DEF Unspoken
    <3>2. s \in Seq(RequestParts) /\ <<p>> \in Seq(RequestParts) /\ p \in RequestParts
      BY <3>1, SeqMonotonic
    <3>3. q = s \o <<p>>
      BY <3>2, AppendIsConcat DEF q
    <3> DEFINE x == <<p>>
    <3> HIDE DEF x
    <3>4. WordsOf(s \o x, role) = WordsOf(s, role) \o WordsOf(x, role)
      BY <3>2, WordsJoined DEF x
    <3> QED BY <3>3, <3>4 DEF x
  <2> QED BY <2>1, <2>2, <2>3, <2>5, <2>6, <2>7, <2>8 DEF q
<1> HIDE DEF P
<1>3. o \in P
  BY <1>1, <1>2, SeqInduction
<1> QED BY <1>3 DEF P

\* The texts, in one item if there are any.
LEMMA TextItemHeard ==
  ASSUME NEW m \in SpokenMessages
  PROVE  /\ TextItem(m) \in Seq(ItemMessages)
         /\ HeardIn(TextItem(m)) = WordsOf(OfKind(m.parts, "text"), m.role)
<1> DEFINE t == OfKind(m.parts, "text")
<1>1. m.parts \in Seq(RequestParts) /\ m.role \in Roles
  BY DEF SpokenMessages, RequestMessages, Roles
<1>2. t \in Seq({p \in RequestParts : p.kind = "text"})
  BY <1>1, KindOnly
<1>3. t \in Seq(RequestParts)
  BY <1>1, KindTyped
<1>4. CASE t = <<>>
  <2> DEFINE none == <<>>
  <2>1. TextItem(m) = none
    BY <1>4 DEF TextItem
  <2>2. HeardIn(none) = none /\ WordsOf(none, m.role) = none /\ none \in Seq(ItemMessages)
    BY MappedNone DEF HeardIn, WordsOf
  <2>3. t = none
    BY <1>4
  <2> HIDE DEF none, t
  <2>4. HeardIn(TextItem(m)) = WordsOf(t, m.role)
    BY <2>1, <2>2, <2>3
  <2> QED BY <2>1, <2>2, <2>4 DEF t
<1>5. CASE t # <<>>
  <2> DEFINE d == Message(m.role, t)
  <2>1. TextItem(m) = <<d>>
    BY <1>5 DEF TextItem
  <2>2. m.role # "tool"
    <3>1. ASSUME m.role = "tool" PROVE FALSE
      <4>1. \A i \in DOMAIN m.parts : m.parts[i] \in Unspoken
        <5>1. \A i \in DOMAIN m.parts : m.parts[i] \in RequestParts
          BY <1>1, LenProperties, ElementOfSeq
        <5> QED BY <3>1, <5>1 DEF SpokenMessages, Unspoken
      <4>2. m.parts \in Seq(Unspoken)
        <5>1. DOMAIN m.parts = 1 .. Len(m.parts) /\ Len(m.parts) \in Nat
          BY <1>1, LenProperties
        <5>2. m.parts = [i \in 1 .. Len(m.parts) |-> m.parts[i]]
          BY <1>1, IsASeq
        <5> DEFINE ps == m.parts
                   n == Len(m.parts)
        <5> HIDE DEF ps, n
        <5>3. n \in Nat /\ ps = [i \in 1 .. n |-> ps[i]] /\ \A i \in 1 .. n : ps[i] \in Unspoken
          BY <4>1, <5>1, <5>2 DEF ps, n
        <5>4. ps \in Seq(Unspoken)
          BY <5>3, IsASeq
        <5> QED BY <5>4 DEF ps
      <4>3. \A p \in Unspoken : p.kind # "text"
        BY DEF Unspoken
      <4>4. t = <<>>
        BY <4>2, <4>3, KindNone
      <4> QED BY <1>5, <4>4
    <3> QED BY <3>1
  <2>3. /\ Len(t) \in Nat /\ DOMAIN t = 1 .. Len(t)
        /\ \A i \in 1 .. Len(t) : t[i] \in {p \in RequestParts : p.kind = "text"}
        /\ Len(t) # 0
    <3> HIDE DEF t
    <3> QED BY <1>2, <1>5, LenProperties, ElementOfSeq, EmptySeq
  <2>4. \A i \in DOMAIN t : t[i].kind = "text" /\ Phase(t[i]) = Phase(t[1])
    <3>1. \A i \in 1 .. Len(t) : t[i].kind = "text" /\ 1 \in 1 .. Len(t)
      <4> HIDE DEF t
      <4> QED BY <2>3
    <3> HIDE DEF t
    <3> QED BY <2>3, <3>1 DEF Phase
  <2> HIDE DEF t
  <2>5. d \in RequestMessages /\ d.parts = t /\ d.role = m.role
    BY <1>1, <1>3 DEF Message, RequestMessages, Roles
  <2> HIDE DEF d
  <2>6. d \in ItemMessages
    BY <1>5, <2>2, <2>4, <2>5 DEF SpokenMessages, ItemMessages
  <2>7. HeardIn(<<d>>) = WordsOf(d.parts, d.role)
    BY <2>5, HeardOne
  <2>8. HeardIn(TextItem(m)) = WordsOf(t, m.role)
    BY <2>1, <2>5, <2>7
  <2> QED BY <2>1, <2>6, <2>8 DEF t
<1> QED BY <1>4, <1>5

TextsLast == [m \in SpokenMessages |-> OtherItemsOf(m) \o TextItem(m)]
TextsBefore == [m \in SpokenMessages |-> TextItem(m) \o OtherItemsOf(m)]

\* One message in items, its texts after or before the rest.
LEMMA BlockIs ==
  ASSUME NEW m \in SpokenMessages
  PROVE  /\ TextsLast[m] \in Seq(ItemMessages) /\ TextsBefore[m] \in Seq(ItemMessages)
         /\ \A k \in Nat : KeptIn(Sayings(m.parts, m.role, k), HeardIn(TextsLast[m]))
         /\ \A k \in Nat : KeptIn(Sayings(m.parts, m.role, k), HeardIn(TextsBefore[m]))
<1> DEFINE t == OfKind(m.parts, "text")
           o == Others(m.parts)
           c == OtherItemsOf(m)
           d == TextItem(m)
<1>1. m.parts \in Seq(RequestParts) /\ m.role \in Roles
  BY DEF SpokenMessages, RequestMessages, Roles
<1>2. t \in Seq(RequestParts) /\ o \in Seq(Unspoken) /\ o \in Seq(RequestParts)
  BY <1>1, KindTyped, OthersTyped
<1>3. c = ItemsFor(o)
  BY DEF OtherItemsOf, ItemsFor
<1>4. TextsLast[m] = c \o d /\ TextsBefore[m] = d \o c
  BY DEF TextsLast, TextsBefore
<1>5. d \in Seq(ItemMessages) /\ HeardIn(d) = WordsOf(t, m.role)
  BY TextItemHeard
<1>6. (\E f : Shuffles(f, m.parts, t \o o)) /\ \E f : Shuffles(f, m.parts, o \o t)
  BY <1>1, TextsAside
<1> HIDE DEF t, o, c, d
<1>7. c \in Seq(ItemMessages) /\ HeardIn(c) = WordsOf(o, m.role)
  BY <1>1, <1>2, <1>3, ItemsHeard
<1>8. c \o d \in Seq(ItemMessages) /\ d \o c \in Seq(ItemMessages)
  BY <1>5, <1>7, ConcatProperties
<1>9. c \in Seq(RequestMessages) /\ d \in Seq(RequestMessages)
  <2>1. ItemMessages \subseteq RequestMessages
    BY DEF ItemMessages, SpokenMessages
  <2> QED BY <1>5, <1>7, <2>1, SeqMonotonic
<1>10. HeardIn(c \o d) = WordsOf(o \o t, m.role)
  <2>1. HeardIn(c \o d) = HeardIn(c) \o HeardIn(d)
    BY <1>9, HeardJoined
  <2>2. WordsOf(o \o t, m.role) = WordsOf(o, m.role) \o WordsOf(t, m.role)
    BY <1>1, <1>2, WordsJoined
  <2> QED BY <1>5, <1>7, <2>1, <2>2
<1>11. HeardIn(d \o c) = WordsOf(t \o o, m.role)
  <2>1. HeardIn(d \o c) = HeardIn(d) \o HeardIn(c)
    BY <1>9, HeardJoined
  <2>2. WordsOf(t \o o, m.role) = WordsOf(t, m.role) \o WordsOf(o, m.role)
    BY <1>1, <1>2, WordsJoined
  <2> QED BY <1>5, <1>7, <2>1, <2>2
<1>12. ASSUME NEW k \in Nat
       PROVE  /\ KeptIn(Sayings(m.parts, m.role, k), WordsOf(o \o t, m.role))
              /\ KeptIn(Sayings(m.parts, m.role, k), WordsOf(t \o o, m.role))
  <2> DEFINE to == t \o o
             ot == o \o t
  <2>1. to \in Seq(RequestParts) /\ ot \in Seq(RequestParts)
    BY <1>2, ConcatProperties
  <2>2. PICK f : Shuffles(f, m.parts, to)
    BY <1>6
  <2>3. PICK g : Shuffles(g, m.parts, ot)
    BY <1>6
  <2> HIDE DEF to, ot
  <2>4. KeptIn(Sayings(m.parts, m.role, k), WordsOf(to, m.role))
    BY <1>1, <2>1, <2>2, ShuffledIsKept
  <2>5. KeptIn(Sayings(m.parts, m.role, k), WordsOf(ot, m.role))
    BY <1>1, <2>1, <2>3, ShuffledIsKept
  <2> QED BY <2>4, <2>5 DEF to, ot
<1> QED BY <1>4, <1>8, <1>10, <1>11, <1>12

\* What is kept of each message is kept of the conversation.
LEMMA BlocksKept ==
  ASSUME NEW G \in Maps(SpokenMessages, ItemMessages),
         \A m \in SpokenMessages : \A k \in Nat : KeptIn(Sayings(m.parts, m.role, k), HeardIn(G[m])),
         NEW c \in Seq(SpokenMessages)
  PROVE  Mapped(c, G) \in Seq(ItemMessages) /\ KeptIn(Said(c), HeardIn(Mapped(c, G)))
<1>1. /\ ItemMessages \subseteq RequestMessages /\ SpokenMessages \subseteq RequestMessages
  BY DEF ItemMessages, SpokenMessages
<1> DEFINE P == {d \in Seq(SpokenMessages) : KeptIn(Said(d), HeardIn(Mapped(d, G)))}
<1>2. <<>> \in P
  <2> DEFINE none == <<>>
  <2>1. none \in Seq(SpokenMessages) /\ Len(none) = 0
    OBVIOUS
  <2>2. Said(none) = none /\ Mapped(none, G) = none /\ HeardIn(none) = none
    BY SaidNone, MappedNone DEF HeardIn
  <2> HIDE DEF none
  <2>3. KeptBy([i \in 1 .. 0 |-> 0], none, none)
    BY <2>1 DEF KeptBy
  <2>4. KeptIn(none, none)
    BY <2>3 DEF KeptIn
  <2>5. none \in P
    BY <2>1, <2>2, <2>4
  <2> QED BY <2>5 DEF none
<1>3. ASSUME NEW d \in Seq(SpokenMessages), NEW m \in SpokenMessages, d \in P PROVE Append(d, m) \in P
  <2> DEFINE e == Mapped(d, G)
             k == Len(d) + 1
             x == Sayings(m.parts, m.role, k)
  <2>1. Mapped(Append(d, m), G) = e \o G[m] /\ e \in Seq(ItemMessages)
    BY MappedLast
  <2>2. G[m] \in Seq(ItemMessages)
    BY DEF Maps
  <2>3. e \in Seq(RequestMessages) /\ G[m] \in Seq(RequestMessages) /\ d \in Seq(RequestMessages)
        /\ m \in RequestMessages
    BY <1>1, <2>1, <2>2, SeqMonotonic
  <2>4. k \in Nat /\ m.parts \in Seq(RequestParts) /\ m.role \in Roles
    BY <2>3, LenProperties DEF RequestMessages, Roles
  <2> HIDE DEF e, k
  <2>5. HeardIn(e \o G[m]) = HeardIn(e) \o HeardIn(G[m]) /\ HeardIn(e) \in Seq(Vocabulary)
        /\ HeardIn(G[m]) \in Seq(Vocabulary)
    BY <2>3, HeardJoined
  <2>6. Said(Append(d, m)) = Said(d) \o x /\ Said(d) \in Seq(Statements)
    BY <2>3, SaidLast DEF k
  <2>7. x \in Seq(Statements)
    BY <2>4, SayingsTyped
  <2>8. KeptIn(x, HeardIn(G[m]))
    BY <2>4
  <2>9. KeptIn(Said(d), HeardIn(e))
    BY <1>3 DEF e
  <2> DEFINE s == Said(d)
             h == HeardIn(e)
             hh == HeardIn(G[m])
  <2> HIDE DEF x, s, h, hh
  <2>10. KeptIn(s \o x, h \o hh)
    BY <2>5, <2>6, <2>7, <2>8, <2>9, KeptJoined DEF s, h, hh
  <2>11. KeptIn(Said(Append(d, m)), HeardIn(Mapped(Append(d, m), G)))
    BY <2>1, <2>5, <2>6, <2>10 DEF s, h, hh
  <2>12. Append(d, m) \in Seq(SpokenMessages)
    BY AppendProperties
  <2> QED BY <2>11, <2>12
<1> HIDE DEF P
<1>4. c \in P
  BY <1>2, <1>3, SeqInduction
<1> QED BY <1>4, MappedTyped DEF P

LEMMA ToResponsesKept ==
  ASSUME NEW c \in Seq(SpokenMessages)
  PROVE  /\ MessagesToResponsesInput(c) \in Seq(ItemMessages)
         /\ KeptIn(Said(c), HeardIn(MessagesToResponsesInput(c)))
         /\ \A d \in ChatMessagesToResponses(c) :
              d \in Seq(ItemMessages) /\ KeptIn(Said(c), HeardIn(d))
<1>1. TextsLast \in Maps(SpokenMessages, ItemMessages) /\ TextsBefore \in Maps(SpokenMessages, ItemMessages)
  <2>1. \A m \in SpokenMessages : TextsLast[m] \in Seq(ItemMessages) /\ TextsBefore[m] \in Seq(ItemMessages)
    BY BlockIs
  <2>2. /\ TextsLast = [m \in SpokenMessages |-> TextsLast[m]]
        /\ TextsBefore = [m \in SpokenMessages |-> TextsBefore[m]]
    BY DEF TextsLast, TextsBefore
  <2> QED BY <2>1, <2>2 DEF Maps
<1>2. \A i \in DOMAIN c : c[i] \in SpokenMessages
  BY LenProperties, ElementOfSeq
<1>3. MessagesToResponsesInput(c) = Mapped(c, TextsLast)
  <2>1. [i \in DOMAIN c |-> OtherItemsOf(c[i]) \o TextItem(c[i])] = [i \in DOMAIN c |-> TextsLast[c[i]]]
    BY <1>2 DEF TextsLast
  <2> QED BY <2>1 DEF MessagesToResponsesInput, Mapped
<1>4. ChatMessagesToResponses(c) \subseteq {Mapped(c, TextsBefore)}
  <2>1. [i \in DOMAIN c |-> TextItem(c[i]) \o OtherItemsOf(c[i])] = [i \in DOMAIN c |-> TextsBefore[c[i]]]
    BY <1>2 DEF TextsBefore
  <2> QED BY <2>1 DEF ChatMessagesToResponses, Mapped, Unless
<1>5. \A m \in SpokenMessages : \A k \in Nat : KeptIn(Sayings(m.parts, m.role, k), HeardIn(TextsLast[m]))
  BY BlockIs
<1>6. \A m \in SpokenMessages : \A k \in Nat : KeptIn(Sayings(m.parts, m.role, k), HeardIn(TextsBefore[m]))
  BY BlockIs
<1>7. Mapped(c, TextsLast) \in Seq(ItemMessages) /\ KeptIn(Said(c), HeardIn(Mapped(c, TextsLast)))
  BY <1>1, <1>5, BlocksKept
<1>8. Mapped(c, TextsBefore) \in Seq(ItemMessages) /\ KeptIn(Said(c), HeardIn(Mapped(c, TextsBefore)))
  BY <1>1, <1>6, BlocksKept
<1> QED BY <1>3, <1>4, <1>7, <1>8

---------------------------------------------------------------------------
(* Responses to Messages and to Chat.                                      *)

\* Where nothing is a text, the speaker does not matter.
LEMMA AnySpeaker ==
  ASSUME NEW ps, \A i \in DOMAIN ps : ps[i].kind # "text", NEW role, NEW other
  PROVE  WordsOf(ps, role) = WordsOf(ps, other)
<1>1. \A p : p.kind # "text" => By(p, role) = By(p, other)
  BY Zenon DEF By
<1>2. \A i \in DOMAIN ps : Word(ps[i], role) = Word(ps[i], other)
  BY <1>1 DEF Word
<1> QED BY <1>2 DEF WordsOf

LEMMA ToMessagesKept ==
  ASSUME NEW c \in Seq(SpokenMessages)
  PROVE  /\ ResponsesInputToMessages(c) \in Seq(RequestMessages)
         /\ HeardIn(ResponsesInputToMessages(c)) = HeardIn(c)
<1> DEFINE d == ResponsesInputToMessages(c)
           n == Len(c)
           user(m) == Message(IF m.role = "tool" THEN "user" ELSE m.role, m.parts)
<1>1. /\ n \in Nat /\ DOMAIN c = 1 .. n /\ \A i \in 1 .. n : c[i] \in SpokenMessages
  BY LenProperties, ElementOfSeq
<1> HIDE DEF n
<1>2. ASSUME NEW m \in SpokenMessages PROVE user(m) \in RequestMessages /\ Hearing[user(m)] = Hearing[m]
  <2>1. m.parts \in Seq(RequestParts) /\ m.role \in Roles /\ m \in RequestMessages
    BY DEF SpokenMessages, RequestMessages, Roles
  <2>2. user(m) \in RequestMessages
    BY <2>1 DEF Message, RequestMessages, Roles
  <2>3. user(m).parts = m.parts /\ user(m).role = IF m.role = "tool" THEN "user" ELSE m.role
    BY DEF Message
  <2> HIDE DEF user
  <2>4. /\ Hearing[user(m)] = WordsOf(user(m).parts, user(m).role)
        /\ Hearing[m] = WordsOf(m.parts, m.role)
    BY <2>1, <2>2, HearingIs
  <2>5. WordsOf(user(m).parts, user(m).role) = WordsOf(m.parts, m.role)
    <3>1. CASE m.role = "tool"
      <4>1. \A i \in DOMAIN m.parts : m.parts[i].kind # "text"
        BY <3>1 DEF SpokenMessages
      <4>2. WordsOf(m.parts, "user") = WordsOf(m.parts, "tool")
        BY <4>1, AnySpeaker
      <4> QED BY <2>3, <3>1, <4>2
    <3>2. CASE m.role # "tool"
      BY <2>3, <3>2
    <3> QED BY <3>1, <3>2
  <2> QED BY <2>2, <2>4, <2>5
<1>3. d = [i \in 1 .. n |-> user(c[i])]
  BY <1>1 DEF ResponsesInputToMessages
<1> HIDE DEF user, d
<1>4. d \in Seq(RequestMessages)
  BY <1>1, <1>2, <1>3, IsASeq
<1>5. [i \in DOMAIN d |-> Hearing[d[i]]] = [i \in DOMAIN c |-> Hearing[c[i]]]
  BY <1>1, <1>2, <1>3
<1>6. HeardIn(d) = HeardIn(c)
  BY <1>5 DEF HeardIn, Mapped
<1> QED BY <1>4, <1>6 DEF d

\* The items of one phase.
Phased(n) == {m \in ItemMessages : Phase(m.parts[1]) = n}
Picking(n) == [m \in ItemMessages |-> IF Phase(m.parts[1]) = n THEN <<m>> ELSE <<>>]

LEMMA PickingIs ==
  ASSUME NEW n
  PROVE  /\ Picking(n) \in Maps(ItemMessages, Phased(n))
         /\ \A c \in Seq(ItemMessages) :
              InPhase(c, n) = Mapped(c, Picking(n)) /\ InPhase(c, n) \in Seq(Phased(n))
<1>1. Picking(n) \in Maps(ItemMessages, Phased(n))
  <2> SUFFICES ASSUME NEW m \in ItemMessages
               PROVE  (IF Phase(m.parts[1]) = n THEN <<m>> ELSE <<>>) \in Seq(Phased(n))
    BY DEF Picking, Maps
  <2>1. CASE Phase(m.parts[1]) = n
    <3>1. m \in Phased(n)
      BY <2>1 DEF Phased
    <3> QED BY <2>1, <3>1
  <2>2. CASE Phase(m.parts[1]) # n
    BY <2>2
  <2> QED BY <2>1, <2>2
<1>2. ASSUME NEW c \in Seq(ItemMessages)
      PROVE  InPhase(c, n) = Mapped(c, Picking(n)) /\ InPhase(c, n) \in Seq(Phased(n))
  <2>1. \A i \in DOMAIN c : c[i] \in ItemMessages
    BY LenProperties, ElementOfSeq
  <2>2. [i \in DOMAIN c |-> IF Phase(c[i].parts[1]) = n THEN <<c[i]>> ELSE <<>>]
          = [i \in DOMAIN c |-> Picking(n)[c[i]]]
    BY <2>1 DEF Picking
  <2>3. InPhase(c, n) = Mapped(c, Picking(n))
    BY <2>2 DEF InPhase, Mapped
  <2> QED BY <1>1, <2>3, MappedTyped
<1> QED BY <1>1, <1>2

LEMMA PhaseLast ==
  ASSUME NEW n, NEW c \in Seq(ItemMessages), NEW m \in ItemMessages
  PROVE  /\ Phase(m.parts[1]) = n => InPhase(Append(c, m), n) = Append(InPhase(c, n), m)
         /\ Phase(m.parts[1]) # n => InPhase(Append(c, m), n) = InPhase(c, n)
<1> DEFINE G == Picking(n)
           e == InPhase(c, n)
<1>1. Append(c, m) \in Seq(ItemMessages)
  BY AppendProperties
<1>2. G \in Maps(ItemMessages, Phased(n)) /\ e = Mapped(c, G)
      /\ InPhase(Append(c, m), n) = Mapped(Append(c, m), G) /\ e \in Seq(Phased(n))
  BY <1>1, PickingIs
<1>3. G[m] = IF Phase(m.parts[1]) = n THEN <<m>> ELSE <<>>
  BY DEF Picking
<1> HIDE DEF G, e
<1>4. Mapped(Append(c, m), G) = Mapped(c, G) \o G[m]
  <2>1. G \in Maps(ItemMessages, Phased(n))
    BY <1>2
  <2> QED BY <2>1, MappedLast
<1>5. CASE Phase(m.parts[1]) = n
  <2>1. m \in Phased(n)
    BY <1>5 DEF Phased
  <2>2. e \o <<m>> = Append(e, m)
    BY <1>2, <2>1, AppendIsConcat
  <2> QED BY <1>2, <1>3, <1>4, <1>5, <2>2 DEF e
<1>6. CASE Phase(m.parts[1]) # n
  <2>1. e \o <<>> = e
    BY <1>2, ConcatEmptySeq
  <2> QED BY <1>2, <1>3, <1>4, <1>6, <2>1 DEF e
<1> QED BY <1>5, <1>6

UpTo(ps, k) == \A i \in DOMAIN ps : Phase(ps[i]) <= k
InOrder(ps) == ~\E i, j \in DOMAIN ps : i < j /\ Phase(ps[i]) > Phase(ps[j])

LEMMA ItemPartsLast ==
  ASSUME NEW c \in Seq(ItemMessages), NEW m \in ItemMessages
  PROVE  /\ m.parts \in Seq(RequestParts) /\ m.role \in Roles /\ m \in RequestMessages
         /\ c \in Seq(RequestMessages) /\ PartsOf(c) \in Seq(RequestParts)
         /\ PartsOf(Append(c, m)) = PartsOf(c) \o m.parts
         /\ DOMAIN PartsOf(c) \subseteq DOMAIN PartsOf(Append(c, m))
         /\ \A i \in DOMAIN PartsOf(c) : PartsOf(Append(c, m))[i] = PartsOf(c)[i]
         /\ \E j \in DOMAIN PartsOf(Append(c, m)) :
              /\ PartsOf(Append(c, m))[j] = m.parts[1]
              /\ \A i \in DOMAIN PartsOf(c) : i < j
<1>1. ItemMessages \subseteq RequestMessages
  BY DEF ItemMessages, SpokenMessages
<1>2. c \in Seq(RequestMessages) /\ m \in RequestMessages
  BY <1>1, SeqMonotonic
<1> DEFINE ps == PartsOf(c)
           qs == PartsOf(Append(c, m))
           n == Len(ps)
           k == Len(m.parts)
<1>3. ps \in Seq(RequestParts) /\ qs = ps \o m.parts
  BY <1>2, PartsTyped
<1>4. m.parts \in Seq(RequestParts) /\ m.parts # <<>>
  BY DEF ItemMessages, SpokenMessages, RequestMessages
<1> HIDE DEF ps, qs
<1>5. /\ qs \in Seq(RequestParts) /\ Len(qs) = n + k
      /\ \A i \in 1 .. n + k : qs[i] = IF i <= n THEN ps[i] ELSE m.parts[i - n]
  BY <1>3, <1>4, ConcatProperties
<1>6. n \in Nat /\ k \in Nat /\ k # 0 /\ DOMAIN ps = 1 .. n /\ DOMAIN qs = 1 .. n + k
  <2>1. n \in Nat /\ DOMAIN ps = 1 .. n
    BY <1>3, LenProperties
  <2>2. k \in Nat /\ k # 0
    BY <1>4, LenProperties, EmptySeq
  <2>3. DOMAIN qs = 1 .. Len(qs)
    BY <1>5, LenProperties
  <2> QED BY <1>5, <2>1, <2>2, <2>3
<1> HIDE DEF n, k
<1>7. n + 1 \in 1 .. n + k /\ ~(n + 1 <= n) /\ (n + 1) - n = 1 /\ \A i \in 1 .. n : i < n + 1
  BY <1>6
<1>8. qs[n + 1] = m.parts[1]
  BY <1>5, <1>7
<1>9. \A i \in DOMAIN ps : i \in DOMAIN qs /\ qs[i] = ps[i]
  BY <1>5, <1>6
<1>10. \E j \in DOMAIN qs : qs[j] = m.parts[1] /\ \A i \in DOMAIN ps : i < j
  BY <1>6, <1>7, <1>8
<1> QED BY <1>2, <1>3, <1>4, <1>9, <1>10 DEF ps, qs, RequestMessages, Roles

LEMMA PhaseEmpty ==
  ASSUME NEW c \in Seq(ItemMessages), NEW k \in 1 .. 3, NEW n \in 1 .. 3, k < n, UpTo(PartsOf(c), k)
  PROVE  InPhase(c, n) = <<>>
<1> DEFINE P == {d \in Seq(ItemMessages) : UpTo(PartsOf(d), k) => InPhase(d, n) = <<>>}
<1>1. <<>> \in P
  BY FlattenNone DEF InPhase
<1>2. ASSUME NEW d \in Seq(ItemMessages), NEW m \in ItemMessages, d \in P PROVE Append(d, m) \in P
  <2>1. /\ DOMAIN PartsOf(d) \subseteq DOMAIN PartsOf(Append(d, m))
        /\ \A i \in DOMAIN PartsOf(d) : PartsOf(Append(d, m))[i] = PartsOf(d)[i]
        /\ \E j \in DOMAIN PartsOf(Append(d, m)) : PartsOf(Append(d, m))[j] = m.parts[1]
    BY ItemPartsLast
  <2>2. ASSUME UpTo(PartsOf(Append(d, m)), k) PROVE InPhase(Append(d, m), n) = <<>>
    <3>1. UpTo(PartsOf(d), k) /\ Phase(m.parts[1]) <= k
      BY <2>1, <2>2 DEF UpTo
    <3>2. Phase(m.parts[1]) # n
      BY <3>1 DEF Phase
    <3> QED BY <1>2, <3>1, <3>2, PhaseLast
  <2>3. Append(d, m) \in Seq(ItemMessages)
    BY AppendProperties
  <2> QED BY <2>2, <2>3
<1> HIDE DEF P
<1>3. c \in P
  BY <1>1, <1>2, SeqInduction
<1> QED BY <1>3 DEF P

\* What comes in the order of the phases is what the phases hold.
ByPhase(c) == (HeardIn(InPhase(c, 1)) \o HeardIn(InPhase(c, 2))) \o HeardIn(InPhase(c, 3))

LEMMA PhasesHeard ==
  ASSUME NEW c \in Seq(ItemMessages), InOrder(PartsOf(c))
  PROVE  HeardIn(c) = ByPhase(c)
<1> DEFINE P == {d \in Seq(ItemMessages) : InOrder(PartsOf(d)) => HeardIn(d) = ByPhase(d)}
<1>1. <<>> \in P
  <2> DEFINE none == <<>>
  <2>1. HeardIn(none) = none /\ \A n : InPhase(none, n) = none
    BY MappedNone, FlattenNone DEF HeardIn, InPhase
  <2>2. none \o none = none /\ none \in Seq(ItemMessages)
    OBVIOUS
  <2> HIDE DEF none
  <2>3. none \in P
    BY <2>1, <2>2 DEF ByPhase
  <2> QED BY <2>3 DEF none
<1>2. ASSUME NEW d \in Seq(ItemMessages), NEW m \in ItemMessages, d \in P PROVE Append(d, m) \in P
  <2> DEFINE e == Append(d, m)
  <2>1. e \in Seq(ItemMessages)
    BY AppendProperties
  <2>2. ASSUME InOrder(PartsOf(e)) PROVE HeardIn(e) = ByPhase(e)
    <3> DEFINE k == Phase(m.parts[1])
               w == WordsOf(m.parts, m.role)
    <3>1. k \in 1 .. 3
      BY DEF Phase
    <3>2. InOrder(PartsOf(d)) /\ UpTo(PartsOf(d), k)
      <4>1. /\ DOMAIN PartsOf(d) \subseteq DOMAIN PartsOf(e)
            /\ \A i \in DOMAIN PartsOf(d) : PartsOf(e)[i] = PartsOf(d)[i]
        BY ItemPartsLast
      <4>2. PICK j \in DOMAIN PartsOf(e) :
              PartsOf(e)[j] = m.parts[1] /\ \A i \in DOMAIN PartsOf(d) : i < j
        BY ItemPartsLast
      <4>3. InOrder(PartsOf(d))
        BY <2>2, <4>1 DEF InOrder
      <4>4. \A p : Phase(p) \in 1 .. 3
        BY DEF Phase
      <4>5. ASSUME NEW i \in DOMAIN PartsOf(d) PROVE Phase(PartsOf(d)[i]) <= k
        <5>1. ~(Phase(PartsOf(e)[i]) > Phase(PartsOf(e)[j]))
          BY <2>2, <4>1, <4>2 DEF InOrder
        <5>2. PartsOf(e)[i] = PartsOf(d)[i]
          BY <4>1
        <5> DEFINE a == Phase(PartsOf(d)[i])
        <5>3. ~(a > k) /\ a \in 1 .. 3
          BY <4>2, <4>4, <5>1, <5>2
        <5> HIDE DEF a, k
        <5>4. a <= k
          BY <3>1, <5>3
        <5> QED BY <5>4 DEF a
      <4> QED BY <4>3, <4>5 DEF UpTo
    <3> DEFINE h(n) == HeardIn(InPhase(d, n))
    <3>3. HeardIn(d) = (h(1) \o h(2)) \o h(3)
      BY <1>2, <3>2 DEF ByPhase
    <3>4. /\ d \in Seq(RequestMessages) /\ m \in RequestMessages
          /\ \A n : InPhase(d, n) \in Seq(RequestMessages)
      <4>1. ItemMessages \subseteq RequestMessages /\ \A n : Phased(n) \subseteq RequestMessages
        BY DEF ItemMessages, SpokenMessages, Phased
      <4>2. \A n : InPhase(d, n) \in Seq(Phased(n))
        BY PickingIs
      <4> QED BY <4>1, <4>2, SeqMonotonic
    <3>5. HeardIn(e) = HeardIn(d) \o w /\ w \in Seq(Vocabulary) /\ h(1) \in Seq(Vocabulary)
          /\ h(2) \in Seq(Vocabulary) /\ h(3) \in Seq(Vocabulary)
      BY <3>4, HeardLast
    <3>6. \A n : /\ k = n => HeardIn(InPhase(e, n)) = h(n) \o w
                 /\ k # n => HeardIn(InPhase(e, n)) = h(n)
      <4> SUFFICES ASSUME NEW n PROVE /\ k = n => HeardIn(InPhase(e, n)) = h(n) \o w
                                      /\ k # n => HeardIn(InPhase(e, n)) = h(n)
        OBVIOUS
      <4>1. /\ k = n => InPhase(e, n) = Append(InPhase(d, n), m)
            /\ k # n => InPhase(e, n) = InPhase(d, n)
        BY PhaseLast
      <4>2. InPhase(d, n) \in Seq(RequestMessages)
        BY <3>4
      <4>3. HeardIn(Append(InPhase(d, n), m)) = h(n) \o w
        BY <3>4, <4>2, HeardLast
      <4> QED BY <4>1, <4>3
    <3>7. \A n \in 1 .. 3 : k < n => h(n) = <<>>
      <4>1. \A n \in 1 .. 3 : k < n => InPhase(d, n) = <<>>
        <5> HIDE DEF k
        <5> QED BY <3>1, <3>2, PhaseEmpty
      <4>2. HeardIn(<<>>) = <<>>
        BY MappedNone DEF HeardIn
      <4> QED BY <4>1, <4>2
    <3> DEFINE x == h(1)
               y == h(2)
               z == h(3)
    <3>8. x \in Seq(Vocabulary) /\ y \in Seq(Vocabulary) /\ z \in Seq(Vocabulary)
          /\ w \in Seq(Vocabulary)
      BY <3>5
    <3>9. /\ ByPhase(e) = (HeardIn(InPhase(e, 1)) \o HeardIn(InPhase(e, 2))) \o HeardIn(InPhase(e, 3))
          /\ HeardIn(e) = ((x \o y) \o z) \o w
      BY <3>3, <3>5 DEF ByPhase
    <3>10. \A s, t \in Seq(Vocabulary) : s \o t \in Seq(Vocabulary) /\ s \o <<>> = s
      BY ConcatProperties, ConcatEmptySeq
    <3>11. \A s, t, u \in Seq(Vocabulary) : (s \o t) \o u = s \o (t \o u)
      BY ConcatAssociative
    <3>12. CASE k = 3
      <4>1. ByPhase(e) = (x \o y) \o (z \o w)
        <5>1. /\ HeardIn(InPhase(e, 1)) = x /\ HeardIn(InPhase(e, 2)) = y
              /\ HeardIn(InPhase(e, 3)) = z \o w
          <6> HIDE DEF k, w
          <6> QED BY <3>6, <3>12
        <5> QED BY <3>9, <5>1
      <4>2. ((x \o y) \o z) \o w = (x \o y) \o (z \o w)
        <5> DEFINE xy == x \o y
        <5> HIDE DEF x, y, z, w
        <5>1. xy \in Seq(Vocabulary)
          BY <3>8, <3>10
        <5> HIDE DEF xy
        <5>2. (xy \o z) \o w = xy \o (z \o w)
          BY <3>8, <3>11, <5>1
        <5> QED BY <5>2 DEF xy
      <4> QED BY <3>9, <4>1, <4>2
    <3>13. CASE k = 2
      <4>1. ByPhase(e) = (x \o (y \o w)) \o z /\ z = <<>>
        <5>1. /\ HeardIn(InPhase(e, 1)) = x /\ HeardIn(InPhase(e, 2)) = y \o w
              /\ HeardIn(InPhase(e, 3)) = z
          <6> HIDE DEF k, w
          <6> QED BY <3>6, <3>13
        <5>2. z = <<>>
          <6> HIDE DEF k
          <6> QED BY <3>7, <3>13
        <5> QED BY <3>9, <5>1, <5>2
      <4>2. ((x \o y) \o z) \o w = (x \o (y \o w)) \o z
        <5> HIDE DEF x, y, z, w
        <5>1. (x \o y) \o z = x \o y /\ (x \o (y \o w)) \o z = x \o (y \o w)
          BY <3>8, <3>10, <4>1
        <5>2. (x \o y) \o w = x \o (y \o w)
          BY <3>8, <3>11
        <5> QED BY <5>1, <5>2
      <4> QED BY <3>9, <4>1, <4>2
    <3>14. CASE k = 1
      <4>1. ByPhase(e) = ((x \o w) \o y) \o z /\ z = <<>> /\ y = <<>>
        <5>1. /\ HeardIn(InPhase(e, 1)) = x \o w /\ HeardIn(InPhase(e, 2)) = y
              /\ HeardIn(InPhase(e, 3)) = z
          <6> HIDE DEF k, w
          <6> QED BY <3>6, <3>14
        <5>2. z = <<>> /\ y = <<>>
          <6> HIDE DEF k
          <6> QED BY <3>7, <3>14
        <5> QED BY <3>9, <5>1, <5>2
      <4>2. ((x \o y) \o z) \o w = ((x \o w) \o y) \o z
        <5> HIDE DEF x, y, z, w
        <5>1. x \o y = x /\ x \o z = x /\ (x \o w) \o y = x \o w /\ (x \o w) \o z = x \o w
          BY <3>8, <3>10, <4>1
        <5> QED BY <5>1
      <4> QED BY <3>9, <4>1, <4>2
    <3> QED BY <3>1, <3>12, <3>13, <3>14
  <2> HIDE DEF e
  <2>3. e \in P
    BY <2>1, <2>2
  <2> QED BY <2>3 DEF e
<1> HIDE DEF P
<1>3. c \in P
  BY <1>1, <1>2, SeqInduction
<1> QED BY <1>3 DEF P

\* A group of calls is said by no one in particular.
LEMMA CallsHeard ==
  ASSUME NEW c \in Seq(Phased(2))
  PROVE  /\ HeardIn(c) = WordsOf(PartsOf(c), "assistant") /\ PartsOf(c) \in Seq(RequestParts)
         /\ c \in Seq(RequestMessages)
<1>1. Phased(2) \subseteq RequestMessages
  BY DEF Phased, ItemMessages, SpokenMessages
<1> DEFINE P == {d \in Seq(Phased(2)) : HeardIn(d) = WordsOf(PartsOf(d), "assistant")}
<1>2. <<>> \in P
  <2> DEFINE none == <<>>
  <2>1. none \in Seq(Phased(2)) /\ WordsOf(none, "assistant") = none
    BY DEF WordsOf
  <2>2. HeardIn(none) = none /\ PartsOf(none) = none
    BY MappedNone, FlattenNone DEF HeardIn, PartsOf
  <2> HIDE DEF none
  <2>3. none \in P
    BY <2>1, <2>2
  <2> QED BY <2>3 DEF none
<1>3. ASSUME NEW d \in Seq(Phased(2)), NEW m \in Phased(2), d \in P PROVE Append(d, m) \in P
  <2> DEFINE ps == m.parts
             qs == PartsOf(d)
  <2>1. d \in Seq(RequestMessages) /\ m \in RequestMessages /\ m \in ItemMessages
    BY <1>1, SeqMonotonic DEF Phased
  <2>2. /\ HeardIn(Append(d, m)) = HeardIn(d) \o WordsOf(ps, m.role) /\ ps \in Seq(RequestParts)
    BY <2>1, HeardLast
  <2>3. qs \in Seq(RequestParts) /\ PartsOf(Append(d, m)) = qs \o ps
    BY <2>1, PartsTyped
  <2>4. \A i \in DOMAIN ps : ps[i].kind # "text"
    BY DEF Phased, ItemMessages, Phase
  <2> HIDE DEF ps, qs
  <2>5. WordsOf(ps, m.role) = WordsOf(ps, "assistant")
    BY <2>4, AnySpeaker
  <2>6. WordsOf(qs \o ps, "assistant") = WordsOf(qs, "assistant") \o WordsOf(ps, "assistant")
    BY <2>2, <2>3, WordsJoined DEF Roles
  <2>7. HeardIn(d) = WordsOf(qs, "assistant")
    BY <1>3 DEF qs
  <2>8. Append(d, m) \in Seq(Phased(2))
    BY AppendProperties
  <2> QED BY <2>2, <2>3, <2>5, <2>6, <2>7, <2>8
<1> HIDE DEF P
<1>4. c \in P
  BY <1>2, <1>3, SeqInduction
<1>5. c \in Seq(RequestMessages)
  BY <1>1, SeqMonotonic
<1>6. Message("user", <<>>) \in RequestMessages
  BY DEF Message, RequestMessages
<1>7. PartsOf(c) \in Seq(RequestParts)
  BY <1>5, <1>6, PartsTyped
<1> QED BY <1>4, <1>5, <1>7 DEF P

\* The developer's message is the only one set aside.
Turns == RequestMessages \cup {Developer}
Leaving == [m \in Turns |-> IF m = Developer THEN <<>> ELSE <<m>>]

LEMMA SetsAside ==
  ASSUME NEW c \in Seq(RequestMessages)
  PROVE  SetAside(c, Developer) = c /\ SetAside(<<Developer>> \o c, Developer) = c
<1>1. Developer \notin RequestMessages
  BY DEF Developer, Message, RequestMessages
<1>2. Leaving \in Maps(Turns, RequestMessages)
  BY DEF Leaving, Maps, Turns
<1>3. \A d \in Seq(Turns) : SetAside(d, Developer) = Mapped(d, Leaving)
  <2> SUFFICES ASSUME NEW d \in Seq(Turns) PROVE SetAside(d, Developer) = Mapped(d, Leaving)
    OBVIOUS
  <2>1. \A i \in DOMAIN d : d[i] \in Turns
    BY LenProperties, ElementOfSeq
  <2>2. [i \in DOMAIN d |-> IF d[i] = Developer THEN <<>> ELSE <<d[i]>>]
          = [i \in DOMAIN d |-> Leaving[d[i]]]
    BY <2>1 DEF Leaving
  <2> QED BY <2>2 DEF SetAside, Mapped
<1>4. RequestMessages \subseteq Turns /\ Developer \in Turns
  BY DEF Turns
<1> DEFINE P == {d \in Seq(RequestMessages) : Mapped(d, Leaving) = d}
<1>5. <<>> \in P
  BY MappedNone
<1>6. ASSUME NEW d \in Seq(RequestMessages), NEW m \in RequestMessages, d \in P
      PROVE  Append(d, m) \in P
  <2>1. d \in Seq(Turns) /\ m \in Turns
    BY <1>4, SeqMonotonic
  <2>2. Leaving[m] = <<m>>
    BY <1>1, <2>1 DEF Leaving
  <2>3. Mapped(Append(d, m), Leaving) = Mapped(d, Leaving) \o Leaving[m]
    BY <1>2, <2>1, MappedLast
  <2>4. Append(d, m) = d \o <<m>> /\ Append(d, m) \in Seq(RequestMessages)
    BY AppendIsConcat, AppendProperties
  <2> QED BY <1>6, <2>2, <2>3, <2>4
<1> HIDE DEF P
<1>7. c \in P
  BY <1>5, <1>6, SeqInduction
<1>8. Mapped(c, Leaving) = c /\ c \in Seq(Turns)
  BY <1>4, <1>7, SeqMonotonic DEF P
<1> DEFINE dev == <<Developer>>
<1>9. dev \in Seq(Turns) /\ Mapped(dev, Leaving) = Leaving[Developer]
  BY <1>2, <1>4, MappedOne
<1>10. Leaving[Developer] = <<>>
  BY <1>4 DEF Leaving
<1> HIDE DEF dev
<1>11. Mapped(dev \o c, Leaving) = <<>> \o c /\ dev \o c \in Seq(Turns)
  <2>1. dev \in Seq(Turns) /\ c \in Seq(Turns) /\ Leaving \in Maps(Turns, RequestMessages)
    BY <1>2, <1>8, <1>9
  <2>2. Mapped(dev \o c, Leaving) = Mapped(dev, Leaving) \o Mapped(c, Leaving)
    BY <2>1, MappedJoined
  <2>3. dev \o c \in Seq(Turns)
    BY <2>1, ConcatProperties
  <2> QED BY <1>8, <1>9, <1>10, <2>2, <2>3
<1>12. <<>> \o c = c
  BY ConcatEmptySeq
<1> QED BY <1>3, <1>8, <1>11, <1>12 DEF dev

LEMMA ToChatKept ==
  ASSUME NEW c \in Seq(ItemMessages), NEW told \in BOOLEAN, NEW out \in ResponsesInputToChat(c, told)
  PROVE  /\ SetAside(out, Developer) \in Seq(RequestMessages)
         /\ HeardIn(SetAside(out, Developer)) = HeardIn(c)
         /\ told => Head(out) = Developer
<1> DEFINE p1 == InPhase(c, 1)
           p2 == InPhase(c, 2)
           p3 == InPhase(c, 3)
           calls == PartsOf(p2)
           group == IF calls = <<>> THEN <<>> ELSE <<Message("assistant", calls)>>
           dev == IF told THEN <<Developer>> ELSE <<>>
           rest == (p1 \o group) \o p3
<1>1. InOrder(PartsOf(c)) /\ out = ((dev \o p1) \o group) \o p3
  BY DEF ResponsesInputToChat, Unless, InOrder
<1>2. /\ p1 \in Seq(Phased(1)) /\ p2 \in Seq(Phased(2)) /\ p3 \in Seq(Phased(3))
  BY PickingIs
<1>3. \A n : Phased(n) \subseteq RequestMessages
  BY DEF Phased, ItemMessages, SpokenMessages
<1>4. p1 \in Seq(RequestMessages) /\ p2 \in Seq(RequestMessages) /\ p3 \in Seq(RequestMessages)
  BY <1>2, <1>3, SeqMonotonic
<1>5. HeardIn(p2) = WordsOf(calls, "assistant") /\ calls \in Seq(RequestParts)
  BY <1>2, CallsHeard
<1>6. HeardIn(c) = (HeardIn(p1) \o HeardIn(p2)) \o HeardIn(p3)
  BY <1>1, PhasesHeard DEF ByPhase
<1> HIDE DEF p1, p2, p3, calls
<1>7. group \in Seq(RequestMessages) /\ HeardIn(group) = HeardIn(p2)
  <2>1. CASE calls = <<>>
    <3> DEFINE none == <<>>
    <3>1. WordsOf(none, "assistant") = none /\ HeardIn(none) = none /\ none \in Seq(RequestMessages)
      BY MappedNone DEF WordsOf, HeardIn
    <3>2. group = none /\ calls = none
      BY <2>1
    <3> HIDE DEF none, group
    <3> QED BY <1>5, <3>1, <3>2
  <2>2. CASE calls # <<>>
    <3> DEFINE m == Message("assistant", calls)
    <3>1. m \in RequestMessages /\ m.parts = calls /\ m.role = "assistant"
      BY <1>5 DEF Message, RequestMessages
    <3>2. group = <<m>>
      BY <2>2
    <3> HIDE DEF m, group
    <3>3. HeardIn(<<m>>) = WordsOf(m.parts, m.role)
      BY <3>1, HeardOne
    <3> QED BY <1>5, <3>1, <3>2, <3>3
  <2> QED BY <2>1, <2>2
<1> HIDE DEF group
<1>8. rest \in Seq(RequestMessages) /\ p1 \o group \in Seq(RequestMessages)
  BY <1>4, <1>7, ConcatProperties
<1>9. HeardIn(rest) = HeardIn(c)
  <2>1. HeardIn(rest) = HeardIn(p1 \o group) \o HeardIn(p3)
    BY <1>4, <1>8, HeardJoined
  <2>2. HeardIn(p1 \o group) = HeardIn(p1) \o HeardIn(group)
    BY <1>4, <1>7, HeardJoined
  <2> QED BY <1>6, <1>7, <2>1, <2>2
<1>10. CASE told
  <2> DEFINE first == <<Developer>>
  <2>1. first \in Seq(Turns) /\ RequestMessages \subseteq Turns
    BY DEF Turns
  <2>2. p1 \in Seq(Turns) /\ group \in Seq(Turns) /\ p3 \in Seq(Turns) /\ p1 \o group \in Seq(Turns)
    BY <1>4, <1>7, <1>8, <2>1, SeqMonotonic
  <2>3. out = ((first \o p1) \o group) \o p3
    BY <1>1, <1>10
  <2> HIDE DEF first
  <2>4. (first \o p1) \o group = first \o (p1 \o group)
    BY <2>1, <2>2, ConcatAssociative
  <2>5. (first \o (p1 \o group)) \o p3 = first \o ((p1 \o group) \o p3)
    <3> DEFINE both == p1 \o group
    <3>1. both \in Seq(Turns)
      BY <2>2
    <3> HIDE DEF both
    <3>2. (first \o both) \o p3 = first \o (both \o p3)
      BY <2>1, <2>2, <3>1, ConcatAssociative
    <3> QED BY <3>2 DEF both
  <2>6. out = first \o rest
    BY <2>3, <2>4, <2>5
  <2> HIDE DEF rest
  <2>7. SetAside(first \o rest, Developer) = rest
    BY <1>8, SetsAside DEF first
  <2>8. Head(first \o rest) = Developer
    <3>1. rest \in Seq(Turns)
      BY <1>8, <2>1, SeqMonotonic
    <3>2. Len(first) = 1 /\ first[1] = Developer
      BY DEF first
    <3>3. Len(rest) \in Nat
      BY <3>1, LenProperties
    <3>4. (first \o rest)[1] = first[1]
      BY <2>1, <3>1, <3>2, <3>3, ConcatProperties
    <3>5. first \o rest \in Seq(Turns) /\ Len(first \o rest) = 1 + Len(rest)
      BY <2>1, <3>1, <3>2, ConcatProperties
    <3> QED BY <3>2, <3>3, <3>4, <3>5
  <2> QED BY <1>8, <1>9, <2>6, <2>7, <2>8
<1>11. CASE ~told
  <2>1. <<>> \o p1 = p1
    BY <1>4, ConcatEmptySeq
  <2>2. out = rest
    BY <1>1, <1>11, <2>1
  <2> HIDE DEF rest
  <2> QED BY <1>8, <1>9, <1>11, <2>2, SetsAside
<1> QED BY <1>10, <1>11

LEMMA AlikeIsKept ==
  ASSUME NEW c \in Seq(RequestMessages) PROVE KeptIn(Said(c), HeardIn(c))
<1> DEFINE b == Said(c)
           a == HeardIn(c)
           f == [i \in 1 .. Len(b) |-> i]
<1>1. Len(b) = Len(a) /\ \A j \in 1 .. Len(a) : Fits(b[j], a[j])
  BY SaidIsHeard DEF Alike
<1> HIDE DEF a, b
<1>2. KeptBy(f, b, a)
  BY <1>1 DEF KeptBy
<1> HIDE DEF f
<1>3. KeptIn(b, a)
  BY <1>1, <1>2 DEF KeptIn
<1> QED BY <1>3 DEF a, b

\* A converted conversation says what the client's says.
LEMMA ConvertedKept ==
  ASSUME NEW from \in Dialects3, NEW to \in Dialects3, from # to, NEW b,
         b.conv \in Seq(SpokenMessages), from = "responses" => b.conv \in Seq(ItemMessages),
         NEW body \in ConvertRequest(from, to, b)
  PROVE  LET after == SetAside(body.conv, Developer)
         IN  after \in Seq(RequestMessages) /\ KeptIn(Said(b.conv), HeardIn(after))
<1> DEFINE c == b.conv
           after == SetAside(body.conv, Developer)
<1>1. SpokenMessages \subseteq RequestMessages /\ ItemMessages \subseteq SpokenMessages
  BY DEF SpokenMessages, ItemMessages
<1>2. c \in Seq(RequestMessages) /\ \A d \in Seq(ItemMessages) : d \in Seq(SpokenMessages) /\ d \in Seq(RequestMessages)
  BY <1>1, SeqMonotonic
<1>4. ASSUME NEW o, NEW x \in MessagesToResponsesRequest(o) PROVE x.conv = MessagesToResponsesInput(o.conv)
  BY DEF MessagesToResponsesRequest, Unless, Body
<1>5. ASSUME NEW o, NEW x \in ChatToResponsesRequest(o) PROVE x.conv \in ChatMessagesToResponses(o.conv)
  BY DEF ChatToResponsesRequest, Body
<1>6. ASSUME NEW o, NEW x \in ResponsesToMessagesRequest(o) PROVE x.conv = ResponsesInputToMessages(o.conv)
  BY DEF ResponsesToMessagesRequest, Unless, Body
<1>7. ASSUME NEW o, NEW x \in ResponsesToChatRequest(o)
      PROVE  x.conv \in ResponsesInputToChat(o.conv, "system" \in o.options)
  BY DEF ResponsesToChatRequest, Body
<1>8. ASSUME NEW o, o.conv \in Seq(ItemMessages), NEW x \in ResponsesToChatRequest(o)
      PROVE  /\ SetAside(x.conv, Developer) \in Seq(RequestMessages)
             /\ HeardIn(SetAside(x.conv, Developer)) = HeardIn(o.conv)
  <2> DEFINE told == "system" \in o.options
  <2>1. told \in BOOLEAN
    OBVIOUS
  <2>2. x.conv \in ResponsesInputToChat(o.conv, told)
    BY <1>7, <1>8
  <2> HIDE DEF told
  <2>3. o.conv \in Seq(ItemMessages)
    BY <1>8
  <2> QED BY <2>1, <2>2, <2>3, ToChatKept
<1>9. ASSUME NEW o, o.conv \in Seq(SpokenMessages), NEW x \in ResponsesToMessagesRequest(o)
      PROVE  /\ SetAside(x.conv, Developer) \in Seq(RequestMessages)
             /\ HeardIn(SetAside(x.conv, Developer)) = HeardIn(o.conv)
  BY <1>6, <1>9, ToMessagesKept, SetsAside
<1>10. ASSUME NEW x, x.conv \in Seq(ItemMessages), KeptIn(Said(c), HeardIn(x.conv))
       PROVE  /\ SetAside(x.conv, Developer) \in Seq(RequestMessages)
              /\ KeptIn(Said(c), HeardIn(SetAside(x.conv, Developer)))
  BY <1>2, <1>10, SetsAside
<1>11. ASSUME NEW x \in MessagesToResponsesRequest(b)
       PROVE  x.conv \in Seq(ItemMessages) /\ KeptIn(Said(c), HeardIn(x.conv))
  BY <1>4, <1>11, ToResponsesKept
<1>12. ASSUME NEW x \in ChatToResponsesRequest(b)
       PROVE  x.conv \in Seq(ItemMessages) /\ KeptIn(Said(c), HeardIn(x.conv))
  BY <1>5, <1>12, ToResponsesKept
<1>13. KeptIn(Said(c), HeardIn(c))
  BY <1>2, AlikeIsKept
<1> HIDE DEF c, after
<1>14. CASE from = "messages" /\ to = "responses"
  <2>1. body \in MessagesToResponsesRequest(b)
    BY <1>14 DEF ConvertRequest
  <2> QED BY <1>10, <1>11, <2>1 DEF after, c
<1>15. CASE from = "chat" /\ to = "responses"
  <2>1. body \in ChatToResponsesRequest(b)
    BY <1>15 DEF ConvertRequest
  <2> QED BY <1>10, <1>12, <2>1 DEF after, c
<1>16. CASE from = "responses" /\ to = "messages"
  <2>1. body \in ResponsesToMessagesRequest(b)
    BY <1>16 DEF ConvertRequest
  <2> QED BY <1>9, <1>13, <2>1 DEF after, c
<1>17. CASE from = "responses" /\ to = "chat"
  <2>1. body \in ResponsesToChatRequest(b)
    BY <1>17 DEF ConvertRequest
  <2> QED BY <1>8, <1>13, <1>17, <2>1 DEF after, c
<1>18. CASE from = "chat" /\ to = "messages"
  <2>1. PICK o \in ChatToResponsesRequest(b) : body \in ResponsesToMessagesRequest(o)
    BY <1>18 DEF ConvertRequest
  <2>2. o.conv \in Seq(ItemMessages) /\ KeptIn(Said(c), HeardIn(o.conv)) /\ o.conv \in Seq(SpokenMessages)
    BY <1>2, <1>12, <2>1
  <2> QED BY <1>9, <2>1, <2>2 DEF after, c
<1>19. CASE from = "messages" /\ to = "chat"
  <2>1. PICK o \in MessagesToResponsesRequest(b) : body \in ResponsesToChatRequest(o)
    BY <1>19 DEF ConvertRequest
  <2>2. o.conv \in Seq(ItemMessages) /\ KeptIn(Said(c), HeardIn(o.conv))
    BY <1>11, <2>1
  <2> QED BY <1>8, <2>1, <2>2 DEF after, c
<1> QED BY <1>14, <1>15, <1>16, <1>17, <1>18, <1>19 DEF Dialects3

\* So nothing said is lost, repeated, or out of its place.
LEMMA KeptIsKept ==
  ASSUME NEW before, NEW c \in Seq(RequestMessages), KeptIn(before, HeardIn(c))
  PROVE  LET after == Said(c)
             Place(x) == {j \in DOMAIN after : after[j].part = x.part /\ after[j].by = x.by}
         IN  /\ Len(after) = Len(before)
             /\ \A i \in 1 .. Len(before) : Place(before[i]) # {}
             /\ \A i, j \in 1 .. Len(before) :
                  i < j /\ ~Freely(before[i], before[j]) =>
                    \E k \in Place(before[i]), l \in Place(before[j]) : k < l
<1> DEFINE after == Said(c)
           h == HeardIn(c)
           Place(x) == {j \in DOMAIN after : after[j].part = x.part /\ after[j].by = x.by}
<1>1. /\ Len(after) = Len(h) /\ \A j \in 1 .. Len(h) : Fits(after[j], h[j])
      /\ after \in Seq(Statements)
  BY SaidIsHeard DEF Alike
<1>2. DOMAIN after = 1 .. Len(h)
  BY <1>1, LenProperties
<1>3. PICK f : KeptBy(f, before, h)
  BY DEF KeptIn
<1>4. Len(h) = Len(before)
  BY DEF KeptIn
<1> HIDE DEF after, h
<1>5. ASSUME NEW i \in 1 .. Len(before) PROVE f[i] \in Place(before[i])
  <2>1. f[i] \in 1 .. Len(h) /\ Fits(before[i], h[f[i]])
    BY <1>3 DEF KeptBy
  <2>2. Fits(after[f[i]], h[f[i]])
    BY <1>1, <2>1
  <2> QED BY <1>2, <2>1, <2>2 DEF Fits
<1>6. \A i, j \in 1 .. Len(before) : i < j /\ ~Freely(before[i], before[j]) => f[i] < f[j]
  BY <1>3 DEF KeptBy
<1> HIDE DEF Place
<1>7. \A i, j \in 1 .. Len(before) : i < j /\ ~Freely(before[i], before[j]) =>
         \E k \in Place(before[i]), l \in Place(before[j]) : k < l
  BY <1>5, <1>6
<1>8. \A i \in 1 .. Len(before) : Place(before[i]) # {}
  BY <1>5
<1> QED BY <1>1, <1>4, <1>7, <1>8 DEF after, Place

---------------------------------------------------------------------------
(* What a request holds beside its conversation.                           *)

\* What an inspection lets a converter see.
Convertible(dialect) ==
  CASE dialect = "chat" ->
         {"stream", "tools", "tool_key", "tool_strict", "tool_blank", "tool_bignum", "sampling",
          "parallel_off", "format_other", "message_field", "empty_message", "text_field",
          "call_field", "call_bignum"}
    [] dialect = "responses" ->
         {"stream", "tools", "tool_strict", "tool_choice_auto", "metadata", "verbosity", "sampling",
          "system", "user", "parallel_off", "refusal", "annotations", "item_text", "format_other",
          "item_field", "role_other", "roleless", "empty_message", "text_field", "call_bignum",
          "result_blocks", "tool_blank", "tool_bignum"}
    [] dialect = "messages" ->
         {"stream", "tools", "tool_cache", "thinking_other", "sampling", "system", "role_other",
          "is_error", "message_field", "empty_message", "text_field", "call_field", "call_bignum",
          "result_blocks", "tool_strict", "tool_field", "tool_bignum"}

LEMMA InspectedIs ==
  ASSUME NEW d \in Dialects3, NEW o, NEW c, o \subseteq Fragments(d), ~SeenIn(d, o, c).refused,
         ~SeenIn(d, o, c).native, SeenIn(d, o, c).features \subseteq {"tools", "streaming"}
  PROVE  o \subseteq Convertible(d)
<1>1. ASSUME NEW S, ~Holds(o, S) PROVE o \cap S = {}
  BY <1>1 DEF Holds
<1>2. ASSUME NEW x, NEW S, Given(x, Holds(o, S)) \subseteq {"tools", "streaming"},
             x \notin {"tools", "streaming"}
      PROVE  o \cap S = {}
  BY <1>2 DEF Given, Holds
<1>3. ASSUME NEW x, NEW f, Given(x, f \in o) \subseteq {"tools", "streaming"},
             x \notin {"tools", "streaming"}
      PROVE  f \notin o
  BY <1>3 DEF Given
<1>4. CASE d = "chat"
  <2> DEFINE seen == InspectChatRequest(o, c)
  <2>1. ~seen.refused /\ ~seen.native /\ seen.features \subseteq {"tools", "streaming"}
    BY <1>4 DEF SeenIn
  <2>2. ~Holds(o, {"bad_model", "bad_stream", "bad_task", "both_max_tokens", "bad_effort"}
                     \cup ParseChatTools \cup MarkChatNonConvertibleFields.refused
                     \cup InspectChatResponseFormat.refused \cup ParseChatMessages
                     \cup ParseChatContent \cup ValidateChatToolCall)
    BY <2>1 DEF InspectChatRequest
  <2>3. ~Holds(o, HasNonFunctionTools \cup HasUnknownChatFunctionToolFields
                     \cup MarkChatNonConvertibleFields.native \cup UnknownChatKeys
                     \cup {"tool_choice", "metadata", "role_other", "content_other"})
    BY <2>1 DEF InspectChatRequest
  <2>4. /\ Given("audio", Holds(o, {"audio_out", "audio"})) \subseteq {"tools", "streaming"}
        /\ Given("structured_output", Holds(o, InspectChatResponseFormat.structured))
             \subseteq {"tools", "streaming"}
        /\ Given("reasoning", "reasoning" \in o) \subseteq {"tools", "streaming"}
        /\ Given("vision", "image" \in o) \subseteq {"tools", "streaming"}
        /\ Given("cache_control", Holds(o, HasCacheControl)) \subseteq {"tools", "streaming"}
    BY <2>1 DEF InspectChatRequest
  <2>5. /\ o \cap {"audio_out", "audio"} = {} /\ o \cap InspectChatResponseFormat.structured = {}
        /\ "reasoning" \notin o /\ "image" \notin o /\ o \cap HasCacheControl = {}
    BY <1>2, <1>3, <2>4
  <2>6. o \subseteq InChat
    BY <1>4 DEF Fragments
  <2>7. ASSUME NEW f \in o PROVE f \in Convertible("chat")
    BY <1>1, <2>2, <2>3, <2>5, <2>6, <2>7
      DEF InChat, Convertible, ParseChatTools, MarkChatNonConvertibleFields,
          InspectChatResponseFormat, ParseChatMessages, ParseChatContent, ValidateChatToolCall,
          HasNonFunctionTools, HasUnknownChatFunctionToolFields, UnknownChatKeys, HasCacheControl
  <2> QED BY <1>4, <2>7
<1>5. CASE d = "responses"
  <2> DEFINE seen == InspectResponsesRequest(o, c)
             item == InspectResponsesInputItem
             content == InspectResponsesMessageContent
  <2>1. ~seen.refused /\ ~seen.native /\ seen.features \subseteq {"tools", "streaming"}
    BY <1>5 DEF SeenIn
  <2>2. ~Holds(o, {"bad_model", "bad_stream", "stateful", "bad_metadata", "bad_effort"}
                     \cup ParseResponsesTools \cup ResponsesToolChoiceConvertible.refused
                     \cup ValidateResponsesResponseFormat \cup InspectResponsesInput
                     \cup item.refused \cup content.refused)
    BY <2>1 DEF InspectResponsesRequest
  <2>3. ~Holds(o, HasNonFunctionResponsesTools
                     \cup HasUnknownResponsesFunctionToolFields
                     \cup ({"tool_choice", "tool_choice_auto"}
                             \ ResponsesToolChoiceConvertible.convertible)
                     \cup item.native \cup content.native
                     \cup {"parallel_on", "truncation", "unknown"})
    BY <2>1 DEF InspectResponsesRequest
  <2>4. /\ Given("reasoning", "reasoning" \in o) \subseteq {"tools", "streaming"}
        /\ Given("structured_output", Holds(o, HasStructuredOutput)) \subseteq {"tools", "streaming"}
        /\ Given("vision", Holds(o, item.vision \cup content.vision)) \subseteq {"tools", "streaming"}
        /\ Given("audio", Holds(o, item.audio \cup content.audio)) \subseteq {"tools", "streaming"}
        /\ Given("document", Holds(o, item.document \cup content.document))
             \subseteq {"tools", "streaming"}
        /\ Given("cache_control", Holds(o, HasCacheControl)) \subseteq {"tools", "streaming"}
    BY <2>1 DEF InspectResponsesRequest
  <2>5. /\ "reasoning" \notin o /\ o \cap HasStructuredOutput = {}
        /\ o \cap (item.vision \cup content.vision) = {}
        /\ o \cap (item.audio \cup content.audio) = {}
        /\ o \cap (item.document \cup content.document) = {} /\ o \cap HasCacheControl = {}
    <3> HIDE DEF item, content
    <3> QED BY <1>2, <1>3, <2>4
  <2>6. o \subseteq InResponses
    BY <1>5 DEF Fragments
  <2>7. ASSUME NEW f \in o PROVE f \in Convertible("responses")
    BY <1>1, <2>2, <2>3, <2>5, <2>6, <2>7
      DEF InResponses, Convertible, ParseResponsesTools, ResponsesToolChoiceConvertible,
          ValidateResponsesResponseFormat, InspectResponsesInput, InspectResponsesInputItem,
          InspectResponsesMessageContent, HasNonFunctionResponsesTools,
          HasUnknownResponsesFunctionToolFields, HasStructuredOutput, HasCacheControl
  <2> QED BY <1>5, <2>7
<1>6. CASE d = "messages"
  <2> DEFINE seen == InspectMessagesRequest(o, c)
             content == InspectMessagesContent
  <2>1. ~seen.refused /\ ~seen.native /\ seen.features \subseteq {"tools", "streaming"}
    BY <1>6 DEF SeenIn
  <2>2. ~Holds(o, {"bad_model", "bad_stream", "bad_stop"}
                     \cup ParseMessagesTools \cup InspectMessagesSystem.refused
                     \cup InspectMessagesMessages \cup content.refused)
    BY <2>1 DEF InspectMessagesRequest
  <2>3. ~Holds(o, HasNonFunctionMessagesTools \cup InspectMessagesSystem.native
                     \cup content.native
                     \cup {"tool_choice", "metadata", "stop", "unknown"})
    BY <2>1 DEF InspectMessagesRequest
  <2>4. /\ Given("reasoning", Holds(o, {"thinking", "reasoning"} \cup content.reasoning))
             \subseteq {"tools", "streaming"}
        /\ Given("vision", Holds(o, content.vision)) \subseteq {"tools", "streaming"}
        /\ Given("audio", Holds(o, content.audio)) \subseteq {"tools", "streaming"}
        /\ Given("document", Holds(o, content.document)) \subseteq {"tools", "streaming"}
        /\ Given("cache_control", Holds(o, HasCacheControl)) \subseteq {"tools", "streaming"}
    BY <2>1 DEF InspectMessagesRequest
  <2>5. /\ o \cap ({"thinking", "reasoning"} \cup content.reasoning) = {}
        /\ o \cap content.vision = {} /\ o \cap content.audio = {}
        /\ o \cap content.document = {} /\ o \cap HasCacheControl = {}
    <3> HIDE DEF content
    <3> QED BY <1>2, <2>4
  <2>6. o \subseteq InMessages
    BY <1>6 DEF Fragments
  <2>7. ASSUME NEW f \in o PROVE f \in Convertible("messages")
    BY <1>1, <2>2, <2>3, <2>5, <2>6, <2>7
      DEF InMessages, Convertible, ParseMessagesTools, InspectMessagesSystem,
          InspectMessagesMessages, InspectMessagesContent, HasNonFunctionMessagesTools,
          HasCacheControl
  <2> QED BY <1>6, <2>7
<1> QED BY <1>4, <1>5, <1>6 DEF Dialects3

\* Of what it is let to see, a converter loses what is known to be lost.
LEMMA OptionsConverted ==
  ASSUME NEW from \in Dialects3, NEW to \in Dialects3, from # to, NEW b,
         b.options \subseteq Convertible(from),
         b.conv \in Seq(SpokenMessages), from = "responses" => b.conv \in Seq(ItemMessages),
         NEW body \in ConvertRequest(from, to, b), NEW f \in b.options
  PROVE  f \notin KnownLosses(from, to) <=>
           f \in body.options \/ (f = "system" /\ Head(body.conv) = Developer)
<1>1. ASSUME NEW o, NEW x \in MessagesToResponsesRequest(o)
      PROVE  /\ x.options = o.options \cap {"system", "metadata", "sampling", "reasoning", "stream",
                                           "tools", "tool_bignum"}
             /\ x.conv = MessagesToResponsesInput(o.conv) /\ "role_other" \notin o.options
  BY <1>1 DEF MessagesToResponsesRequest, Unless, Body, AnthropicToolsToResponses, JsonArguments,
    WrapToolOutput, Holds
<1>2. ASSUME NEW o, NEW x \in ChatToResponsesRequest(o)
      PROVE  /\ x.options = o.options \cap {"metadata", "user", "tool_choice", "parallel_on", "parallel_off",
                         "sampling", "reasoning", "stream", "tools", "tool_strict", "call_bignum"}
             /\ x.conv \in ChatMessagesToResponses(o.conv)
             /\ "tool_key" \notin o.options /\ "tool_blank" \notin o.options
  BY <1>2 DEF ChatToResponsesRequest, Body, ChatToolsToResponses, Holds
<1>3. ASSUME NEW o, NEW x \in ResponsesToMessagesRequest(o)
      PROVE  /\ x.options = o.options \cap {"system", "metadata", "sampling", "reasoning", "stream",
                                           "tools", "tool_bignum", "tool_choice_auto", "role_other",
                                           "call_bignum"}
             /\ "refusal" \notin o.options /\ "annotations" \notin o.options /\ "item_text" \notin o.options
  BY <1>3 DEF ResponsesToMessagesRequest, Unless, Body, ResponsesToolsToAnthropic,
    ResponsesToolChoiceToAnthropic, ResponsesContentToMessagesBlocks, OtherItems, WrapToolOutput, Holds
<1>4. ASSUME NEW o, NEW x \in ResponsesToChatRequest(o)
      PROVE  /\ x.options = o.options \cap {"metadata", "user", "tool_choice", "tool_choice_auto", "parallel_on",
                           "parallel_off", "sampling", "reasoning", "stream", "tools", "tool_strict",
                           "call_bignum", "empty_message"}
             /\ x.conv \in ResponsesInputToChat(o.conv, "system" \in o.options)
             /\ "refusal" \notin o.options /\ "annotations" \notin o.options /\ "item_text" \notin o.options
             /\ "role_other" \notin o.options /\ "roleless" \notin o.options
             /\ "result_blocks" \notin o.options /\ "tool_blank" \notin o.options
  BY <1>4 DEF ResponsesToChatRequest, Body, ResponsesToolsToChat, ResponsesTextContent, OtherItems, Holds
<1>5. ASSUME NEW o, o.conv \in Seq(ItemMessages), NEW x \in ResponsesToChatRequest(o), "system" \in o.options
      PROVE  Head(x.conv) = Developer
  <2>1. x.conv \in ResponsesInputToChat(o.conv, TRUE)
    BY <1>4, <1>5
  <2> QED BY <1>5, <2>1, ToChatKept
<1>6. CASE from = "messages" /\ to = "responses"
  <2>1. body \in MessagesToResponsesRequest(b)
    BY <1>6 DEF ConvertRequest
  <2> QED BY <1>1, <1>6, <2>1 DEF Convertible, KnownLosses
<1>7. CASE from = "chat" /\ to = "responses"
  <2>1. body \in ChatToResponsesRequest(b)
    BY <1>7 DEF ConvertRequest
  <2> QED BY <1>2, <1>7, <2>1 DEF Convertible, KnownLosses, LostToMessages
<1>8. CASE from = "responses" /\ to = "messages"
  <2>1. body \in ResponsesToMessagesRequest(b)
    BY <1>8 DEF ConvertRequest
  <2> QED BY <1>3, <1>8, <2>1 DEF Convertible, KnownLosses, LostToMessages
<1>9. CASE from = "responses" /\ to = "chat"
  <2>1. body \in ResponsesToChatRequest(b)
    BY <1>9 DEF ConvertRequest
  <2>2. f = "system" => Head(body.conv) = Developer
    BY <1>5, <1>9, <2>1
  <2> QED BY <1>4, <1>9, <2>1, <2>2 DEF Convertible, KnownLosses
<1>10. CASE from = "chat" /\ to = "messages"
  <2>1. PICK o \in ChatToResponsesRequest(b) : body \in ResponsesToMessagesRequest(o)
    BY <1>10 DEF ConvertRequest
  <2> QED BY <1>2, <1>3, <1>10, <2>1 DEF Convertible, KnownLosses, LostToMessages
<1>11. CASE from = "messages" /\ to = "chat"
  <2>1. PICK o \in MessagesToResponsesRequest(b) : body \in ResponsesToChatRequest(o)
    BY <1>11 DEF ConvertRequest
  <2>2. o.conv \in Seq(ItemMessages)
    BY <1>1, <2>1, ToResponsesKept
  <2>3. f = "system" => Head(body.conv) = Developer
    BY <1>1, <1>5, <2>1, <2>2
  <2> QED BY <1>1, <1>4, <1>11, <2>1, <2>3 DEF Convertible, KnownLosses
<1> QED BY <1>6, <1>7, <1>8, <1>9, <1>10, <1>11 DEF Dialects3

---------------------------------------------------------------------------
(* Only what a converter can carry is converted.                           *)

\* Candidates whose dialect has a place for all of the request.
FitCands ==
  {c \in AnyCandidate(draft.dialect) :
     c.to # draft.dialect => ~query.native /\ query.features \subseteq {"tools", "streaming"}}

FitInv == stage \in Attempting => cands \in Seq(FitCands)

LEMMA FitStep == ASSUME PathInv, FitInv, [PathNext]_pathVars PROVE FitInv'
<1> SUFFICES ASSUME stage' \in Attempting PROVE cands' \in Seq(FitCands')
  BY DEF FitInv
<1>1. stage = "match" => \A open : Found(open).error = "" => Found(open).candidates \in Seq(FitCands)
  <2> SUFFICES ASSUME stage = "match", NEW open, Found(open).error = ""
               PROVE  Found(open).candidates \in Seq(FitCands)
    OBVIOUS
  <2>1. draft.dialect = query.dialect /\ query.inspected = (query.dialect # "openai")
    BY DEF PathInv, QueryInv, Routing, Querying
  <2>2. \A r \in FindModelRule(read.rules) : \A t \in ToSet(r.targets) :
          \A d \in Reach(query.dialect) : MakeCandidate(t, d) \in AnyCandidate(draft.dialect)
    BY <2>1, TargetsKnown
  <2>3. \A r \in FindModelRule(read.rules) : \A t \in ToSet(r.targets) :
          Considered(t, read.providers, open) =>
            \A d \in Reach(query.dialect) :
              Carries(query, Capabilities, t, d) => MakeCandidate(t, d) \in FitCands
    <3> SUFFICES ASSUME NEW r \in FindModelRule(read.rules), NEW t \in ToSet(r.targets),
                        NEW d \in Reach(query.dialect), Carries(query, Capabilities, t, d)
                 PROVE  MakeCandidate(t, d) \in FitCands
      OBVIOUS
    <3>1. MakeCandidate(t, d) \in AnyCandidate(draft.dialect) /\ MakeCandidate(t, d).to = d
      BY <2>2 DEF MakeCandidate
    <3>2. ASSUME d # query.dialect
          PROVE  ~query.native /\ query.features \subseteq {"tools", "streaming"}
      <4>1. PreservesTextTools(query)
        BY <3>2 DEF Carries, EdgeSupportsRequest
      <4>2. query.dialect # "openai"
        BY <3>2 DEF Reach, Dialects3
      <4> QED BY <2>1, <4>1, <4>2 DEF PreservesTextTools
    <3> QED BY <2>1, <3>1, <3>2 DEF FitCands
  <2> QED BY <2>3, FoundAmong
<1>2. cands' \in Seq(FitCands) /\ UNCHANGED <<draft, query>>
  BY <1>1, CandsStep DEF FitInv
<1>3. FitCands' = FitCands
  BY <1>2 DEF FitCands, AnyCandidate
<1> QED BY <1>2, <1>3

\* What is sent then carries the client's request.
LEMMA RequestHolds == PathInv /\ FitInv => RequestKept
<1> SUFFICES ASSUME PathInv, FitInv, stage = "sent", Head(cands).to # draft.dialect
             PROVE  OptionsKept /\ ConversationKept
  BY DEF RequestKept, Converted
<1> DEFINE d == draft.dialect
           to == Head(cands).to
           o == draft.options
           c == draft.conv
           body == SentBody
<1>1. stage \in Attempting
  BY DEF Attempting
<1>2. Head(cands) \in FitCands
  <2>1. cands \in Seq(FitCands) /\ cands # <<>>
    BY <1>1 DEF FitInv, PathInv, CandsInv
  <2> QED BY <2>1, HeadTail
<1>3. ~query.native /\ query.features \subseteq {"tools", "streaming"}
  BY <1>2 DEF FitCands
<1>4. d \in Dialects3 /\ to \in Dialects3 /\ d # to
  <2>1. to \in Reach(d)
    BY <1>2 DEF FitCands, AnyCandidate, MakeCandidate
  <2> QED BY <2>1 DEF Reach
<1>5. /\ ~SeenIn(d, o, c).refused /\ ~SeenIn(d, o, c).native
      /\ SeenIn(d, o, c).features \subseteq {"tools", "streaming"}
  BY <1>1, <1>3, <1>4 DEF PathInv, QueryInv
<1>6. /\ o \subseteq Fragments(d) /\ c \in Seq(SpokenMessages) /\ (d = "responses" => c \in Seq(ItemMessages))
  BY DEF PathInv, DraftInv, IsDraft, WellShaped
<1>7. o \subseteq Convertible(d)
  BY <1>4, <1>5, <1>6, InspectedIs
<1>8. body \in ConvertRequest(d, to, Outbound)
  <2>1. sent = ConvertRequest(d, to, Outbound) /\ sent # {}
    BY DEF PathInv, CandsInv, Prepared
  <2> QED BY <2>1 DEF SentBody
<1>9. Outbound.options = o /\ Outbound.conv = c
  BY DEF Outbound, Body
<1> HIDE DEF d, to, o, c, body
<1>10. OptionsKept
  <2>1. \A f \in o : f \notin KnownLosses(d, to) <=>
                     f \in body.options \/ (f = "system" /\ Head(body.conv) = Developer)
    BY <1>4, <1>6, <1>7, <1>8, <1>9, OptionsConverted
  <2> QED BY <2>1 DEF OptionsKept, d, to, o, body
<1>11. ConversationKept
  <2> DEFINE aside == SetAside(body.conv, Developer)
             before == Said(c)
             after == Said(aside)
             Place(x) == {j \in DOMAIN after : after[j].part = x.part /\ after[j].by = x.by}
  <2>1. aside \in Seq(RequestMessages) /\ KeptIn(before, HeardIn(aside))
    BY <1>4, <1>6, <1>8, <1>9, ConvertedKept
  <2>2. c \in Seq(RequestMessages)
    <3>1. SpokenMessages \subseteq RequestMessages
      BY DEF SpokenMessages
    <3> QED BY <1>6, <3>1, SeqMonotonic
  <2>3. DOMAIN before = 1 .. Len(before)
    BY <2>2, SaidIsHeard, LenProperties
  <2>4. /\ Len(after) = Len(before)
        /\ \A i \in 1 .. Len(before) : Place(before[i]) # {}
        /\ \A i, j \in 1 .. Len(before) :
             i < j /\ ~Freely(before[i], before[j]) =>
               \E k \in Place(before[i]), l \in Place(before[j]) : k < l
    <3> HIDE DEF aside, before
    <3> QED BY <2>1, KeptIsKept
  <2>5. /\ Len(after) = Len(before)
        /\ \A i \in DOMAIN before : Place(before[i]) # {}
        /\ \A i, j \in DOMAIN before :
             i < j /\ ~(/\ before[i].message = before[j].message
                       /\ before[i].part.kind # before[j].part.kind) =>
               \E k \in Place(before[i]), l \in Place(before[j]) : k < l
    <3> HIDE DEF before, after, Place
    <3> QED BY <2>3, <2>4 DEF Freely
  <2> QED BY ONLY <2>5 DEF ConversationKept, c, body
<1> QED BY <1>10, <1>11

---------------------------------------------------------------------------
(* Process: the rules and the comparison are parts of it, and every other  *)
(* part leaves them at rest.                                               *)

RulesParts == BookInv /\ PlanInv

LEMMA PartsStart == ProcessInit => RulesParts
BY BookStarts, PlanStarts DEF ProcessInit, RulesParts

\* No other part touches them.
LEMMA PartsStep == RulesParts /\ [ProcessNext]_processVars => RulesParts'
<1> SUFFICES ASSUME RulesParts, [ProcessNext]_processVars PROVE RulesParts'
  OBVIOUS
<1>1. BookNext \/ UNCHANGED bookVars
  BY DEF ProcessNext, InRequest, InSettings, InMetrics, InRules, InPlan, processVars
<1>2. PlanNext \/ UNCHANGED planVars
  BY DEF ProcessNext, InRequest, InSettings, InMetrics, InRules, InPlan, processVars
<1> QED BY <1>1, <1>2, BookStep, PlanStep DEF RulesParts

\* Both hold of the whole process, whatever else goes on in it.
THEOREM RulesAreHonest == ProcessSpec => []RulesHonest
<1>1. ProcessSpec => []RulesParts
  BY PartsStart, PartsStep, PTL DEF ProcessSpec
<1>2. RulesParts => RulesHonest
  BY BookHolds, PlanHolds DEF RulesParts, RulesHonest
<1> QED BY <1>1, <1>2, PTL

---------------------------------------------------------------------------
(* The parts of the process.                                               *)

\* A reply's dialects are not chosen before it starts.
NotStarted == stage # "relay" => RelayBetween("chat", "chat")

LEMMA PathNeverRelays == PathNext => stage # "relay" /\ stage' # "relay"
<1> SUFFICES ASSUME PathNext PROVE stage # "relay" /\ stage' # "relay"
  OBVIOUS
<1>1. CASE AddFragment \/ AddPart
  BY <1>1 DEF AddFragment, AddPart
<1>2. CASE Unauthorized \/ Unreadable
  BY <1>2 DEF Unauthorized, Unreadable, Respond
<1>3. ASSUME NEW d, NEW seen, Handle(d, seen) PROVE stage # "relay" /\ stage' # "relay"
  BY <1>3 DEF Handle, Respond
<1>4. CASE \/ HandleChatCompletions \/ HandleResponses \/ HandleMessages \/ HandleGemini
           \/ HandleEmbeddings \/ HandleOpenAI
  BY <1>3, <1>4 DEF HandleChatCompletions, HandleResponses, HandleMessages, HandleGemini,
    HandleEmbeddings, HandleOpenAI
<1>5. ASSUME NEW from, NEW to, NEW name, NEW value, Advance(from, to, name, value),
             from # "relay", to # "relay"
      PROVE  stage # "relay" /\ stage' # "relay"
  BY <1>5 DEF Advance, Respond
<1>6. CASE ReadRules \/ ReadProviderRows \/ ReadProviders \/ ReadModelRows
  BY <1>5, <1>6 DEF ReadRules, ReadProviderRows, ReadProviders, ReadModelRows
<1>7. CASE Match
  <2>1. ASSUME NEW routed, NEW open, Try(routed, open) PROVE stage' # "relay"
    BY <2>1 DEF Try, Respond
  <2> QED BY <1>7, <2>1 DEF Match, Respond
<1>8. CASE PrepareAttempt \/ AttemptFails
  BY <1>8 DEF PrepareAttempt, AttemptFails, NextCandidate, Respond
<1>9. CASE ReplyArrives \/ Deliver \/ Edit
  BY <1>9 DEF ReplyArrives, Deliver, Edit
<1> QED BY <1>1, <1>2, <1>4, <1>6, <1>7, <1>8, <1>9 DEF PathNext

\* Whatever the dialects, the converters of a reply that has not begun are new.
LEMMA ReplyBetween ==
  (\E u, c \in Dialects : RelayBetween(u, c)) => RelayInv
BY ReplyStarts

\* The request, when its reply begins, gives it its dialects.
LEMMA HandsOver == HandOver /\ RelayBetween("chat", "chat") => (\E u, c \in Dialects : RelayBetween(u, c))'
<1> SUFFICES ASSUME HandOver, RelayBetween("chat", "chat")
             PROVE  \E u, c \in Dialects : RelayBetween(u, c)'
  OBVIOUS
<1>1. PICK u \in Dialects, c \in Dialects : u = Head(cands).to /\ c = draft.dialect
  BY StreamRelayAssumption DEF HandOver
<1>2. /\ up' = u /\ client' = c /\ conv' = Converters(u, c)
      /\ src' = [stage |-> "start", items |-> <<>>, open |-> FALSE, tokens |-> 0,
                 whole |-> FALSE, usage |-> FALSE, short |-> FALSE]
      /\ begun' = FALSE /\ unread' = <<>> /\ pending' = <<>> /\ committed' = FALSE /\ acc' = NewAccumulator
      /\ got' = <<>> /\ failure' = "" /\ verdict' = ""
  BY <1>1 DEF HandOver, RelayBetween
<1>3. RelayBetween(u, c)'
  BY <1>2 DEF RelayBetween
<1> QED BY <1>1, <1>3

\* The reply's invariant holds before the reply starts too.
LEMMA RelayPart == RelayInv /\ NotStarted /\ [GatewayNext]_gatewayVars => RelayInv' /\ NotStarted'
<1>1. ASSUME NotStarted, RequestStep PROVE UNCHANGED vars /\ NotStarted'
  <2>1. RelayBetween("chat", "chat") /\ UNCHANGED vars
    BY <1>1, PathNeverRelays DEF RequestStep, NotStarted
  <2> QED BY <2>1 DEF NotStarted, RelayBetween, vars
<1>2. ASSUME NotStarted, HandOver
      PROVE  (\E u, c \in Dialects : RelayBetween(u, c))' /\ NotStarted'
  BY <1>2, HandsOver DEF HandOver, NotStarted
<1>3. ASSUME NotStarted, RelayStep PROVE Next /\ NotStarted'
  BY <1>3 DEF RelayStep, NotStarted, pathVars
<1>4. ASSUME NotStarted, UNCHANGED gatewayVars PROVE UNCHANGED vars /\ NotStarted'
  BY <1>4 DEF gatewayVars, NotStarted, RelayBetween, vars, pathVars
<1> QED BY <1>1, <1>2, <1>3, <1>4, NextIInv, ReplyBetween, PTL DEF GatewayNext

\* So does what the client has been told.
LEMMA NothingTold == (\E u, c \in Dialects : RelayBetween(u, c)) => TellInv
BY ReplyTells

LEMMA TellPart ==
  RelayInv /\ TellInv /\ NotStarted /\ [GatewayNext]_gatewayVars => TellInv'
<1>1. ASSUME NotStarted, RequestStep PROVE UNCHANGED vars
  BY <1>1, PathNeverRelays DEF RequestStep, NotStarted
<1>2. ASSUME NotStarted, HandOver
      PROVE  (\E u, c \in Dialects : RelayBetween(u, c))'
  BY <1>2, HandsOver DEF HandOver, NotStarted
<1>3. ASSUME RelayStep PROVE Next
  BY <1>3 DEF RelayStep
<1>4. ASSUME UNCHANGED gatewayVars PROVE UNCHANGED vars
  BY <1>4 DEF gatewayVars
<1> QED BY <1>1, <1>2, <1>3, <1>4, NextTells, NothingTold, PTL DEF GatewayNext

PathParts == PathInv /\ ServedInv /\ FitInv /\ ReplyKept

\* The request's invariant holds on when its reply is streamed.
LEMMA PathPart == PathParts /\ [GatewayNext]_gatewayVars => PathParts'
<1> SUFFICES ASSUME PathParts, [GatewayNext]_gatewayVars PROVE PathParts'
  OBVIOUS
<1>1. ASSUME [PathNext]_pathVars PROVE PathParts'
  BY <1>1, PathStep, ServedStep, FitStep, ReplyStep DEF PathParts
<1>2. CASE RequestStep
  BY <1>1, <1>2 DEF RequestStep
<1>3. CASE HandOver
  <2>1. PathInv'
    BY <1>3, HandOverStep DEF PathParts
  <2>2. stage' = "relay" /\ answer' = answer
    BY <1>3 DEF HandOver
  <2>3. ServedInv' /\ FitInv' /\ ReplyKept'
    BY <2>2 DEF PathParts, ServedInv, FitInv, Attempting, ReplyKept
  <2> QED BY <2>1, <2>3 DEF PathParts
<1>4. CASE RelayStep
  BY <1>1, <1>4 DEF RelayStep
<1>5. CASE UNCHANGED gatewayVars
  BY <1>1, <1>5 DEF gatewayVars
<1> QED BY <1>2, <1>3, <1>4, <1>5 DEF GatewayNext

ProcessInv == LifeInv /\ MetricInv /\ RelayInv /\ TellInv /\ NotStarted /\ PathParts

LEMMA ProcessStarts == ProcessInit => ProcessInv
<1>1. ProcessInit => RelayInv /\ TellInv /\ NotStarted
  BY ReplyStarts, ReplyTells DEF ProcessInit, GatewayInit, NotStarted, Dialects
<1>2. ProcessInit => LifeInit /\ MetricInit /\ PathInit
  BY DEF ProcessInit, GatewayInit
<1>3. PathInit => PathParts
  <2>1. NoAnswer.kind # "reply"
    BY DEF NoAnswer
  <2>2. PathInit => stage = "draft" /\ answer = NoAnswer
    BY DEF PathInit
  <2>3. PathInit => ServedInv /\ FitInv /\ ReplyKept
    BY <2>1, <2>2 DEF ServedInv, FitInv, Attempting, ReplyKept
  <2> QED BY <2>3, PathStarts DEF PathParts
<1> QED BY <1>1, <1>2, <1>3, LifeStarts, MetricStarts DEF ProcessInv

LEMMA ProcessSteps == ProcessInv /\ [ProcessNext]_processVars => ProcessInv'
<1> SUFFICES ASSUME ProcessInv, [ProcessNext]_processVars PROVE ProcessInv'
  OBVIOUS
<1>1. LifeNext \/ UNCHANGED lifeVars
  BY DEF ProcessNext, InRequest, InSettings, InMetrics, InRules, InPlan, processVars
<1>2. MetricNext \/ UNCHANGED metricVars
  BY DEF ProcessNext, InRequest, InSettings, InMetrics, InRules, InPlan, processVars
<1>3. GatewayNext \/ UNCHANGED gatewayVars
  BY DEF ProcessNext, InRequest, InSettings, InMetrics, InRules, InPlan, processVars
<1>4. LifeInv' /\ MetricInv' /\ RelayInv' /\ NotStarted'
  BY <1>1, <1>2, <1>3, StepKeeps, Inductive, RelayPart DEF ProcessInv
<1>5. TellInv'
  BY <1>3, TellPart DEF ProcessInv
<1>6. PathParts'
  BY <1>3, PathPart DEF ProcessInv
<1> QED BY <1>4, <1>5, <1>6 DEF ProcessInv

LEMMA ProcessKept == ProcessSpec => []ProcessInv
BY ProcessStarts, ProcessSteps, PTL DEF ProcessSpec

LEMMA RulesPartsKept == ProcessSpec => []RulesParts
BY PartsStart, PartsStep, PTL DEF ProcessSpec

\* Whatever the process does, each part's state is what its code can hold: a
\* request's dialect, options, stage, candidates and body, the calls on the
\* listener, the counters, the rules and the comparison.
THEOREM ProcessTyping == ProcessSpec => []ProcessTypeOK
<1>1. ProcessInv /\ RulesParts /\ part \in {"request", "settings", "metrics", "rules", "plan"}
        => ProcessTypeOK
  <2> SUFFICES ASSUME ProcessInv, RulesParts,
                      part \in {"request", "settings", "metrics", "rules", "plan"}
               PROVE  ProcessTypeOK
    OBVIOUS
  <2>1. PathTypeOK /\ LifeTypeOK /\ MetricTypeOK /\ BookTypeOK /\ PlanTypeOK
    BY PathTypes, LifeTyped, TypesHold, BookHolds, PlanHolds DEF ProcessInv, PathParts, RulesParts
  <2> QED BY <2>1 DEF ProcessTypeOK
<1>2. ProcessSpec => [](part \in {"request", "settings", "metrics", "rules", "plan"})
  <2>1. ProcessInit => part \in {"request", "settings", "metrics", "rules", "plan"}
    BY DEF ProcessInit
  <2>2. part \in {"request", "settings", "metrics", "rules", "plan"} /\ [ProcessNext]_processVars
          => (part \in {"request", "settings", "metrics", "rules", "plan"})'
    <3>1. [ProcessNext]_processVars => part' = part
      BY DEF ProcessNext, InRequest, InSettings, InMetrics, InRules, InPlan, processVars
    <3> QED BY <3>1
  <2> QED BY <2>1, <2>2, PTL DEF ProcessSpec
<1> QED BY <1>1, <1>2, ProcessKept, RulesPartsKept, PTL

\* The four queries of resolveCandidates: if one edit of one table at most falls
\* between them, a request goes out only to a target that was usable, spoke the
\* dialect and had the features at one moment since the request arrived.
THEOREM SentWhereServed == ASSUME OneEdit PROVE ProcessSpec => []SentWhereSupported
<1>1. ProcessInv => SentWhereSupported
  BY ServedHolds DEF ProcessInv, PathParts
<1> QED BY <1>1, ProcessKept, PTL

\* Under the same hypothesis, what the client is told when no candidate is found
\* (422, 503, or a route that is shut) was true at one moment.
THEOREM StatusTold == ASSUME OneEdit PROVE ProcessSpec => StatusHonest
<1>1. ProcessInv /\ [ProcessNext]_processVars => [SaysWhy]_pathVars
  <2> SUFFICES ASSUME ProcessInv, [ProcessNext]_processVars, pathVars' # pathVars PROVE SaysWhy
    OBVIOUS
  <2>1. GatewayNext
    BY DEF ProcessNext, InRequest, InSettings, InMetrics, InRules, InPlan, processVars, gatewayVars
  <2>2. CASE RequestStep
    BY <2>2, StepExplains DEF RequestStep, ProcessInv, PathParts
  <2>3. CASE HandOver
    BY <2>3 DEF HandOver, SaysWhy
  <2>4. CASE RelayStep
    BY <2>4 DEF RelayStep
  <2> QED BY <2>1, <2>2, <2>3, <2>4 DEF GatewayNext
<1>2. ProcessSpec => [][SaysWhy]_pathVars
  BY <1>1, ProcessKept, PTL DEF ProcessSpec
<1> QED BY <1>2 DEF StatusHonest, SaysWhy

\* Whatever pair of dialects it is converted between (PrepareAttempt, over
\* convert.go and convert_chat.go), what is sent to a provider carries all the
\* options of the client's request, the known losses apart, and its whole
\* conversation: each text, call and result once, by the same speaker, in the
\* same order but for what one message holds.
THEOREM RequestsKept == ProcessSpec => []RequestKept
<1>1. ProcessInv => RequestKept
  BY RequestHolds DEF ProcessInv, PathParts
<1> QED BY <1>1, ProcessKept, PTL

\* A buffered reply that is converted back holds the provider's texts and calls,
\* each kind in its order, and does not turn one that was cut off or failed into
\* a complete one (copyBufferedResponse, over each pair of converters).
THEOREM RepliesKept == ProcessSpec => []ReplyKept
<1>1. ProcessInv => ReplyKept
  BY DEF ProcessInv, PathParts
<1> QED BY <1>1, ProcessKept, PTL

\* What is proved of a component alone holds in the process: the listener serves
\* what a call reported, the counters count what was heard, a stream is judged
\* by what it held, its header goes with its first output, and the client is told
\* a legal stream, and the upstream's text and calls in it.
THEOREM PartsHold ==
  ProcessSpec => [](/\ ListenerHonest /\ CountsKept
                    /\ VerdictJust /\ CommitMeansOutput
                    /\ ClientStreamLegal /\ DeliveredAsSent)
<1>1. ProcessInv => ListenerHonest /\ CountsKept /\ VerdictJust /\ CommitMeansOutput
  BY LifeHonest, CountsHold, RelayCommits DEF ProcessInv, RelayInv
<1>2. ProcessInv => ClientStreamLegal /\ DeliveredAsSent
  BY LegalForClient, DeliversToClient DEF ProcessInv
<1> QED BY <1>1, <1>2, ProcessKept, PTL
=============================================================================
