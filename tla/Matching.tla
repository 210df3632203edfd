------------------------------ MODULE Matching ------------------------------
(***************************************************************************)
(* Which targets of a model rule can serve a request, and in which dialect *)
(* (internal/proxy/matcher.go, capability_snapshot.go).                    *)
(*                                                                         *)
(* A request is [dialect, stream, inspected, native, features, enforce]:   *)
(* what the inspection found, and whether a feature nobody wrote a row     *)
(* for is refused ("enforce") or let through.  A capability row is         *)
(* [provider, model, dialect, what, enabled, legacy]; model is "" in the   *)
(* rows of the provider, what is "native" or a feature.                    *)
(***************************************************************************)
EXTENDS Naturals, SequencesExt

---------------------------------------------------------------------------
(* The capability snapshot of a request.                                   *)

Native(rows) == {c \in rows : c.what = "native" /\ ~c.legacy}
Explicit(rows) == {c \in rows : c.what # "native" /\ ~c.legacy}

RowsFor(rows, provider, model, dialect) ==
  {c \in rows : c.provider = provider /\ c.model = model /\ c.dialect = dialect}

\* Chat and the generic endpoints are on by default, the other dialects by
\* the provider's own columns; a native row decides over both.
NewCapabilitySnapshot(rows, providers) ==
  [providers |->
     [p \in DOMAIN providers |->
        LET on(b) == {c.dialect : c \in {r \in Native(rows) : r.provider = p /\ r.enabled = b}}
        IN  (({"chat", "openai"} \cup providers[p].columns) \ on(FALSE)) \cup on(TRUE)],
   providerFeatures |-> Explicit(rows),
   models |-> {}, modelFeatures |-> {}]

WithModels(s, rows) ==
  [s EXCEPT !.models = Native(rows), !.modelFeatures = Explicit(rows)]

Supports(s, provider, dialect) ==
  provider \in DOMAIN s.providers /\ dialect \in s.providers[provider]

SupportsModel(s, provider, model, dialect) ==
  LET row == RowsFor(s.models, provider, model, dialect)
  IN  IF row # {} THEN provider \in DOMAIN s.providers /\ \E c \in row : c.enabled
      ELSE Supports(s, provider, dialect)

ModelNativeExplicitlyEnabled(s, provider, model, dialect) ==
  \E c \in RowsFor(s.models, provider, model, dialect) : c.enabled

About(rows, feature) == {c \in rows : c.what = feature}

Mutant_FeatureEnabled(s, provider, model, dialect, feature, enforce) ==
  LET ofModel == About(RowsFor(s.modelFeatures, provider, model, dialect), feature)
      ofProvider == About(RowsFor(s.providerFeatures, provider, "", dialect), feature)
  IN  IF ofProvider # {} THEN \E c \in ofProvider : c.enabled
      ELSE IF ofModel # {} THEN \E c \in ofModel : c.enabled
      ELSE feature \in {"tools", "streaming"} \/ ~enforce

\* The model's row, else the provider's, else the default.
FeatureEnabled(s, provider, model, dialect, feature, enforce) ==
  LET ofModel == About(RowsFor(s.modelFeatures, provider, model, dialect), feature)
      ofProvider == About(RowsFor(s.providerFeatures, provider, "", dialect), feature)
  IN  /\ provider \in DOMAIN s.providers
      /\ IF ofModel # {} THEN \E c \in ofModel : c.enabled
         ELSE IF ofProvider # {} THEN \E c \in ofProvider : c.enabled
         ELSE \/ feature = "tools" /\ ModelNativeExplicitlyEnabled(s, provider, model, dialect)
              \/ feature = "streaming"
              \/ ~enforce

---------------------------------------------------------------------------
(* Matching.                                                               *)

\* conversionEdges, by priority.
ConversionEdgesFor(dialect) ==
  CASE dialect = "messages"  -> <<"responses", "chat">>
    [] dialect = "responses" -> <<"messages", "chat">>
    [] dialect = "chat"      -> <<"responses", "messages">>
    [] OTHER -> <<>>

PreservesTextTools(q) ==
  ~q.inspected \/ (~q.native /\ q.features \subseteq {"tools", "streaming"})

SupportsStreamConversion(from, to) ==
  from # to /\ {from, to} \subseteq {"chat", "responses", "messages"}

NativeFeaturesSupported(q, s, t) ==
  \A f \in q.features : FeatureEnabled(s, t.provider, t.model, q.dialect, f, q.enforce)

EdgeSupportsRequest(q, edge, s, t) ==
  /\ q.stream => SupportsStreamConversion(q.dialect, edge)
  /\ PreservesTextTools(q)
  /\ \A f \in q.features : FeatureEnabled(s, t.provider, t.model, edge, f, q.enforce)

FindModelRule(rules) == {r \in rules : r.enabled}

Mutant_Considered(t, providers, open) ==
  t.enabled /\ t.provider \in DOMAIN providers /\ providers[t.provider].enabled

\* Whether the loop looks at a target: a disabled one, one whose provider is
\* gone or disabled and one whose breaker is open are skipped before the
\* features are looked at.
Considered(t, providers, open) ==
  /\ t.enabled
  /\ t.provider \in DOMAIN providers /\ providers[t.provider].enabled
  /\ t.provider \notin open

MakeCandidate(t, dialect) == [provider |-> t.provider, model |-> t.model, to |-> dialect]

\* A target is used in the client's dialect, else over the first conversion
\* that can carry the request.
Candidate(q, s, t) ==
  IF SupportsModel(s, t.provider, t.model, q.dialect) /\ NativeFeaturesSupported(q, s, t)
  THEN <<MakeCandidate(t, q.dialect)>>
  ELSE LET edge == ConversionEdgesFor(q.dialect)
           possible == {n \in DOMAIN edge : /\ SupportsModel(s, t.provider, t.model, edge[n])
                                           /\ EdgeSupportsRequest(q, edge[n], s, t)}
       IN  IF possible = {} THEN <<>>
           ELSE <<MakeCandidate(t, edge[CHOOSE n \in possible : \A m \in possible : n <= m])>>

RejectedWireRoute(q, s, t) ==
  \E d \in {q.dialect} \cup ToSet(ConversionEdgesFor(q.dialect)) :
    SupportsModel(s, t.provider, t.model, d)

\* The candidates, in the order of the rule's targets, or the error.
SelectCandidates(q, rules, providers, open, s) ==
  IF FindModelRule(rules) = {} THEN [candidates |-> <<>>, error |-> "no_matching_rule"]
  ELSE LET targets == (CHOOSE r \in FindModelRule(rules) : TRUE).targets
           out == FlattenSeq([i \in DOMAIN targets |->
                    IF Considered(targets[i], providers, open) THEN Candidate(q, s, targets[i])
                    ELSE <<>>])
       IN  [candidates |-> out,
            error |-> CASE out # <<>> -> ""
                        [] out = <<>> /\ \E t \in ToSet(targets) :
                             /\ Considered(t, providers, open)
                             /\ RejectedWireRoute(q, s, t) -> "unsupported_feature"
                        [] OTHER -> "service_unavailable"]
=============================================================================
