----------------------------- MODULE MCGateway -----------------------------
(***************************************************************************)
(* Three providers behind one rule: p1 speaks Messages, p2 Responses and   *)
(* Gemini but not Chat, p3 Chat only; rows of providers and of models that *)
(* agree, disagree, are switched off or are legacy.  Three settings, two of *)
(* them on the default port; three targets and the preflight key, with     *)
(* room for two; two rules under two names, and two listings of them.      *)
(***************************************************************************)
EXTENDS Process

Row(p, m, d, w, on, legacy) ==
  [provider |-> p, model |-> m, dialect |-> d, what |-> w, enabled |-> on, legacy |-> legacy]
T(p, m) == [provider |-> p, model |-> m, enabled |-> TRUE]
P(columns) == [enabled |-> TRUE, columns |-> columns]
Base ==
  [rules |-> {[enabled |-> TRUE,
               targets |-> <<T("p1", "m1"), [T("p2", "m1") EXCEPT !.enabled = FALSE],
                             T("p2", "m2"), T("p3", "m1")>>]},
   providers |-> [p \in {"p1", "p2", "p3"} |->
      CASE p = "p1" -> P({"messages"}) [] p = "p2" -> P({"responses", "gemini"}) [] OTHER -> P({})],
   providerRows |-> {Row("p2", "", "chat", "native", FALSE, FALSE),
                     Row("p1", "", "messages", "tools", FALSE, FALSE),
                     Row("p2", "", "responses", "tools", FALSE, TRUE),
                     Row("p3", "", "chat", "streaming", FALSE, FALSE)},
   modelRows |-> {Row("p1", "m1", "chat", "native", FALSE, FALSE),
                  Row("p1", "m1", "messages", "tools", TRUE, FALSE),
                  Row("p2", "m2", "responses", "native", TRUE, FALSE),
                  Row("p3", "m1", "chat", "streaming", TRUE, FALSE)}]

\* What the operator may make of it, each by one edit: the rule off, the second
\* provider deleted, the row that gives the first model tools deleted.
Confs ==
  [name \in {"base", "rule off", "p2 gone", "no tools"} |->
     CASE name = "rule off" -> [Base EXCEPT !.rules = {[r EXCEPT !.enabled = FALSE] : r \in @}]
       [] name = "p2 gone" -> [Base EXCEPT !.providers = [p \in {"p1", "p3"} |-> Base.providers[p]]]
       [] name = "no tools" -> [Base EXCEPT !.modelRows = {c \in @ : c.what # "tools"}]
       [] OTHER -> Base]

\* The default port and the wildcard; the same port, given as none, on a name;
\* another port, and no address.
Saved(port, bind, enforce) == [port |-> port, bind |-> bind, enforce |-> enforce]
Saves == {Saved(1, "0.0.0.0", "observe"), Saved(0, "localhost", "enforce"), Saved(2, "", "enforce")}

Seen(key, kind, outcome, status) ==
  [key |-> key, kind |-> kind, outcome |-> outcome, status |-> status]
Attempts ==
  {Seen(1, "attempt", "success", 200), Seen(2, "attempt", "retryable", 502),
   Seen(3, "attempt", "client_abort", 499), Seen(0, "request", "failure", 503)}

\* In two tiers: unpriced, dear and cheap, good and bad; and three that are out.
PlanTarget(tier, gate, cost, overall) ==
  [tier |-> tier, enabled |-> gate # "off", provider |-> IF gate = "provider" THEN "off" ELSE "on",
   open |-> gate = "open", cost |-> cost, overall |-> overall]
Shown ==
  {PlanTarget(0, "", 0, 1), PlanTarget(0, "", 2, 2), PlanTarget(0, "", 1, 2),
   PlanTarget(1, "", 2, 1), PlanTarget(1, "", 1, 2),
   PlanTarget(0, "off", 1, 1), PlanTarget(1, "open", 1, 2), PlanTarget(0, "provider", 1, 2)}
=============================================================================
