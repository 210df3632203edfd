------------------------------- MODULE Process -------------------------------
(***************************************************************************)
(* The process around the gateway.  What happens to a request, to the      *)
(* listener and its settings, to the runtime metrics, to the rules in the  *)
(* database and to the comparison of one in the window are systems that no *)
(* property here reads across: a behaviour is one of them, chosen at the   *)
(* start, with the others at rest.                                         *)
(***************************************************************************)
EXTENDS Gateway, Lifecycle, RuntimeMetrics, RuleBook, ShadowPlan

VARIABLE part   \* "request", "settings", "metrics", "rules" or "plan"

processVars == <<part, gatewayVars, lifeVars, metricVars, bookVars, planVars>>

\* Where a part at rest may start in several states, one of them will do.
ProcessInit ==
  /\ part \in {"request", "settings", "metrics", "rules", "plan"}
  /\ GatewayInit /\ LifeInit /\ MetricInit /\ BookInit /\ PlanInit
  /\ part # "request" => draft = Blank("chat")
  /\ part # "settings" => stored = CHOOSE s \in Settings : TRUE
  /\ part # "plan" => ruleOn /\ strategy = CHOOSE s \in Strategies : TRUE

InRequest ==
  part = "request" /\ GatewayNext /\ UNCHANGED <<part, lifeVars, metricVars, bookVars, planVars>>
InSettings ==
  part = "settings" /\ LifeNext /\ UNCHANGED <<part, gatewayVars, metricVars, bookVars, planVars>>
InMetrics ==
  part = "metrics" /\ MetricNext /\ UNCHANGED <<part, gatewayVars, lifeVars, bookVars, planVars>>
InRules ==
  part = "rules" /\ BookNext /\ UNCHANGED <<part, gatewayVars, lifeVars, metricVars, planVars>>
InPlan ==
  part = "plan" /\ PlanNext /\ UNCHANGED <<part, gatewayVars, lifeVars, metricVars, bookVars>>

ProcessNext == InRequest \/ InSettings \/ InMetrics \/ InRules \/ InPlan

ProcessSpec == ProcessInit /\ [][ProcessNext]_processVars

\* The state of each part is what its code can hold; those at rest do not move.
ProcessTypeOK ==
  CASE part = "request"  -> PathTypeOK
    [] part = "settings" -> LifeTypeOK
    [] part = "metrics"  -> MetricTypeOK
    [] part = "rules"    -> BookTypeOK
    [] part = "plan"     -> PlanTypeOK

\* The rules are kept as the operator made them (BookKept), and what the window
\* says of another strategy for one is true (PlanHonest).
RulesHonest == BookKept /\ PlanHonest
==============================================================================
