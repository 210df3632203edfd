----------------------------- MODULE ShadowPlan -----------------------------
(***************************************************************************)
(* The shadow of a rule's order: what the window shows of the order another *)
(* strategy would try the targets in (internal/routing/plan.go, and         *)
(* GetModelRuleShadowComparisons in internal/api/app.go).  The gateway      *)
(* itself never reads it.  A target is a record of what the plan looks at;  *)
(* its score is a number, its cost a number or Unpriced.                    *)
(***************************************************************************)
EXTENDS Naturals, SequencesExt, Ordering

CONSTANTS
  PlanTargets,   \* [tier, enabled, provider, open, cost, overall]
  Strategies,    \* what the rule's column may hold
  MaxTargets     \* bound

Unpriced == 0

ASSUME ShadowPlanAssumption ==
  /\ MaxTargets \in Nat
  /\ \A t \in PlanTargets : {t.tier, t.cost, t.overall} \subseteq Nat

VARIABLES
  ruleOn, strategy,
  targets,       \* the rule's targets, in the persisted order
  comparison     \* what the window was shown last

planVars == <<ruleOn, strategy, targets, comparison>>

NotCompared == [order |-> <<>>, moved |-> {}, rejected |-> <<>>, changed |-> FALSE]

PlanInit ==
  /\ ruleOn \in BOOLEAN /\ strategy \in Strategies
  /\ targets = <<>> /\ comparison = NotCompared

---------------------------------------------------------------------------
NormalizeStrategy ==
  IF strategy \in {"score_within_tier", "cost_first"} THEN strategy ELSE "priority_first"

\* What the handler hands to the scorer and to the planner.
Enabled(i) == ruleOn /\ targets[i].enabled
ScoreTarget(i) ==
  [available |-> Enabled(i) /\ targets[i].provider = "on" /\ ~targets[i].open,
   overall   |-> IF Enabled(i) /\ targets[i].provider = "on" /\ ~targets[i].open
                 THEN targets[i].overall ELSE 0]

\* hardReason: the gates the handler leaves open are not among them.
Eligible(i) ==
  /\ Enabled(i) /\ targets[i].provider = "on" /\ ScoreTarget(i).available
  /\ ~targets[i].open

Priced(i) == targets[i].cost # Unpriced

\* Within a tier.  A price that is unknown is never taken for free.
Preferred(i, j) ==
  CASE NormalizeStrategy = "score_within_tier" ->
         ScoreTarget(i).overall > ScoreTarget(j).overall
           \/ (ScoreTarget(i).overall = ScoreTarget(j).overall /\ i < j)
    [] NormalizeStrategy = "cost_first" ->
         \/ Priced(i) /\ ~Priced(j)
         \/ Priced(i) /\ Priced(j) /\ targets[i].cost < targets[j].cost
         \/ (Priced(i) <=> Priced(j)) /\ targets[i].cost = targets[j].cost /\ i < j
    [] OTHER -> i < j

ComesFirst(i, j) ==
  targets[i].tier < targets[j].tier \/ (targets[i].tier = targets[j].tier /\ Preferred(i, j))

Persisted(places) == Ordered(places, LAMBDA i, j : i < j)

\* BuildCandidatePlan: the places of the targets in the persisted order, and
\* those that are not where they would be had the others just been left out.
BuildCandidatePlan ==
  LET eligible == Persisted({i \in DOMAIN targets : Eligible(i)})
      order == Ordered({i \in DOMAIN targets : Eligible(i)}, ComesFirst)
      moved == {order[n] : n \in {k \in DOMAIN order : order[k] # eligible[k]}}
  IN [order |-> order, moved |-> moved,
      changed |-> Len(order) # Len(targets) \/ moved # {}]

\* The handler lists the others by gates of its own.
RejectedTargets ==
  Persisted({i \in DOMAIN targets : ~Enabled(i) \/ targets[i].provider # "on" \/ targets[i].open})

---------------------------------------------------------------------------
\* The operator edits the rule, and looks at it.  The store lists targets by
\* tier, and those of a tier by age (ListTargets in RuleBook).
AddTarget(t) ==
  /\ Len(targets) < MaxTargets
  /\ targets # <<>> => Last(targets).tier <= t.tier
  /\ targets' = Append(targets, t) /\ comparison' = NotCompared
  /\ UNCHANGED <<ruleOn, strategy>>

Compare ==
  /\ LET plan == BuildCandidatePlan IN
       comparison' = [order |-> plan.order, moved |-> plan.moved, changed |-> plan.changed,
                      rejected |-> RejectedTargets]
  /\ UNCHANGED <<ruleOn, strategy, targets>>

PlanNext == Compare \/ \E t \in PlanTargets : AddTarget(t)

PlanSpec == PlanInit /\ [][PlanNext]_planVars

---------------------------------------------------------------------------
PlanTypeOK ==
  /\ ruleOn \in BOOLEAN /\ strategy \in Strategies /\ targets \in Seq(PlanTargets)
  /\ ToSet(comparison.order) \cup ToSet(comparison.rejected) \subseteq DOMAIN targets

\* The window does not lie about the rule: every target is shown once, as a
\* candidate or as rejected; the tiers stay apart and in order; within one, a
\* target overtakes another only for a better score or a lower known price; and
\* "changed" is said exactly when the order shown is not the persisted one.
PlanHonest ==
  LET c == comparison
      n == Len(targets)
      inPlan(i) == CHOOSE k \in DOMAIN c.order : c.order[k] = i
      better(i, j) == CASE strategy = "score_within_tier" -> targets[i].overall > targets[j].overall
                        [] strategy = "cost_first" ->
                             targets[i].cost # Unpriced
                               /\ (targets[j].cost = Unpriced \/ targets[i].cost < targets[j].cost)
                        [] OTHER -> FALSE
      shown == ToSet(c.order)
  IN c # NotCompared =>
       /\ Len(c.order) + Len(c.rejected) = n
       /\ shown \cup ToSet(c.rejected) = 1 .. n
       /\ \A i, j \in shown : inPlan(i) < inPlan(j) =>
            /\ targets[i].tier <= targets[j].tier
            /\ targets[i].tier = targets[j].tier =>
                 IF i < j THEN ~better(j, i) ELSE better(i, j)
       /\ c.changed <=> c.order # [k \in 1 .. n |-> k]
       /\ c.moved = {} <=> \A i, j \in shown : inPlan(i) < inPlan(j) <=> i < j
=============================================================================
