------------------------------ MODULE RuleBook ------------------------------
(***************************************************************************)
(* The model rules and their targets in the database                       *)
(* (internal/store/modelrules.go), and the window that edits them from a   *)
(* listing it read earlier, while the proxy counts hits and failures.      *)
(* Every write is one transaction; a refused one leaves everything as it   *)
(* was and is not an action here.  Ids of rules are UUIDs, in no order;    *)
(* those of targets stand for their rowids, which are.                     *)
(***************************************************************************)
EXTENDS Naturals, FiniteSets, SequencesExt, Ordering

CONSTANTS
  RuleIds, RuleNames,
  Times,         \* what the wall clock may say; it need not advance
  Windows,       \* listings the window may hold at once
  MaxRows,       \* bound: targets ever made
  MaxReports,    \* bound: results reported
  MaxWrites      \* bound: transactions

ASSUME RuleBookAssumption ==
  /\ IsFiniteSet(RuleIds) /\ RuleIds \subseteq Nat /\ Times \subseteq Nat
  /\ {MaxRows, MaxReports, MaxWrites} \subseteq Nat

VARIABLES
  modelRules,    \* model_rules: id -> [name, place, created]
  ruleTargets,   \* rule_targets: rowid -> [rule, tier, hits]
  view,          \* view[w]: rule ids, or [id, tier] of a rule's targets, as read
  spent,         \* [rules, rows, writes, reports]: ids given out, what is bounded
  arranged,      \* history: the rules as the operator arranged them
  asked,         \* history: the order last given to the targets of a rule
  reported       \* history: the results reported for each target

bookVars == <<modelRules, ruleTargets, view, spent, arranged, asked, reported>>

NoView == [kind |-> "", rule |-> 0, list |-> <<>>]

BookInit ==
  /\ modelRules = [r \in {} |-> 0] /\ ruleTargets = [t \in {} |-> 0]
  /\ view = [w \in Windows |-> NoView]
  /\ spent = [rules |-> {}, rows |-> 0, writes |-> 0, reports |-> 0]
  /\ arranged = <<>> /\ asked = [r \in RuleIds |-> <<>>]
  /\ reported = [t \in 1 .. MaxRows |-> 0]

---------------------------------------------------------------------------
(* Reading.                                                                *)

\* The newest and the greater id first, where the places do not decide.
ListModelRulesForDisplay ==
  Ordered(DOMAIN modelRules, LAMBDA a, b :
    \/ modelRules[a].place < modelRules[b].place
    \/ /\ modelRules[a].place = modelRules[b].place
       /\ \/ modelRules[a].created > modelRules[b].created
          \/ modelRules[a].created = modelRules[b].created /\ a > b)

TargetsOf(r) == {t \in DOMAIN ruleTargets : ruleTargets[t].rule = r}

\* By tier, then by rowid.
ListTargets(r) ==
  Ordered(TargetsOf(r), LAMBDA a, b :
    \/ ruleTargets[a].tier < ruleTargets[b].tier
    \/ ruleTargets[a].tier = ruleTargets[b].tier /\ a < b)

\* The targets are read by a query of their own, after the rules.
ReadRuleList(w) ==
  /\ view' = [view EXCEPT ![w] =
       [kind |-> "rules", rule |-> 0, list |-> ListModelRulesForDisplay]]
  /\ UNCHANGED <<modelRules, ruleTargets, spent, arranged, asked, reported>>

ReadTargetsOf(w, r) ==
  /\ r \in DOMAIN modelRules
  /\ LET ids == ListTargets(r) IN
       view' = [view EXCEPT ![w] =
         [kind |-> "targets", rule |-> r,
          list |-> [i \in DOMAIN ids |-> [id |-> ids[i], tier |-> ruleTargets[ids[i]].tier]]]]
  /\ UNCHANGED <<modelRules, ruleTargets, spent, arranged, asked, reported>>

---------------------------------------------------------------------------
(* Writing.                                                                *)

Transaction == spent.writes < MaxWrites /\ spent' = [spent EXCEPT !.writes = @ + 1]

NameFree(name, but) == \A r \in DOMAIN modelRules \ {but} : modelRules[r].name # name

\* An input is [id, tier]; a new target has no id, and without a tier of its
\* own it gets its position.
New == 0
NewTarget == [id |-> New, tier |-> 0]

Fresh(in) == {i \in DOMAIN in : in[i].id = New}
FreshRows(in) == spent.rows + 1 .. spent.rows + Cardinality(Fresh(in))

\* The input of which t is the row: the first new one gets the first rowid.
Source(in, t) ==
  CHOOSE i \in Fresh(in) : spent.rows + Cardinality({j \in Fresh(in) : j <= i}) = t

Inserted(r, in, t) == [rule |-> r, tier |-> Source(in, t) - 1, hits |-> 0]

\* The counters are left alone.
Mutant_Updated(row, input) == [row EXCEPT !.tier = input.tier, !.hits = 0]
Updated(row, input) == [row EXCEPT !.tier = input.tier]

\* upsertTargets: rows the input does not name are deleted, those it names are
\* updated in place, and an id that is gone meanwhile is passed over.
UpsertTargets(r, in) ==
  LET Named(t) == {i \in DOMAIN in : in[i].id = t}
      kept == {t \in DOMAIN ruleTargets : ruleTargets[t].rule # r \/ Named(t) # {}}
  IN  [t \in kept \cup FreshRows(in) |->
         IF t \in FreshRows(in) THEN Inserted(r, in, t)
         ELSE IF ruleTargets[t].rule = r
              THEN Updated(ruleTargets[t], in[CHOOSE i \in Named(t) : TRUE])
         ELSE ruleTargets[t]]

\* CreateModelRule: the others move down, the new one goes on top.
CreateModelRule(r, name, count) ==
  /\ r \in RuleIds \ spent.rules /\ NameFree(name, r) /\ spent.rows + count <= MaxRows
  /\ spent.writes < MaxWrites
  /\ \E now \in Times :
       modelRules' = [x \in DOMAIN modelRules \cup {r} |->
                   IF x = r THEN [name |-> name, place |-> 0, created |-> now]
                   ELSE [modelRules[x] EXCEPT !.place = @ + 1]]
  /\ LET in == [i \in 1 .. count |-> NewTarget] IN
       ruleTargets' = [t \in DOMAIN ruleTargets \cup FreshRows(in) |->
                         IF t \in FreshRows(in) THEN Inserted(r, in, t) ELSE ruleTargets[t]]
  /\ spent' = [spent EXCEPT !.rules = @ \cup {r}, !.rows = @ + count, !.writes = @ + 1]
  /\ arranged' = <<r>> \o arranged
  /\ UNCHANGED <<view, asked, reported>>

\* What the window makes of the targets it has read: the same again (with a
\* field of one of them changed), one less, one more at the end.
Edited(list) == {list, Append(list, NewTarget)} \cup {RemoveAt(list, i) : i \in DOMAIN list}

\* UpdateModelRule, with the tiers as they were read.
UpdateModelRule(w, name) ==
  LET r == view[w].rule IN
  /\ view[w].kind = "targets" /\ r \in DOMAIN modelRules /\ NameFree(name, r)
  /\ spent.writes < MaxWrites
  /\ \E in \in Edited(view[w].list) :
       /\ spent.rows + Cardinality(Fresh(in)) <= MaxRows
       /\ ruleTargets' = UpsertTargets(r, in)
       /\ spent' = [spent EXCEPT !.rows = @ + Cardinality(Fresh(in)), !.writes = @ + 1]
  /\ modelRules' = [modelRules EXCEPT ![r].name = name]
  /\ view' = [view EXCEPT ![w] = NoView]
  /\ asked' = [asked EXCEPT ![r] = <<>>]
  /\ UNCHANGED <<arranged, reported>>

\* The targets go with the rule.
DeleteModelRule(r) ==
  /\ r \in DOMAIN modelRules /\ Transaction
  /\ modelRules' = [x \in DOMAIN modelRules \ {r} |-> modelRules[x]]
  /\ ruleTargets' = [t \in DOMAIN ruleTargets \ TargetsOf(r) |-> ruleTargets[t]]
  /\ arranged' = RemoveAt(arranged, CHOOSE i \in DOMAIN arranged : arranged[i] = r)
  /\ asked' = [asked EXCEPT ![r] = <<>>]
  /\ UNCHANGED <<view, reported>>

PlaceIn(order, x) == CHOOSE i \in 0 .. Len(order) - 1 : order[i + 1] = x
Permutes(order, ids) == Len(order) = Cardinality(ids) /\ ToSet(order) = ids

\* ReorderModelRules: any other set of rules is a conflict.  The window goes on
\* with the new order.
ReorderModelRules(w) ==
  /\ view[w].kind = "rules" /\ view[w].list # <<>> /\ Transaction
  /\ \E order \in SetToSeqs(ToSet(view[w].list)) :
       /\ Permutes(order, DOMAIN modelRules)
       /\ modelRules' = [r \in DOMAIN modelRules |->
                      [modelRules[r] EXCEPT !.place = PlaceIn(order, r)]]
       /\ arranged' = order
       /\ view' = [view EXCEPT ![w].list = order]
  /\ UNCHANGED <<ruleTargets, asked, reported>>

\* ReorderModelRuleTargets: the window keeps what it has, in the new order and
\* with the old tiers.
ReorderModelRuleTargets(w) ==
  LET r == view[w].rule
      list == view[w].list
  IN
  /\ view[w].kind = "targets" /\ Len(list) >= 2 /\ Transaction
  /\ \E order \in SetToSeqs(ToSet(list)) :
       LET ids == [i \in DOMAIN order |-> order[i].id] IN
       /\ Permutes(ids, TargetsOf(r))
       /\ ruleTargets' = [t \in DOMAIN ruleTargets |->
                     IF ruleTargets[t].rule # r THEN ruleTargets[t]
                     ELSE [ruleTargets[t] EXCEPT !.tier = PlaceIn(ids, t)]]
       /\ asked' = [asked EXCEPT ![r] = ids]
       /\ view' = [view EXCEPT ![w].list = order]
  /\ UNCHANGED <<modelRules, arranged, reported>>

\* IncrementTargetStats: of a target that may be gone.
IncrementTargetStats(t) ==
  /\ t <= spent.rows /\ spent.reports < MaxReports
  /\ spent' = [spent EXCEPT !.reports = @ + 1]
  /\ reported' = [reported EXCEPT ![t] = @ + 1]
  /\ ruleTargets' = [x \in DOMAIN ruleTargets |->
                IF x # t THEN ruleTargets[x] ELSE [ruleTargets[x] EXCEPT !.hits = @ + 1]]
  /\ UNCHANGED <<modelRules, view, arranged, asked>>

BookNext ==
  \/ \E w \in Windows :
       \/ ReadRuleList(w) \/ \E r \in RuleIds : ReadTargetsOf(w, r)
       \/ \E name \in RuleNames : UpdateModelRule(w, name)
       \/ ReorderModelRules(w) \/ ReorderModelRuleTargets(w)
  \/ \E r \in RuleIds : DeleteModelRule(r)
       \/ \E name \in RuleNames, count \in {1, 2} : CreateModelRule(r, name, count)
  \/ \E t \in 1 .. MaxRows : IncrementTargetStats(t)

BookSpec == BookInit /\ [][BookNext]_bookVars

---------------------------------------------------------------------------
BookTypeOK ==
  /\ DOMAIN modelRules \subseteq RuleIds
  /\ \A r \in DOMAIN modelRules : modelRules[r].name \in RuleNames
  /\ DOMAIN ruleTargets \subseteq 1 .. spent.rows
  /\ \A t \in DOMAIN ruleTargets :
       ruleTargets[t].rule \in RuleIds /\ {ruleTargets[t].tier, ruleTargets[t].hits} \subseteq Nat
  /\ spent.rows \in 0 .. MaxRows /\ spent.writes \in 0 .. MaxWrites

\* The rules are what the operator made of them, whatever listing was read
\* when.  They are listed in the order given to them, the newest on top until
\* then, even when the clock stands still or goes back; the targets of a rule
\* in the order last given to them; a name leads to one rule; no target is
\* left without its rule; and a target that stays keeps its counters.
BookKept ==
  /\ ListModelRulesForDisplay = arranged
  /\ \A r \in RuleIds : asked[r] # <<>> => ListTargets(r) = asked[r]
  /\ \A r \in DOMAIN modelRules : NameFree(modelRules[r].name, r)
  /\ \A t \in DOMAIN ruleTargets : /\ ruleTargets[t].rule \in DOMAIN modelRules
                                  /\ ruleTargets[t].hits = reported[t]
=============================================================================
