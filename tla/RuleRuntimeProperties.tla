----------------------- MODULE RuleRuntimeProperties -----------------------
(***************************************************************************)
(* What callers of fire_rule rely on.                                      *)
(***************************************************************************)
EXTENDS RuleRuntime, EngineProperties

ClaimsOfRule(rule) == {c \in DOMAIN claims : claims[c].rule = rule}

\* The claim of the firing under way, which is not counted yet.
Uncounted(rule) ==
  IF firing = Idle THEN 0
  ELSE IF firing.rule = rule /\ firing.step = "gaps" THEN 1 ELSE 0

\* Where claims come from rules alone, the firing count of each version is
\* the number of its claims, whatever raised on the way and however many of
\* the gaps were shared (section 16 of the data contract).
CountIsClaims ==
  \A rule \in DOMAIN ruleStats :
    ruleStats[rule].firing + Uncounted(rule) = Cardinality(ClaimsOfRule(rule))

\* A firing that ends uncounted leaves the engine, its identity included, as it
\* found it: the check made first is enough to avoid a partial mutation.
FailedFiringLeavesNothing ==
  [][ firing # Idle /\ firing' = Idle /\ ruleStats' = ruleStats =>
        EngineNow' = before ]_runtimeVars

\* A returned trace stays true: its claim waits on each of its gaps, these are
\* about its subject and, one for one, of the required types; equal types have
\* one gap, also one that another claim asked for first.
TracesStayTrue ==
  \A t \in traces :
    /\ claims[t.claim].rule = t.rule
    /\ claims[t.claim].subject = t.subject
    /\ Len(t.gaps) = Len(t.required)
    /\ \A i \in DOMAIN t.gaps :
         /\ <<t.claim, t.gaps[i]>> \in claimGapRefs
         /\ gaps[t.gaps[i]].required = t.required[i]
         /\ SubjectOf(gaps[t.gaps[i]].claim) = t.subject
         /\ \A j \in DOMAIN t.gaps :
              (t.gaps[i] = t.gaps[j]) <=> (t.required[i] = t.required[j])
=============================================================================
