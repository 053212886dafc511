----------------------------- MODULE Confidence -----------------------------
(***************************************************************************)
(* The effective confidence of a claim: the pure kernel of                 *)
(* ragcore/_engine/confidence.py and the readers that collect its inputs   *)
(* from the stores (cluster C8, ragcore/_engine/confidence_adapters.py).   *)
(*                                                                         *)
(* The code multiplies a base score by six factors, all floats that are    *)
(* short decimals of the stored scores.  Here a factor is the exact        *)
(* fraction <<numerator, denominator>>; a score is in tenths.  The product *)
(* is kept as its factors, as EffectiveConfidenceTrace does.               *)
(***************************************************************************)
EXTENDS Engine, Functions

CONSTANTS
  NoRule,   \* rule id 0: the claim was not made by a rule
  NoTrace   \* nothing was asked for yet

One == <<1, 1>>

StatusModifier(status) ==
  CASE status = "disputed" -> <<1, 2>>
    [] status = "refuted"  -> <<0, 1>>
    [] OTHER               -> One

\* One minus half the strength.
FreshnessModifier(strength) == <<20 - strength, 20>>

\* Three unresolved gaps weigh as much as any more of them.
GapModifier(unresolved) ==
  CASE unresolved = 0 -> One
    [] unresolved = 1 -> <<9, 10>>
    [] unresolved = 2 -> <<8, 10>>
    [] OTHER          -> <<7, 10>>

\* Faulty: pressure of exactly two.
CountModifierOfTwo(n, total) ==
  IF n # 2 THEN One ELSE <<40 * n - total, 40 * n>>

\* One minus a quarter of the average strength, from two on.
CountModifier(n, total) ==
  IF n < 2 THEN One ELSE <<40 * n - total, 40 * n>>

SaturationCount == 2

\* Faulty: a count below zero goes on lowering the factor, one above two boosts.
UnclampedMaturity(firing) == <<8 + firing, 10>>

\* Counts below zero are zero, counts above two are two.
MaturityModifier(firing) ==
  CASE firing <= 0              -> <<8, 10>>
    [] firing >= SaturationCount -> <<10, 10>>
    [] OTHER                     -> <<9, 10>>

PrecisionModifier(precision) ==
  IF precision = NoScore THEN One ELSE <<90 + precision, 100>>

----------------------------------------------------------------------------
\* The inputs the engine collects for a claim.

AnyOf(set) == CHOOSE x \in set : TRUE

StrengthOf == [e \in DOMAIN evidences |-> evidences[e].strength]

ActiveStrengths(claim) ==
  SumFunctionOnSet(StrengthOf, ActiveContradictionsForClaim(claim))

UnresolvedGaps(claim) == GapsForClaim(claim) \ DOMAIN gapResolutions

FreshnessModifierForClaim(claim) ==
  LET active == ActiveContradictionsForClaim(claim)
      freshest == {e \in active : IsFreshest(e, active)}
  IN  IF active = {} THEN One
      ELSE FreshnessModifier(evidences[AnyOf(freshest)].strength)

GapModifierForClaim(claim) == GapModifier(Cardinality(UnresolvedGaps(claim)))

CountModifierForClaim(claim) ==
  CountModifier(Cardinality(ActiveContradictionsForClaim(claim)),
                ActiveStrengths(claim))

\* Faulty: takes the statistics of any version of the rule.
StatsOfAnyVersion(claim) ==
  {rule \in DOMAIN ruleStats :
     rule[1] = claims[claim].rule[1] /\ rule[1] # NoRule}

\* The statistics that bear on the claim: those of the pair that made it.
StatsOf(claim) ==
  {rule \in DOMAIN ruleStats : rule = claims[claim].rule /\ rule[1] # NoRule}

\* Two fractions, where the code gives their product.
RuleStatsModifierForClaim(claim) ==
  IF StatsOf(claim) = {} THEN <<One, One>>
  ELSE LET stats == ruleStats[AnyOf(StatsOf(claim))]
       IN  <<MaturityModifier(stats.firing), PrecisionModifier(stats.precision)>>

\* What supports the claim directly: its evidence, contradictions left out.
DirectEvidence(claim) ==
  EvidencesForClaim(claim) \ (ContradictionsForClaim(claim)
                              \cup ResolvedContradictionsForClaim(claim))

\* Lowered only when there is direct evidence and all of it is of hint types.
EvidenceTypeModifierForClaim(claim) ==
  LET types == {evidences[e].type : e \in DirectEvidence(claim)}
  IN  IF types # {} /\ types \subseteq hintEvidenceTypes THEN <<9, 10>> ELSE One

----------------------------------------------------------------------------

\* The factors, in the order of the product.
Factors(claim) ==
  [status       |-> StatusModifier(claims[claim].status),
   freshness    |-> FreshnessModifierForClaim(claim),
   gap          |-> GapModifierForClaim(claim),
   count        |-> CountModifierForClaim(claim),
   maturity     |-> RuleStatsModifierForClaim(claim)[1],
   precision    |-> RuleStatsModifierForClaim(claim)[2],
   evidenceType |-> EvidenceTypeModifierForClaim(claim)]

\* The typed trace: the plain reader returns the product of the same core.
TraceOf(claim) ==
  [claim |-> claim, identity |-> StateIdentity, base |-> claims[claim].base,
   factors |-> Factors(claim)]

\* The product is zero exactly when one of its terms is.
IsZero(trace) ==
  trace.base = 0 \/ \E name \in DOMAIN trace.factors : trace.factors[name][1] = 0
=============================================================================
