------------------------ MODULE ConfidenceProperties ------------------------
(***************************************************************************)
(* What callers of compute_effective_confidence rely on, between any calls *)
(* of the engine.  The caller keeps the last trace it was given.           *)
(***************************************************************************)
EXTENDS Confidence

VARIABLE kept  \* the trace the caller keeps, or NoTrace

confidenceVars == <<vars, kept>>

ConfidenceInit == Init /\ kept = NoTrace

\* compute_effective_confidence_with_trace changes nothing in the engine.
ReadTrace(claim) ==
  /\ claim \in DOMAIN claims
  /\ kept' = TraceOf(claim)
  /\ UNCHANGED vars

ConfidenceNext ==
  \/ \E claim \in Ids("claim") : ReadTrace(claim)
  \/ Next /\ UNCHANGED kept

ConfidenceSpec == ConfidenceInit /\ [][ConfidenceNext]_confidenceVars

----------------------------------------------------------------------------

WithinUnit(fraction) == 0 <= fraction[1] /\ fraction[1] <= fraction[2]

\* No factor boosts and, where a claim is not refuted, none is below its
\* floor (sections 24.5, 35, 36, 38 and 41 of the data contract): whatever
\* deltas a rule's statistics were given, negative ones included, the result
\* is a ScoreValue and the reader never raises.
NeverBoosts ==
  \A c \in DOMAIN claims :
    LET f == Factors(c)
    IN  /\ \A name \in DOMAIN f : WithinUnit(f[name])
        /\ 10 * f.maturity[1] >= 8 * f.maturity[2]
        /\ 4 * f.count[1] >= 3 * f.count[2]
        /\ 2 * f.freshness[1] >= f.freshness[2]

\* A kept trace whose source identity is still the engine's is what the
\* engine would compute now: no call that bears on a claim's confidence, the
\* statistics of its rule, the hint set and the evidence of others included,
\* leaves the identity as it was.
KeptTraceStands ==
  kept # NoTrace /\ kept.identity = StateIdentity => kept = TraceOf(kept.claim)

\* Refutation is final for the confidence too: once zero, no later call makes
\* it anything else, and nothing but refutation or a zero base makes it zero.
ZeroIsForGood ==
  [][ \A c \in DOMAIN claims :
        IF IsZero(TraceOf(c)) THEN IsZero(TraceOf(c))'
                              ELSE IsZero(TraceOf(c))' =>
                                     claims'[c].status = "refuted" ]_vars

JustClosed == DOMAIN gapResolutions' \ DOMAIN gapResolutions

\* One call moves the confidence of two claims only through what they share:
\* a claim, of their subject, whose evidence closes a gap of each; the rule and
\* version that made them; or the hint set.  The two need not share a gap
\* themselves: one evidence may close two gaps of a third claim.
SpreadOnlyThroughShared ==
  [][ \A c, d \in DOMAIN claims :
        /\ c # d
        /\ Factors(c)' # Factors(c)
        /\ Factors(d)' # Factors(d)
        => \/ /\ claims[c].subject = claims[d].subject
              /\ \E k \in DOMAIN claims : \A x \in {c, d} :
                   GapsForClaim(x) \cap GapsForClaim(k) \cap JustClosed # {}
           \/ claims[c].rule = claims[d].rule /\ ruleStats' # ruleStats
           \/ hintEvidenceTypes' # hintEvidenceTypes ]_vars

Product(f, g) == <<f[1] * g[1], f[2] * g[2]>>

NotAbove(f, g) == f[1] * g[2] <= g[1] * f[2]

\* The three ways out of dispute (sections 22.7 and 27 of the contract) and the
\* confidence agree on which contradiction counts, whatever was resolved
\* meanwhile: the freshness rule refutes exactly where the freshness factor has
\* fallen to that of the threshold, never where the any-contradiction rule would
\* not, and a claim that may return to confirmed is under no pressure at all.
DisputeExitsConsistent ==
  \A c \in DOMAIN claims : HasStatus(c, "disputed") =>
    /\ ReadyToRefuteByFreshness(c) =
         NotAbove(FreshnessModifierForClaim(c),
                  FreshnessModifier(RefutationStrengthThreshold))
    /\ ReadyToRefuteByFreshness(c) => ReadyToRefuteDisputed(c)
    /\ ReadyToResolveDisputed(c) =>
         /\ ~ReadyToRefuteDisputed(c)
         /\ FreshnessModifierForClaim(c) = One /\ CountModifierForClaim(c) = One

Pressure(claim) ==
  Product(FreshnessModifierForClaim(claim), CountModifierForClaim(claim))

\* A new contradiction may raise the confidence, when it is weaker than an
\* active one (the average falls, and it may be the newest).  One at least as
\* strong as every active one never does, however many there are already.
StrongContradictionNeverRaises ==
  [][ \A c \in DOMAIN claims, e \in DOMAIN evidences :
        /\ <<c, e>> \in contradictions' \ contradictions
        /\ \A other \in ActiveContradictionsForClaim(c) :
             evidences[other].strength <= evidences[e].strength
        => NotAbove(Pressure(c)', Pressure(c)) ]_vars
=============================================================================
