---------------------------- MODULE ReaderProofs ----------------------------
(***************************************************************************)
(* What is computed from an engine and kept: confidence traces, and packets *)
(* read in many calls.  Both can be trusted as far as the identities in    *)
(* them agree: every factor is a function of the stores, and no call leaves *)
(* the identity (StepMovesRevision).                                       *)
(***************************************************************************)
EXTENDS PacketCaptureProperties, ConfidenceProperties, EngineProofs,
        FiniteSetTheorems, SequenceTheorems, WellFoundedInduction

----------------------------------------------------------------------------
\* Confidence.

\* Sums over finite sets, which the pressure of contradictions is made of.  The
\* fold is a recursive function on the subsets; what it computes is proved by
\* looking at a counterexample of least size.

\* I holds the sum of f over every subset of S.
Solves(f, S, I) ==
  I = [s \in SUBSET S |-> IF s = {} THEN 0
                          ELSE f[AnyOf(s)] + I[s \ {AnyOf(s)}]]

SumBody(f, s, I) == IF s = {} THEN 0 ELSE f[AnyOf(s)] + I[s \ {AnyOf(s)}]

Summing == INSTANCE Recursion WITH Body <- SumBody

\* The equations have a solution: a set has more elements than without one.
LEMMA SumSolvable ==
  ASSUME NEW f, NEW S, IsFiniteSet(S)
  PROVE  \E I : Solves(f, S, I)
<1> DEFINE size == [s \in SUBSET S |-> Cardinality(s)]
<1>1. \A s \in SUBSET S : IsFiniteSet(s) /\ Cardinality(s) \in Nat
  BY FS_Subset, FS_CardinalityType
<1>2. ASSUME NEW s \in SUBSET S, s # {}
      PROVE  /\ s \ {AnyOf(s)} \in SUBSET S
             /\ Cardinality(s \ {AnyOf(s)}) < Cardinality(s)
  <2>1. Cardinality(s \ {AnyOf(s)}) = Cardinality(s) - 1
    BY <1>1, <1>2, FS_RemoveElement DEF AnyOf
  <2> QED
    BY <1>1, <2>1
<1>3. size \in [SUBSET S -> Nat]
  BY <1>1
<1>4. Summing!Local(f, SUBSET S, size)
  BY <1>2 DEF Summing!Local, SumBody
<1> HIDE DEF size
<1>5. \E I : I = [s \in SUBSET S |-> SumBody(f, s, I)]
  BY <1>3, <1>4, Summing!RecursionSolvable
<1> QED
  BY <1>5 DEF Solves, SumBody

\* Among subsets of a finite set one is of least size: what an induction over
\* subsets comes to, applied to the counterexamples.
LEMMA LeastSubset ==
  ASSUME NEW S, IsFiniteSet(S), NEW B \in SUBSET (SUBSET S), B # {}
  PROVE  \E s \in B : \A t \in B : Cardinality(s) <= Cardinality(t)
<1> DEFINE Sizes == {Cardinality(s) : s \in B}
<1>1. Sizes \in SUBSET Nat /\ Sizes # {}
  BY FS_Subset, FS_CardinalityType
<1>2. PICK n \in Sizes : \A m \in Sizes : n <= m
  BY <1>1, Summing!LeastOfAll
<1> QED
  BY <1>2

\* What is left of a set when an element is taken away.
LEMMA WithoutOne ==
  ASSUME NEW S, IsFiniteSet(S), NEW x \in S
  PROVE  /\ IsFiniteSet(S \ {x})
         /\ Cardinality(S) \in Nat
         /\ Cardinality(S \ {x}) \in Nat
         /\ Cardinality(S \ {x}) = Cardinality(S) - 1
  BY FS_RemoveElement, FS_CardinalityType

\* Two solutions agree wherever the functions summed agree.
LEMMA SolutionsAgree ==
  ASSUME NEW S, NEW T, IsFiniteSet(T), S \subseteq T,
         NEW f, NEW g, \A x \in S : f[x] = g[x],
         NEW I, Solves(f, S, I), NEW J, Solves(g, T, J)
  PROVE  I[S] = J[S]
<1> DEFINE B == {s \in SUBSET S : I[s] # J[s]}
<1>1. IsFiniteSet(S)
  BY FS_Subset
<1>2. B = {}
  <2> SUFFICES ASSUME B # {}
               PROVE  FALSE
    OBVIOUS
  <2>1. PICK s \in B : \A t \in B : Cardinality(s) <= Cardinality(t)
    BY <1>1, LeastSubset
  <2>2. s \in SUBSET S /\ I[s] # J[s] /\ s \in SUBSET T /\ IsFiniteSet(s)
    BY <1>1, FS_Subset
  <2>3. s # {}
    BY <2>2 DEF Solves
  <2> DEFINE p == AnyOf(s)
             rest == s \ {p}
  <2>4. p \in s
    BY <2>3 DEF AnyOf
  <2>5. I[s] = f[p] + I[rest] /\ J[s] = g[p] + J[rest]
    BY <2>2, <2>3 DEF Solves
  <2>6. rest \in SUBSET S /\ ~ (Cardinality(s) <= Cardinality(rest))
    BY <2>2, <2>4, WithoutOne
  <2>7. I[rest] = J[rest]
    BY <2>1, <2>6
  <2>8. f[p] = g[p]
    BY <2>2, <2>4
  <2> QED
    BY <2>2, <2>5, <2>7, <2>8
<1> QED
  BY <1>2

\* SumFunctionOnSet is a solution taken at the whole set.
LEMMA SumIs ==
  ASSUME NEW f, NEW S, IsFiniteSet(S)
  PROVE  \E I : Solves(f, S, I) /\ SumFunctionOnSet(f, S) = I[S]
<1> DEFINE It == CHOOSE I : Solves(f, S, I)
<1>1. Solves(f, S, It)
  BY SumSolvable
<1>2. SumFunctionOnSet(f, S) = It[S]
  BY DEF SumFunctionOnSet, FoldFunctionOnSet, MapThenFoldSet, Solves, AnyOf
<1> QED
  BY <1>1, <1>2

\* A sum over a set depends on the values of its elements only.
LEMMA SumCongruent ==
  ASSUME NEW S, IsFiniteSet(S), NEW f, NEW g, \A x \in S : f[x] = g[x]
  PROVE  SumFunctionOnSet(f, S) = SumFunctionOnSet(g, S)
<1>1. PICK I : Solves(f, S, I) /\ SumFunctionOnSet(f, S) = I[S]
  BY SumIs
<1>2. PICK J : Solves(g, S, J) /\ SumFunctionOnSet(g, S) = J[S]
  BY SumIs
<1> QED
  BY <1>1, <1>2, SolutionsAgree

\* Nothing sums to zero.
LEMMA SumEmpty ==
  ASSUME NEW f
  PROVE  SumFunctionOnSet(f, {}) = 0
<1>1. PICK I : Solves(f, {}, I) /\ SumFunctionOnSet(f, {}) = I[{}]
  BY SumIs, FS_EmptySet
<1> QED
  BY <1>1 DEF Solves

\* One element first, as the fold takes them.
LEMMA SumStep ==
  ASSUME NEW S, IsFiniteSet(S), S # {}, NEW f
  PROVE  SumFunctionOnSet(f, S) =
           f[AnyOf(S)] + SumFunctionOnSet(f, S \ {AnyOf(S)})
<1> DEFINE rest == S \ {AnyOf(S)}
<1>1. IsFiniteSet(rest)
  BY FS_Subset
<1>2. PICK I : Solves(f, S, I) /\ SumFunctionOnSet(f, S) = I[S]
  BY SumIs
<1>3. PICK J : Solves(f, rest, J) /\ SumFunctionOnSet(f, rest) = J[rest]
  BY <1>1, SumIs
<1>4. J[rest] = I[rest]
  BY <1>2, <1>3, SolutionsAgree
<1>5. I[S] = f[AnyOf(S)] + I[rest]
  BY <1>2 DEF Solves
<1> QED
  BY <1>2, <1>3, <1>4, <1>5

\* A sum of numbers up to b is a number up to b times as many.
LEMMA SumBounded ==
  ASSUME NEW S, IsFiniteSet(S), NEW b \in Nat, NEW f, \A x \in S : f[x] \in 0 .. b
  PROVE  /\ SumFunctionOnSet(f, S) \in Nat
         /\ SumFunctionOnSet(f, S) <= b * Cardinality(S)
<1> DEFINE Fine(s) == /\ SumFunctionOnSet(f, s) \in Nat
                      /\ SumFunctionOnSet(f, s) <= b * Cardinality(s)
           B == {s \in SUBSET S : ~Fine(s)}
<1>1. B = {}
  <2> SUFFICES ASSUME B # {}
               PROVE  FALSE
    OBVIOUS
  <2>1. PICK s \in B : \A t \in B : Cardinality(s) <= Cardinality(t)
    BY LeastSubset
  <2>2. s \in SUBSET S /\ IsFiniteSet(s) /\ ~Fine(s)
    BY FS_Subset
  <2>3. Fine({})
    <3>1. SumFunctionOnSet(f, {}) = 0 /\ Cardinality({}) = 0
      BY SumEmpty, FS_EmptySet
    <3> QED
      BY <3>1
  <2> DEFINE p == AnyOf(s)
             rest == s \ {p}
             total == SumFunctionOnSet(f, rest)
             n == Cardinality(rest)
  <2>4. s # {} /\ p \in s /\ p \in S
    BY <2>2, <2>3 DEF AnyOf
  <2>5. SumFunctionOnSet(f, s) = f[p] + total
    BY <2>2, <2>4, SumStep
  <2>6. /\ rest \in SUBSET S
        /\ n \in Nat /\ Cardinality(s) \in Nat /\ Cardinality(s) = n + 1
    <3> HIDE DEF p
    <3>1. n \in Nat /\ Cardinality(s) \in Nat /\ n = Cardinality(s) - 1
      BY <2>2, <2>4, WithoutOne
    <3> QED
      BY <2>2, <3>1
  <2>7. total \in Nat /\ total <= b * n
    BY <2>1, <2>6
  <2>8. f[p] \in Nat /\ f[p] <= b
    BY <2>4
  <2> HIDE DEF total, n, p
  <2>9. b * n \in Nat /\ b * (n + 1) = b * n + b
    BY <2>6
  <2>10. f[p] + total \in Nat /\ f[p] + total <= b * (n + 1)
    BY <2>7, <2>8, <2>9
  <2> QED
    BY <2>2, <2>5, <2>6, <2>10
<1> QED
  BY <1>1

\* Any element may be counted first.
LEMMA SumTakeAway ==
  ASSUME NEW S, IsFiniteSet(S), NEW b \in Nat, NEW f, \A x \in S : f[x] \in 0 .. b,
         NEW e \in S
  PROVE  SumFunctionOnSet(f, S) = f[e] + SumFunctionOnSet(f, S \ {e})
<1> DEFINE Fine(s) == \A x \in s : SumFunctionOnSet(f, s) =
                                    f[x] + SumFunctionOnSet(f, s \ {x})
           B == {s \in SUBSET S : ~Fine(s)}
<1>1. ASSUME NEW s \in SUBSET S
      PROVE  SumFunctionOnSet(f, s) \in Nat
  BY FS_Subset, SumBounded
<1>2. B = {}
  <2> SUFFICES ASSUME B # {}
               PROVE  FALSE
    OBVIOUS
  <2>1. PICK s \in B : \A t \in B : Cardinality(s) <= Cardinality(t)
    BY LeastSubset
  <2>2. s \in SUBSET S /\ IsFiniteSet(s)
    BY FS_Subset
  <2>3. PICK x \in s : SumFunctionOnSet(f, s) # f[x] + SumFunctionOnSet(f, s \ {x})
    BY <2>1
  <2> DEFINE p == AnyOf(s)
             both == (s \ {p}) \ {x}
  <2>4. p \in s
    BY <2>3 DEF AnyOf
  <2>5. SumFunctionOnSet(f, s) = f[p] + SumFunctionOnSet(f, s \ {p})
    BY <2>2, <2>3, SumStep
  <2>6. x # p
    BY <2>3, <2>5
  <2>7. ASSUME NEW y \in s
        PROVE  Fine(s \ {y})
    <3>1. ~ (Cardinality(s) <= Cardinality(s \ {y}))
      <4> HIDE DEF B
      <4> QED
        BY <2>2, WithoutOne
    <3>2. s \ {y} \in SUBSET S
      BY <2>2
    <3> HIDE DEF Fine
    <3> QED
      BY <2>1, <3>1, <3>2
  <2>8. SumFunctionOnSet(f, s \ {p}) = f[x] + SumFunctionOnSet(f, both)
    BY <2>4, <2>6, <2>7
  <2>9. SumFunctionOnSet(f, s \ {x}) = f[p] + SumFunctionOnSet(f, both)
    <3>1. both = (s \ {x}) \ {p}
      OBVIOUS
    <3>2. p \in s \ {x}
      BY <2>4, <2>6
    <3> QED
      BY <2>7, <3>1, <3>2
  <2>10. f[x] \in Nat /\ f[p] \in Nat /\ SumFunctionOnSet(f, both) \in Nat
    BY <1>1, <2>2, <2>4
  <2> QED
    BY <2>3, <2>5, <2>8, <2>9, <2>10
<1> QED
  BY <1>2

\* The greatest element of a nonempty set of numbers up to a bound.
LEMMA GreatestNumber ==
  ASSUME NEW k \in Nat, NEW T \in SUBSET (0 .. k), T # {}
  PROVE  \E n \in T : \A m \in T : m <= n
<1> DEFINE Distances == {d \in 0 .. k : k - d \in T}
<1>1. \A m \in T : m \in Nat /\ k - m \in Distances
  OBVIOUS
<1>2. Distances \in SUBSET Nat /\ Distances # {}
  <2>1. Distances \in SUBSET Nat
    OBVIOUS
  <2> HIDE DEF Distances
  <2> QED
    BY <1>1, <2>1
<1>3. PICK d \in Distances : \A other \in Distances : d <= other
  BY <1>2, Summing!LeastOfAll
<1>4. k - d \in T /\ d \in Nat
  OBVIOUS
<1>5. ASSUME NEW m \in T
      PROVE  m <= k - d
  <2>1. d <= k - m /\ m \in Nat
    BY <1>1, <1>3
  <2> QED
    BY <1>4, <2>1
<1> QED
  BY <1>4, <1>5

----------------------------------------------------------------------------
\* Every factor is a function of the stores: what changes none changes none.
LEMMA FactorsUnchanged ==
  ASSUME UNCHANGED vars, NEW claim
  PROVE  Factors(claim)' = Factors(claim)
<1> USE DEF vars, crudStores, gapStores, ruleStores, contraStores, historyStores
<1>1. /\ ContradictionsForClaim(claim)' = ContradictionsForClaim(claim)
      /\ ResolvedContradictionsForClaim(claim)' = ResolvedContradictionsForClaim(claim)
  BY DEF ContradictionsForClaim, ResolvedContradictionsForClaim
<1>2. ActiveContradictionsForClaim(claim)' = ActiveContradictionsForClaim(claim)
  BY <1>1 DEF ActiveContradictionsForClaim
<1>3. FreshnessModifierForClaim(claim)' = FreshnessModifierForClaim(claim)
  BY <1>2 DEF FreshnessModifierForClaim
<1>4. GapModifierForClaim(claim)' = GapModifierForClaim(claim)
  <2>1. GapsForClaim(claim)' = GapsForClaim(claim)
    BY DEF GapsForClaim
  <2> QED
    BY <2>1 DEF GapModifierForClaim, UnresolvedGaps
<1>5. CountModifierForClaim(claim)' = CountModifierForClaim(claim)
  <2>1. StrengthOf' = StrengthOf
    BY DEF StrengthOf
  <2> QED
    BY <1>2, <2>1 DEF CountModifierForClaim, ActiveStrengths
<1>6. RuleStatsModifierForClaim(claim)' = RuleStatsModifierForClaim(claim)
  <2>1. StatsOf(claim)' = StatsOf(claim)
    BY DEF StatsOf
  <2> QED
    BY <2>1 DEF RuleStatsModifierForClaim
<1>7. EvidenceTypeModifierForClaim(claim)' = EvidenceTypeModifierForClaim(claim)
  <2>1. DirectEvidence(claim)' = DirectEvidence(claim)
    BY <1>1 DEF DirectEvidence, EvidencesForClaim
  <2> QED
    BY <2>1 DEF EvidenceTypeModifierForClaim
<1>8. StatusModifier(claims[claim].status)' = StatusModifier(claims[claim].status)
  OBVIOUS
<1> QED
  BY <1>3, <1>4, <1>5, <1>6, <1>7, <1>8 DEF Factors

\* An engine at rest gives the same trace again.
LEMMA TraceUnchanged ==
  ASSUME UNCHANGED vars, NEW claim
  PROVE  TraceOf(claim)' = TraceOf(claim)
  BY FactorsUnchanged DEF TraceOf, StateIdentity, vars, crudStores

----------------------------------------------------------------------------
\* The kept trace.

\* A kept trace is of this moment or of one whose identity does not return.
KeptIsPast ==
  kept # NoTrace =>
    /\ kept.identity.revision \in Nat
    /\ kept.identity.revision <= stateRevision
    /\ kept.identity = StateIdentity => kept = TraceOf(kept.claim)

\* The inductive invariant of the kept trace.
KeptInv == TypeOK /\ KeptIsPast

LEMMA KeptInductive == KeptInv /\ [ConfidenceNext]_confidenceVars => KeptInv'
<1> SUFFICES ASSUME KeptInv, [ConfidenceNext]_confidenceVars
             PROVE  KeptInv'
  OBVIOUS
<1> USE DEF KeptInv
<1>1. TypeOK'
  BY TypeInductive DEF ConfidenceNext, confidenceVars, ReadTrace
<1>2. stateRevision \in Nat
  BY DEF TypeOK, CounterTypes
<1>3. ASSUME NEW claim \in Ids("claim"), ReadTrace(claim)
      PROVE  KeptIsPast'
  <2>1. kept' = TraceOf(claim) /\ TraceOf(claim)' = TraceOf(claim)
    BY <1>3, TraceUnchanged DEF ReadTrace
  <2>2. kept'.claim = claim /\ kept'.identity = StateIdentity
    BY <2>1 DEF TraceOf
  <2>3. UNCHANGED stateRevision
    BY <1>3 DEF ReadTrace, vars
  <2> QED
    BY <1>2, <2>1, <2>2, <2>3 DEF KeptIsPast, StateIdentity
<1>4. CASE Next /\ UNCHANGED kept
  <2>1. stateRevision' = stateRevision + 1
    BY <1>4, StepMovesRevision
  <2> QED
    BY <1>1, <1>2, <1>4, <2>1 DEF KeptIsPast, StateIdentity
<1>5. CASE UNCHANGED confidenceVars
  <2>1. UNCHANGED vars /\ UNCHANGED kept
    BY <1>5 DEF confidenceVars
  <2>2. PICK claim : claim = kept.claim
    OBVIOUS
  <2>3. TraceOf(claim)' = TraceOf(claim)
    BY <2>1, TraceUnchanged
  <2> QED
    BY <1>1, <2>1, <2>2, <2>3 DEF KeptIsPast, StateIdentity, vars
<1> QED
  BY <1>1, <1>3, <1>4, <1>5 DEF ConfidenceNext

\* A kept trace with the engine's identity is what the engine would compute,
\* whichever of the stores a factor is taken from.
THEOREM KeptTraceAlwaysStands == ConfidenceSpec => []KeptTraceStands
<1>1. ConfidenceInit => KeptInv
  BY InitTypes DEF ConfidenceInit, KeptInv, KeptIsPast
<1>2. KeptInv => KeptTraceStands
  BY DEF KeptInv, KeptIsPast, KeptTraceStands
<1> QED
  BY <1>1, <1>2, KeptInductive, PTL DEF ConfidenceSpec

----------------------------------------------------------------------------
\* The factors.

\* There are finitely many active contradictions, each with a strength, and one
\* of them is the freshest.
LEMMA ActiveFacts ==
  ASSUME TypeOK, NEW claim
  PROVE  LET active == ActiveContradictionsForClaim(claim)
         IN  /\ active \subseteq DOMAIN evidences
             /\ active \subseteq Nat
             /\ IsFiniteSet(active)
             /\ Cardinality(active) \in Nat
             /\ \A e \in active : evidences[e].strength \in ScoreValue
             /\ active # {} => \E e \in active : IsFreshest(e, active)
<1> DEFINE active == ActiveContradictionsForClaim(claim)
           last == nextId["evidence"]
<1>1. active \subseteq DOMAIN evidences
  BY DEF ActiveContradictionsForClaim, ContradictionsForClaim
<1>2. last \in Nat /\ DOMAIN evidences \subseteq 1 .. last
  BY DEF TypeOK, CounterTypes, IdsIssued, StorageForKind, Kinds
<1>3. IsFiniteSet(active) /\ Cardinality(active) \in Nat
  <2>1. IsFiniteSet(1 .. last)
    BY <1>2, FS_Interval
  <2>2. active \in SUBSET (1 .. last)
    BY <1>1, <1>2
  <2> HIDE DEF active, last
  <2> QED
    BY <2>1, <2>2, FS_Subset, FS_CardinalityType
<1>4. \A e \in DOMAIN evidences : evidences[e].strength \in ScoreValue
  BY DEF TypeOK, CrudTypes, EvidenceRecord
<1>5. active \in SUBSET (0 .. last)
  BY <1>1, <1>2
<1> HIDE DEF active, last
<1>6. ASSUME active # {}
      PROVE  \E e \in active : IsFreshest(e, active)
  BY <1>2, <1>5, <1>6, GreatestNumber DEF IsFreshest
<1>7. active \subseteq Nat
  BY <1>5
<1> QED
  BY <1>1, <1>3, <1>4, <1>6, <1>7 DEF active

\* The freshness factor is that of the freshest active contradiction.
LEMMA FreshnessIsOfTheFreshest ==
  ASSUME TypeOK, NEW claim, NEW e \in ActiveContradictionsForClaim(claim),
         IsFreshest(e, ActiveContradictionsForClaim(claim))
  PROVE  FreshnessModifierForClaim(claim) = FreshnessModifier(evidences[e].strength)
<1> DEFINE active == ActiveContradictionsForClaim(claim)
           freshest == {x \in active : IsFreshest(x, active)}
<1>1. active \subseteq Nat
  BY ActiveFacts
<1>2. \A x \in freshest : x = e
  BY <1>1 DEF IsFreshest
<1>3. AnyOf(freshest) = e
  BY <1>2 DEF AnyOf
<1> QED
  BY <1>3 DEF FreshnessModifierForClaim

\* The strengths that are summed.
LEMMA StrengthsBounded ==
  ASSUME TypeOK, NEW claim
  PROVE  /\ ActiveStrengths(claim) \in Nat
         /\ ActiveStrengths(claim) <=
              10 * Cardinality(ActiveContradictionsForClaim(claim))
<1>1. \A e \in ActiveContradictionsForClaim(claim) : StrengthOf[e] \in 0 .. 10
  BY ActiveFacts DEF StrengthOf, ScoreValue
<1> QED
  BY <1>1, ActiveFacts, SumBounded DEF ActiveStrengths

\* The bounds of each factor: zero is reached by the status alone.
LEMMA FreshnessBounds ==
  ASSUME TypeOK, NEW claim
  PROVE  LET f == FreshnessModifierForClaim(claim)
         IN  /\ f = <<f[1], f[2]>> /\ f[1] \in Nat \ {0} /\ f[2] \in Nat \ {0}
             /\ f[1] <= f[2] /\ f[2] <= 2 * f[1]
<1> DEFINE active == ActiveContradictionsForClaim(claim)
<1>1. CASE active = {}
  <2>1. FreshnessModifierForClaim(claim) = One
    BY <1>1 DEF FreshnessModifierForClaim
  <2> QED
    BY <2>1 DEF One
<1>2. CASE active # {}
  <2>1. PICK e \in active : IsFreshest(e, active)
    BY <1>2, ActiveFacts
  <2>2. evidences[e].strength \in 0 .. 10
    BY ActiveFacts DEF ScoreValue
  <2>3. FreshnessModifierForClaim(claim) = <<20 - evidences[e].strength, 20>>
    BY <2>1, FreshnessIsOfTheFreshest DEF FreshnessModifier
  <2> QED
    BY <2>2, <2>3
<1> QED
  BY <1>1, <1>2

\* No number of contradictions takes more than a quarter.
LEMMA CountBounds ==
  ASSUME TypeOK, NEW claim
  PROVE  LET f == CountModifierForClaim(claim)
         IN  /\ f = <<f[1], f[2]>> /\ f[1] \in Nat \ {0} /\ f[2] \in Nat \ {0}
             /\ f[1] <= f[2] /\ 3 * f[2] <= 4 * f[1]
<1> DEFINE n == Cardinality(ActiveContradictionsForClaim(claim))
           total == ActiveStrengths(claim)
<1>1. n \in Nat /\ total \in Nat /\ total <= 10 * n
  BY ActiveFacts, StrengthsBounded
<1>2. CountModifierForClaim(claim) = CountModifier(n, total)
  BY DEF CountModifierForClaim
<1> HIDE DEF n, total
<1>3. CASE n < 2
  <2>1. CountModifierForClaim(claim) = <<1, 1>>
    BY <1>2, <1>3 DEF CountModifier, One
  <2> QED
    BY <2>1
<1>4. CASE ~(n < 2)
  <2>1. CountModifierForClaim(claim) = <<40 * n - total, 40 * n>>
    BY <1>2, <1>4 DEF CountModifier
  <2> QED
    BY <1>1, <1>4, <2>1
<1> QED
  BY <1>3, <1>4

\* The maturity and the precision factor of a rule take few values.
LEMMA RuleStatsBounds ==
  ASSUME TypeOK, NEW claim
  PROVE  LET m == RuleStatsModifierForClaim(claim)[1]
             p == RuleStatsModifierForClaim(claim)[2]
         IN  /\ m \in {<<8, 10>>, <<9, 10>>, <<10, 10>>, <<1, 1>>}
             /\ \/ p = <<1, 1>>
                \/ \E precision \in ScoreValue : p = <<90 + precision, 100>>
<1>1. CASE StatsOf(claim) = {}
  BY <1>1 DEF RuleStatsModifierForClaim, One
<1>2. CASE StatsOf(claim) # {}
  <2> DEFINE stats == ruleStats[AnyOf(StatsOf(claim))]
  <2>1. AnyOf(StatsOf(claim)) \in DOMAIN ruleStats
    BY <1>2 DEF AnyOf, StatsOf
  <2>2. stats.firing \in Int /\ stats.precision \in ScoreValue \cup {NoScore}
    BY <2>1 DEF TypeOK, RuleTypes, RuleStatsRecord
  <2>3. RuleStatsModifierForClaim(claim) =
          <<MaturityModifier(stats.firing), PrecisionModifier(stats.precision)>>
    BY <1>2 DEF RuleStatsModifierForClaim
  <2> HIDE DEF stats
  <2>4. MaturityModifier(stats.firing) \in {<<8, 10>>, <<9, 10>>, <<10, 10>>}
    BY <2>2 DEF MaturityModifier, SaturationCount
  <2>5. \/ PrecisionModifier(stats.precision) = <<1, 1>>
        \/ \E precision \in ScoreValue :
             PrecisionModifier(stats.precision) = <<90 + precision, 100>>
    BY <2>2 DEF PrecisionModifier, One
  <2> QED
    BY <2>3, <2>4, <2>5
<1> QED
  BY <1>1, <1>2

\* So do the remaining factors.
LEMMA OtherBounds ==
  ASSUME NEW claim
  PROVE  /\ StatusModifier(claims[claim].status) \in {<<1, 1>>, <<1, 2>>, <<0, 1>>}
         /\ StatusModifier(claims[claim].status) = <<0, 1>>
              <=> claims[claim].status = "refuted"
         /\ GapModifierForClaim(claim) \in {<<1, 1>>, <<9, 10>>, <<8, 10>>, <<7, 10>>}
         /\ EvidenceTypeModifierForClaim(claim) \in {<<1, 1>>, <<9, 10>>}
<1>1. /\ StatusModifier(claims[claim].status) \in {<<1, 1>>, <<1, 2>>, <<0, 1>>}
      /\ StatusModifier(claims[claim].status) = <<0, 1>>
           <=> claims[claim].status = "refuted"
  BY DEF StatusModifier, One
<1>2. GapModifierForClaim(claim) \in {<<1, 1>>, <<9, 10>>, <<8, 10>>, <<7, 10>>}
  BY DEF GapModifierForClaim, GapModifier, One
<1>3. EvidenceTypeModifierForClaim(claim) \in {<<1, 1>>, <<9, 10>>}
  BY DEF EvidenceTypeModifierForClaim, One
<1> QED
  BY <1>1, <1>2, <1>3

\* Whatever statistics, strengths and gaps there are, no factor boosts and none
\* falls below its floor.
LEMMA TypesNeverBoost == TypeOK => NeverBoosts
<1> SUFFICES ASSUME TypeOK, NEW c \in DOMAIN claims
             PROVE  LET f == Factors(c)
                    IN  /\ \A name \in DOMAIN f : WithinUnit(f[name])
                        /\ 10 * f.maturity[1] >= 8 * f.maturity[2]
                        /\ 4 * f.count[1] >= 3 * f.count[2]
                        /\ 2 * f.freshness[1] >= f.freshness[2]
  BY DEF NeverBoosts
<1> DEFINE f == Factors(c)
           status == StatusModifier(claims[c].status)
           fresh == FreshnessModifierForClaim(c)
           gap == GapModifierForClaim(c)
           count == CountModifierForClaim(c)
           maturity == RuleStatsModifierForClaim(c)[1]
           precision == RuleStatsModifierForClaim(c)[2]
           type == EvidenceTypeModifierForClaim(c)
<1>1. /\ DOMAIN f = {"status", "freshness", "gap", "count", "maturity",
                     "precision", "evidenceType"}
      /\ f.status = status /\ f.freshness = fresh /\ f.gap = gap
      /\ f.count = count /\ f.maturity = maturity /\ f.precision = precision
      /\ f.evidenceType = type
  BY DEF Factors
<1>2. WithinUnit(fresh) /\ 2 * fresh[1] >= fresh[2]
  BY FreshnessBounds DEF WithinUnit
<1>3. WithinUnit(count) /\ 4 * count[1] >= 3 * count[2]
  BY CountBounds DEF WithinUnit
<1>4. WithinUnit(maturity) /\ 10 * maturity[1] >= 8 * maturity[2]
  <2>1. maturity \in {<<8, 10>>, <<9, 10>>, <<10, 10>>, <<1, 1>>}
    BY RuleStatsBounds
  <2> HIDE DEF maturity
  <2> QED
    BY <2>1 DEF WithinUnit
<1>5. WithinUnit(precision)
  <2>1. \/ precision = <<1, 1>>
        \/ \E p \in ScoreValue : precision = <<90 + p, 100>>
    BY RuleStatsBounds
  <2> HIDE DEF precision
  <2> QED
    BY <2>1 DEF WithinUnit, ScoreValue
<1>6. WithinUnit(status) /\ WithinUnit(gap) /\ WithinUnit(type)
  <2>1. /\ status \in {<<1, 1>>, <<1, 2>>, <<0, 1>>}
        /\ gap \in {<<1, 1>>, <<9, 10>>, <<8, 10>>, <<7, 10>>}
        /\ type \in {<<1, 1>>, <<9, 10>>}
    BY OtherBounds
  <2> HIDE DEF status, gap, type
  <2> QED
    BY <2>1 DEF WithinUnit
<1> HIDE DEF f, status, fresh, gap, count, maturity, precision, type
<1>7. \A name \in DOMAIN f : WithinUnit(f[name])
  BY <1>1, <1>2, <1>3, <1>4, <1>5, <1>6
<1> QED
  BY <1>1, <1>2, <1>3, <1>4, <1>7 DEF f

\* No factor ever boosts, and the reader never computes more than a ScoreValue,
\* with any number of contradictions and any deltas of statistics.
THEOREM ConfidenceNeverBoosts == Spec => []NeverBoosts
  BY EngineTypeCorrect, TypesNeverBoost, PTL

\* The freshness rule looks at the contradiction that the factor is taken from.
LEMMA FreshnessAgrees ==
  ASSUME TypeOK, NEW c, HasStatus(c, "disputed")
  PROVE  ReadyToRefuteByFreshness(c) <=>
           NotAbove(FreshnessModifierForClaim(c),
                    FreshnessModifier(RefutationStrengthThreshold))
<1> DEFINE active == ActiveContradictionsForClaim(c)
<1>1. FreshnessModifier(RefutationStrengthThreshold) = <<12, 20>>
  BY DEF FreshnessModifier, RefutationStrengthThreshold
<1>2. CASE active = {}
  <2>1. FreshnessModifierForClaim(c) = <<1, 1>>
    BY <1>2 DEF FreshnessModifierForClaim, One
  <2> QED
    BY <1>1, <1>2, <2>1 DEF ReadyToRefuteByFreshness, NotAbove
<1>3. CASE active # {}
  <2>1. PICK e \in active : IsFreshest(e, active)
    BY <1>3, ActiveFacts
  <2>2. evidences[e].strength \in 0 .. 10 /\ active \subseteq Nat
    BY ActiveFacts DEF ScoreValue
  <2>3. FreshnessModifierForClaim(c) = <<20 - evidences[e].strength, 20>>
    BY <2>1, FreshnessIsOfTheFreshest DEF FreshnessModifier
  <2>4. \A x \in active : IsFreshest(x, active) => x = e
    BY <2>1, <2>2 DEF IsFreshest
  <2>5. ReadyToRefuteByFreshness(c) <=> evidences[e].strength >= 8
    BY <2>1, <2>4 DEF ReadyToRefuteByFreshness, IsStrong, RefutationStrengthThreshold
  <2>6. (20 - evidences[e].strength) * 20 <= 12 * 20 <=> evidences[e].strength >= 8
    BY <2>2
  <2> QED
    BY <1>1, <2>3, <2>5, <2>6 DEF NotAbove
<1> QED
  BY <1>2, <1>3

\* The three ways out of dispute agree with the factors.
LEMMA TypesAgreeOnDispute == TypeOK => DisputeExitsConsistent
<1> SUFFICES ASSUME TypeOK, NEW c \in DOMAIN claims, HasStatus(c, "disputed")
             PROVE  /\ ReadyToRefuteByFreshness(c) =
                         NotAbove(FreshnessModifierForClaim(c),
                                  FreshnessModifier(RefutationStrengthThreshold))
                    /\ ReadyToRefuteByFreshness(c) => ReadyToRefuteDisputed(c)
                    /\ ReadyToResolveDisputed(c) =>
                         /\ ~ReadyToRefuteDisputed(c)
                         /\ FreshnessModifierForClaim(c) = One
                         /\ CountModifierForClaim(c) = One
  BY DEF DisputeExitsConsistent
<1>1. ReadyToRefuteByFreshness(c) =
        NotAbove(FreshnessModifierForClaim(c),
                 FreshnessModifier(RefutationStrengthThreshold))
  <2>1. /\ ReadyToRefuteByFreshness(c) \in BOOLEAN
        /\ NotAbove(FreshnessModifierForClaim(c),
                    FreshnessModifier(RefutationStrengthThreshold)) \in BOOLEAN
    BY DEF ReadyToRefuteByFreshness, NotAbove, HasStatus
  <2> QED
    BY <2>1, FreshnessAgrees
<1>2. ReadyToRefuteByFreshness(c) => ReadyToRefuteDisputed(c)
  BY DEF ReadyToRefuteByFreshness, ReadyToRefuteDisputed
<1>3. ASSUME ReadyToResolveDisputed(c)
      PROVE  /\ ~ReadyToRefuteDisputed(c)
             /\ FreshnessModifierForClaim(c) = One
             /\ CountModifierForClaim(c) = One
  <2>1. ActiveContradictionsForClaim(c) = {}
    BY <1>3 DEF ReadyToResolveDisputed
  <2>2. Cardinality(ActiveContradictionsForClaim(c)) = 0
    BY <2>1, FS_EmptySet
  <2> QED
    BY <2>1, <2>2 DEF ReadyToRefuteDisputed, FreshnessModifierForClaim,
       CountModifierForClaim, CountModifier
<1> QED
  BY <1>1, <1>2, <1>3

\* A disputed claim is refuted by freshness exactly where its factor has fallen
\* to the threshold's, and one that may return is under no pressure.
THEOREM DisputeExitsAlwaysConsistent == Spec => []DisputeExitsConsistent
  BY EngineTypeCorrect, TypesAgreeOnDispute, PTL

\* The product is zero through the base or the refutation, through nothing else.
ZeroIsRefutationOrBase ==
  \A c : IsZero(TraceOf(c)) <=>
           claims[c].base = 0 \/ claims[c].status = "refuted"

\* Which factor can be zero.
LEMMA ZeroMeans == TypeOK => ZeroIsRefutationOrBase
<1> SUFFICES ASSUME TypeOK, NEW c
             PROVE  IsZero(TraceOf(c)) <=>
                      claims[c].base = 0 \/ claims[c].status = "refuted"
  BY DEF ZeroIsRefutationOrBase
<1> DEFINE f == Factors(c)
<1>1. /\ DOMAIN f = {"status", "freshness", "gap", "count", "maturity",
                     "precision", "evidenceType"}
      /\ f.status = StatusModifier(claims[c].status)
      /\ f.freshness = FreshnessModifierForClaim(c)
      /\ f.gap = GapModifierForClaim(c)
      /\ f.count = CountModifierForClaim(c)
      /\ f.maturity = RuleStatsModifierForClaim(c)[1]
      /\ f.precision = RuleStatsModifierForClaim(c)[2]
      /\ f.evidenceType = EvidenceTypeModifierForClaim(c)
  BY DEF Factors
<1>2. f.freshness[1] # 0 /\ f.count[1] # 0
  BY <1>1, FreshnessBounds, CountBounds
<1>3. f.maturity[1] # 0 /\ f.precision[1] # 0
  <2>1. /\ f.maturity \in {<<8, 10>>, <<9, 10>>, <<10, 10>>, <<1, 1>>}
        /\ \/ f.precision = <<1, 1>>
           \/ \E p \in ScoreValue : f.precision = <<90 + p, 100>>
    BY <1>1, RuleStatsBounds
  <2> HIDE DEF f
  <2> QED
    BY <2>1 DEF ScoreValue
<1>4. /\ f.status[1] = 0 <=> claims[c].status = "refuted"
      /\ f.gap[1] # 0 /\ f.evidenceType[1] # 0
  <2>1. /\ f.status \in {<<1, 1>>, <<1, 2>>, <<0, 1>>}
        /\ f.status = <<0, 1>> <=> claims[c].status = "refuted"
        /\ f.gap \in {<<1, 1>>, <<9, 10>>, <<8, 10>>, <<7, 10>>}
        /\ f.evidenceType \in {<<1, 1>>, <<9, 10>>}
    BY <1>1, OtherBounds
  <2> HIDE DEF f
  <2> QED
    BY <2>1
<1> HIDE DEF f
<1>5. (\E name \in DOMAIN f : f[name][1] = 0) <=> claims[c].status = "refuted"
  BY <1>1, <1>2, <1>3, <1>4
<1>6. TraceOf(c).base = claims[c].base /\ TraceOf(c).factors = f
  BY DEF TraceOf, f
<1> QED
  BY <1>5, <1>6 DEF IsZero

\* A refuted claim stays refuted: no legal move leaves that status.
LEMMA RefutedStays ==
  ASSUME HistoryInv, [Next]_vars, NEW c \in DOMAIN claims
  PROVE  /\ claims[c].status = "refuted" => claims'[c].status = "refuted"
         /\ claims'[c].base = claims[c].base
<1>1. TypeOK /\ GapInv
  BY DEF HistoryInv, GapInv, ReferenceInv
<1>2. claims'[c].base = claims[c].base
  <2>1. claims'[c] = [claims[c] EXCEPT !.status = claims'[c].status]
    BY <1>1, StepKeeps DEF RegisteredKept
  <2>2. claims[c] \in ClaimRecord
    BY <1>1 DEF TypeOK, CrudTypes
  <2> QED
    BY <2>1, <2>2 DEF ClaimRecord
<1>3. CASE ~TransitionStep
  BY <1>1, <1>2, <1>3, OnlyTransitionsDecide
<1>4. CASE TransitionStep
  <2>1. PICK claim \in DOMAIN claims, to \in ClaimStatuses, transition \in Transitions :
          Transit(claim, to, transition) /\ <<claims[claim].status, to>> \in LegalMoves
    BY <1>1, <1>4, TransitionStepIsJustified
  <2>2. claims[claim].status # "refuted"
    BY <2>1 DEF LegalMoves
  <2>3. c # claim => claims'[c] = claims[c]
    BY <1>1, <2>1 DEF Transit, TypeOK, CrudTypes
  <2> QED
    BY <1>2, <2>2, <2>3
<1> QED
  BY <1>3, <1>4

\* What ZeroIsForGood says of one step.
ZeroKept ==
  \A c \in DOMAIN claims :
    IF IsZero(TraceOf(c)) THEN IsZero(TraceOf(c))'
                          ELSE IsZero(TraceOf(c))' => claims'[c].status = "refuted"

\* A step takes no confidence away from zero, nor to it but by refuting.
LEMMA StepKeepsZero == HistoryInv /\ [Next]_vars => ZeroKept
<1> SUFFICES ASSUME HistoryInv, [Next]_vars, NEW c \in DOMAIN claims
             PROVE  IF IsZero(TraceOf(c))
                    THEN IsZero(TraceOf(c))'
                    ELSE IsZero(TraceOf(c))' => claims'[c].status = "refuted"
  BY DEF ZeroKept
<1>1. TypeOK /\ TypeOK'
  BY HistoryInductive DEF HistoryInv, GapInv, ReferenceInv
<1>2. ZeroIsRefutationOrBase /\ ZeroIsRefutationOrBase'
  BY <1>1, ZeroMeans, PTL
<1>3. IsZero(TraceOf(c)) <=> claims[c].base = 0 \/ claims[c].status = "refuted"
  BY <1>2 DEF ZeroIsRefutationOrBase
<1>4. IsZero(TraceOf(c))' <=> claims'[c].base = 0 \/ claims'[c].status = "refuted"
  BY <1>2 DEF ZeroIsRefutationOrBase
<1> QED
  BY <1>3, <1>4, RefutedStays

\* Refutation is final for the confidence, whatever is called afterwards.
THEOREM ZeroIsAlwaysForGood == Spec => ZeroIsForGood
  BY InitHistory, HistoryInductive, StepKeepsZero, PTL
     DEF Spec, ZeroIsForGood, ZeroKept

----------------------------------------------------------------------------
\* A new contradiction.

\* The product of numbers grows with each.
LEMMA ProductsOrdered ==
  ASSUME NEW x \in Nat, NEW y \in Nat, NEW u \in Nat, NEW v \in Nat, x <= y, u <= v
  PROVE  x * u <= y * v
<1>1. PICK d \in Nat : y = x + d
  <2>1. y - x \in Nat /\ y = x + (y - x)
    OBVIOUS
  <2> QED
    BY <2>1
<1>2. PICK k \in Nat : v = u + k
  <2>1. v - u \in Nat /\ v = u + (v - u)
    OBVIOUS
  <2> QED
    BY <2>1
<1>3. y * v = x * u + x * k + d * u + d * k
  BY <1>1, <1>2
<1>4. x * u \in Nat /\ x * k \in Nat /\ d * u \in Nat /\ d * k \in Nat
  OBVIOUS
<1> QED
  BY <1>3, <1>4

\* The order of fractions is kept by products.
LEMMA PressureOrdered ==
  ASSUME NEW a \in Nat, NEW b \in Nat, NEW c \in Nat, NEW d \in Nat,
         NEW p \in Nat, NEW q \in Nat, NEW r \in Nat, NEW s \in Nat,
         NotAbove(<<a, b>>, <<c, d>>), NotAbove(<<p, q>>, <<r, s>>)
  PROVE  NotAbove(Product(<<a, b>>, <<p, q>>), Product(<<c, d>>, <<r, s>>))
<1>1. a * d <= c * b /\ p * s <= r * q
  BY DEF NotAbove
<1>2. (a * d) * (p * s) <= (c * b) * (r * q)
  <2>1. a * d \in Nat /\ c * b \in Nat /\ p * s \in Nat /\ r * q \in Nat
    OBVIOUS
  <2> QED
    BY <1>1, <2>1, ProductsOrdered
<1>3. (a * d) * (p * s) = (a * p) * (d * s) /\ (c * b) * (r * q) = (c * r) * (b * q)
  OBVIOUS
<1> QED
  BY <1>2, <1>3 DEF NotAbove, Product

\* Only register_contradiction registers one, and only that one.
LEMMA NewContradiction ==
  ASSUME [Next]_vars, NEW c, NEW e, <<c, e>> \in contradictions' \ contradictions
  PROVE  RegisterContradiction(c, e)
<1>1. CrudStep => UNCHANGED contradictions
  BY DEF CrudStep, AddEntity, AddObservation, AddClaim, AddEvidence, contraStores
<1>2. RelationStep => UNCHANGED contradictions
  BY DEF RelationStep, AddRelation, contraStores
<1>3. RuleStep => UNCHANGED contradictions
  BY DEF RuleStep, RegisterRule, UpdateRuleStats, contraStores
<1>4. GapStep => UNCHANGED contradictions
  BY DEF GapStep, AddGap, ResolveGapsForEvidence, contraStores
<1>5. TransitionStep => UNCHANGED contradictions
  BY TransitionStepIsTransit DEF Transit, contraStores
<1>6. HintStep => UNCHANGED contradictions
  BY DEF HintStep, RegisterHintEvidenceTypes, UnregisterHintEvidenceTypes,
     ClearHintEvidenceTypes, SetHintEvidenceTypes, contraStores
<1>7. ASSUME ContradictionStep
      PROVE  RegisterContradiction(c, e)
  <2>1. PICK claim, evidence : \/ RegisterContradiction(claim, evidence)
                              \/ RegisterContradictionResolution(claim, evidence)
    BY <1>7 DEF ContradictionStep
  <2>2. CASE RegisterContradiction(claim, evidence)
    <3>1. <<claim, evidence>> = <<c, e>>
      BY <2>2 DEF RegisterContradiction
    <3> QED
      BY <2>2, <3>1
  <2>3. CASE RegisterContradictionResolution(claim, evidence)
    BY <2>3 DEF RegisterContradictionResolution
  <2> QED
    BY <2>1, <2>2, <2>3
<1> QED
  BY <1>1, <1>2, <1>3, <1>4, <1>5, <1>6, <1>7 DEF Next, vars, contraStores

\* The active set grows by the new contradiction, and what was read of the
\* evidences stays.
LEMMA ActiveGrows ==
  ASSUME ResolvedWereContradictions, NEW c, NEW e, RegisterContradiction(c, e)
  PROVE  /\ ActiveContradictionsForClaim(c)' =
              ActiveContradictionsForClaim(c) \cup {e}
         /\ e \notin ActiveContradictionsForClaim(c)
         /\ evidences' = evidences
<1>1. /\ evidences' = evidences /\ e \in DOMAIN evidences
      /\ contradictions' = contradictions \cup {<<c, e>>}
      /\ <<c, e>> \notin contradictions
      /\ resolvedContradictions' = resolvedContradictions
  BY DEF RegisterContradiction, crudStores
<1>2. <<c, e>> \notin resolvedContradictions
  BY <1>1 DEF ResolvedWereContradictions
<1>3. /\ ContradictionsForClaim(c)' = ContradictionsForClaim(c) \cup {e}
      /\ e \notin ContradictionsForClaim(c)
      /\ ResolvedContradictionsForClaim(c)' = ResolvedContradictionsForClaim(c)
      /\ e \notin ResolvedContradictionsForClaim(c)
  BY <1>1, <1>2 DEF ContradictionsForClaim, ResolvedContradictionsForClaim
<1> QED
  BY <1>1, <1>3 DEF ActiveContradictionsForClaim

\* The freshness factor does not rise: whichever is the freshest now is at least
\* as strong as the freshest before.
LEMMA FreshnessFalls ==
  ASSUME TypeOK, TypeOK', ResolvedWereContradictions,
         NEW c, NEW e, RegisterContradiction(c, e),
         \A other \in ActiveContradictionsForClaim(c) :
           evidences[other].strength <= evidences[e].strength
  PROVE  NotAbove(FreshnessModifierForClaim(c)', FreshnessModifierForClaim(c))
<1> DEFINE active == ActiveContradictionsForClaim(c)
<1>1. /\ active' = active \cup {e} /\ e \notin active
      /\ evidences' = evidences
      /\ evidences[e].strength \in 0 .. 10
  <2>1. active' = active \cup {e} /\ e \notin active /\ evidences' = evidences
    BY ActiveGrows
  <2>2. e \in DOMAIN evidences
    BY DEF RegisterContradiction
  <2> QED
    BY <2>1, <2>2 DEF TypeOK, CrudTypes, EvidenceRecord, ScoreValue
<1>2. /\ active \subseteq Nat
      /\ \A x \in active : evidences[x].strength \in 0 .. 10
      /\ active # {} => \E x \in active : IsFreshest(x, active)
  BY ActiveFacts DEF ScoreValue
<1>3. e \in Nat
  BY DEF RegisterContradiction, TypeOK, CounterTypes, IdsIssued, StorageForKind, Kinds
<1>4. ASSUME NEW x \in active \cup {e}, \A y \in active \cup {e} : y <= x
      PROVE  FreshnessModifierForClaim(c)' = FreshnessModifier(evidences[x].strength)
  <2>1. {y \in active' : IsFreshest(y, active')} = {x}
    BY <1>1, <1>2, <1>3, <1>4 DEF IsFreshest
  <2>2. AnyOf({x}) = x
    BY DEF AnyOf
  <2>3. FreshnessModifierForClaim(c)' =
          IF active' = {} THEN One
          ELSE FreshnessModifier(evidences'[AnyOf({y \in active' : IsFreshest(y, active')})].strength)
    BY DEF FreshnessModifierForClaim, IsFreshest
  <2> QED
    BY <1>1, <2>1, <2>2, <2>3
<1>5. CASE active = {}
  <2>1. FreshnessModifierForClaim(c) = <<1, 1>>
    BY <1>5 DEF FreshnessModifierForClaim, One
  <2>2. FreshnessModifierForClaim(c)' = <<20 - evidences[e].strength, 20>>
    BY <1>3, <1>4, <1>5 DEF FreshnessModifier
  <2> QED
    BY <1>1, <2>1, <2>2 DEF NotAbove
<1>6. CASE active # {}
  <2>1. PICK f \in active : IsFreshest(f, active)
    BY <1>2, <1>6
  <2>2. FreshnessModifierForClaim(c) = <<20 - evidences[f].strength, 20>>
    BY <2>1, FreshnessIsOfTheFreshest DEF FreshnessModifier
  <2>3. PICK x \in {e, f} : \A y \in active \cup {e} : y <= x
    <3>1. CASE e <= f
      BY <1>2, <1>3, <2>1, <3>1 DEF IsFreshest
    <3>2. CASE ~(e <= f)
      <4>1. \A y \in active : y <= e
        BY <1>2, <1>3, <2>1, <3>2 DEF IsFreshest
      <4> QED
        BY <1>3, <4>1
    <3> QED
      BY <3>1, <3>2
  <2>4. /\ evidences[x].strength \in 0 .. 10
        /\ evidences[f].strength \in 0 .. 10
        /\ evidences[f].strength <= evidences[x].strength
    BY <1>1, <1>2
  <2>5. FreshnessModifierForClaim(c)' = <<20 - evidences[x].strength, 20>>
    BY <1>4, <2>3 DEF FreshnessModifier
  <2> QED
    BY <2>2, <2>4, <2>5 DEF NotAbove
<1> QED
  BY <1>5, <1>6

\* What one more strength does to a sum of no greater ones.
LEMMA AverageRises ==
  ASSUME NEW n \in Nat, n >= 2, NEW t \in Nat, NEW s \in 0 .. 10, t <= s * n
  PROVE  NotAbove(<<40 * (n + 1) - (t + s), 40 * (n + 1)>>, <<40 * n - t, 40 * n>>)
<1>1. (40 * (n + 1) - (t + s)) * (40 * n) =
        1600 * (n * n) + 1600 * n - 40 * (t * n) - 40 * (s * n)
  OBVIOUS
<1>2. (40 * n - t) * (40 * (n + 1)) =
        1600 * (n * n) + 1600 * n - 40 * (t * n) - 40 * t
  OBVIOUS
<1>3. n * n \in Nat /\ t * n \in Nat /\ s * n \in Nat
  OBVIOUS
<1>4. 1600 * (n * n) + 1600 * n - 40 * (t * n) - 40 * (s * n)
        <= 1600 * (n * n) + 1600 * n - 40 * (t * n) - 40 * t
  BY <1>3
<1> QED
  BY <1>1, <1>2, <1>4 DEF NotAbove

\* The count factor does not rise: the average does not fall.
LEMMA CountFalls ==
  ASSUME TypeOK, TypeOK', ResolvedWereContradictions,
         NEW c, NEW e, RegisterContradiction(c, e),
         \A other \in ActiveContradictionsForClaim(c) :
           evidences[other].strength <= evidences[e].strength
  PROVE  NotAbove(CountModifierForClaim(c)', CountModifierForClaim(c))
<1> DEFINE active == ActiveContradictionsForClaim(c)
           n == Cardinality(active)
           t == ActiveStrengths(c)
           s == evidences[e].strength
<1>1. /\ active' = active \cup {e} /\ e \notin active
      /\ evidences' = evidences
      /\ e \in DOMAIN evidences
      /\ s \in 0 .. 10
  <2>1. active' = active \cup {e} /\ e \notin active /\ evidences' = evidences
    BY ActiveGrows
  <2>2. e \in DOMAIN evidences
    BY DEF RegisterContradiction
  <2> QED
    BY <2>1, <2>2 DEF TypeOK, CrudTypes, EvidenceRecord, ScoreValue
<1>2. /\ active \subseteq DOMAIN evidences
      /\ IsFiniteSet(active)
      /\ n \in Nat
      /\ \A x \in active : evidences[x].strength \in 0 .. 10
  BY ActiveFacts DEF ScoreValue
<1>3. /\ IsFiniteSet(active \cup {e})
      /\ Cardinality(active \cup {e}) = n + 1
  BY <1>1, <1>2, FS_AddElement
<1>4. t \in Nat /\ t <= s * n
  <2>1. \A x \in active : StrengthOf[x] \in 0 .. s
    BY <1>1, <1>2 DEF StrengthOf
  <2>2. s \in Nat
    BY <1>1
  <2> QED
    BY <1>2, <2>1, <2>2, SumBounded DEF ActiveStrengths
<1>5. SumFunctionOnSet(StrengthOf, active \cup {e}) = s + t
  <2>1. \A x \in active \cup {e} : StrengthOf[x] \in 0 .. 10
    BY <1>1, <1>2 DEF StrengthOf
  <2>2. (active \cup {e}) \ {e} = active
    BY <1>1
  <2>3. StrengthOf[e] = s
    BY <1>1 DEF StrengthOf
  <2> HIDE DEF active, s
  <2>4. SumFunctionOnSet(StrengthOf, active \cup {e}) =
          StrengthOf[e] + SumFunctionOnSet(StrengthOf, (active \cup {e}) \ {e})
    BY <1>3, <2>1, SumTakeAway
  <2> QED
    BY <2>2, <2>3, <2>4 DEF ActiveStrengths, active
<1>6. StrengthOf' = StrengthOf
  BY <1>1 DEF StrengthOf
<1>7. CountModifierForClaim(c)' = CountModifier(n + 1, s + t)
  BY <1>1, <1>3, <1>5, <1>6 DEF CountModifierForClaim, ActiveStrengths
<1>8. CountModifierForClaim(c) = CountModifier(n, t)
  BY DEF CountModifierForClaim
<1> HIDE DEF active, n, t, s
<1>9. CASE n = 0
  <2>1. CountModifierForClaim(c)' = <<1, 1>> /\ CountModifierForClaim(c) = <<1, 1>>
    BY <1>7, <1>8, <1>9 DEF CountModifier, One
  <2> QED
    BY <2>1 DEF NotAbove
<1>10. CASE n = 1
  <2>1. CountModifierForClaim(c)' = <<80 - (s + t), 80>>
    BY <1>7, <1>10 DEF CountModifier
  <2>2. CountModifierForClaim(c) = <<1, 1>>
    BY <1>8, <1>10 DEF CountModifier, One
  <2> QED
    BY <1>1, <1>4, <2>1, <2>2 DEF NotAbove
<1>11. CASE n >= 2
  <2>1. CountModifierForClaim(c)' = <<40 * (n + 1) - (t + s), 40 * (n + 1)>>
    BY <1>1, <1>2, <1>4, <1>7, <1>11 DEF CountModifier
  <2>2. CountModifierForClaim(c) = <<40 * n - t, 40 * n>>
    BY <1>2, <1>8, <1>11 DEF CountModifier
  <2> QED
    BY <1>1, <1>2, <1>4, <1>11, <2>1, <2>2, AverageRises
<1> QED
  BY <1>2, <1>9, <1>10, <1>11

\* What StrongContradictionNeverRaises says of one step.
NeverRaised ==
  \A c \in DOMAIN claims, e \in DOMAIN evidences :
    /\ <<c, e>> \in contradictions' \ contradictions
    /\ \A other \in ActiveContradictionsForClaim(c) :
         evidences[other].strength <= evidences[e].strength
    => NotAbove(Pressure(c)', Pressure(c))

\* The two factors of contradiction are fractions.
PressureIsFractions ==
  \A c : LET f == FreshnessModifierForClaim(c)
             g == CountModifierForClaim(c)
         IN  /\ f = <<f[1], f[2]>> /\ f[1] \in Nat /\ f[2] \in Nat
             /\ g = <<g[1], g[2]>> /\ g[1] \in Nat /\ g[2] \in Nat

LEMMA TypesMakeFractions == TypeOK => PressureIsFractions
  BY FreshnessBounds, CountBounds DEF PressureIsFractions

\* A step that adds a strong contradiction raises no pressure.
LEMMA StepNeverRaises ==
  TypeOK /\ ResolvedWereContradictions /\ [Next]_vars => NeverRaised
<1> SUFFICES ASSUME TypeOK, ResolvedWereContradictions, [Next]_vars,
                    NEW c \in DOMAIN claims, NEW e \in DOMAIN evidences,
                    <<c, e>> \in contradictions' \ contradictions,
                    \A other \in ActiveContradictionsForClaim(c) :
                      evidences[other].strength <= evidences[e].strength
             PROVE  NotAbove(Pressure(c)', Pressure(c))
  BY DEF NeverRaised
<1>1. TypeOK'
  BY TypeInductive
<1>2. RegisterContradiction(c, e)
  BY NewContradiction
<1> DEFINE f == FreshnessModifierForClaim(c)
           g == CountModifierForClaim(c)
<1>3. NotAbove(f', f) /\ NotAbove(g', g)
  BY <1>1, <1>2, FreshnessFalls, CountFalls
<1>4. PressureIsFractions /\ PressureIsFractions'
  BY <1>1, TypesMakeFractions, PTL
<1>5. /\ f = <<f[1], f[2]>> /\ f[1] \in Nat /\ f[2] \in Nat
      /\ g = <<g[1], g[2]>> /\ g[1] \in Nat /\ g[2] \in Nat
  BY <1>4 DEF PressureIsFractions
<1>6. /\ f' = <<f'[1], f'[2]>> /\ f'[1] \in Nat /\ f'[2] \in Nat
      /\ g' = <<g'[1], g'[2]>> /\ g'[1] \in Nat /\ g'[2] \in Nat
  BY <1>4 DEF PressureIsFractions
<1> HIDE DEF f, g
<1>7. NotAbove(Product(f', g'), Product(f, g))
  BY <1>3, <1>5, <1>6, PressureOrdered
<1>8. Pressure(c)' = Product(f', g') /\ Pressure(c) = Product(f, g)
  BY DEF Pressure, Product, f, g
<1> QED
  BY <1>7, <1>8

\* A contradiction at least as strong as every active one never raises the
\* confidence, however many there are and in whatever order they came.
THEOREM StrongContradictionAlwaysTells == Spec => StrongContradictionNeverRaises
<1>1. Init => ResolvedWereContradictions
  BY DEF Init, ResolvedWereContradictions
<1>2. ResolvedWereContradictions /\ [Next]_vars => ResolvedWereContradictions'
  BY ResolvedStayContradictions
<1> QED
  BY <1>1, <1>2, InitTypes, TypeInductive, StepNeverRaises, PTL
     DEF Spec, StrongContradictionNeverRaises, NeverRaised

----------------------------------------------------------------------------
\* How far one call reaches.

\* A step that leaves alone all that the factors of a claim are computed from.
Undisturbed(claim) ==
  /\ claims'[claim].status = claims[claim].status
  /\ claims'[claim].rule = claims[claim].rule
  /\ EvidencesForClaim(claim)' = EvidencesForClaim(claim)
  /\ ContradictionsForClaim(claim)' = ContradictionsForClaim(claim)
  /\ ResolvedContradictionsForClaim(claim)' = ResolvedContradictionsForClaim(claim)
  /\ UnresolvedGaps(claim)' = UnresolvedGaps(claim)
  /\ claims[claim].rule \in DOMAIN ruleStats' <=> claims[claim].rule \in DOMAIN ruleStats
  /\ claims[claim].rule \in DOMAIN ruleStats =>
       ruleStats'[claims[claim].rule] = ruleStats[claims[claim].rule]
  /\ hintEvidenceTypes' = hintEvidenceTypes

\* What is read the same gives the same factors.
LEMMA UndisturbedFactors ==
  ASSUME TypeOK, RegisteredKept, NEW c \in DOMAIN claims, Undisturbed(c)
  PROVE  Factors(c)' = Factors(c)
<1> DEFINE active == ActiveContradictionsForClaim(c)
<1>1. active' = active
  BY DEF Undisturbed, ActiveContradictionsForClaim
<1>2. \A e \in DOMAIN evidences : evidences'[e] = evidences[e] /\ e \in DOMAIN evidences'
  BY DEF RegisteredKept, Kept
<1>3. active \subseteq DOMAIN evidences /\ IsFiniteSet(active)
  BY ActiveFacts
<1>4. FreshnessModifierForClaim(c)' = FreshnessModifierForClaim(c)
  <2>1. CASE active = {}
    BY <1>1, <2>1 DEF FreshnessModifierForClaim
  <2>2. CASE active # {}
    <3> DEFINE freshest == {e \in active : IsFreshest(e, active)}
    <3>1. freshest' = freshest
      BY <1>1 DEF IsFreshest
    <3>2. freshest # {}
      BY <2>2, ActiveFacts
    <3>3. AnyOf(freshest) \in DOMAIN evidences
      BY <1>3, <3>2 DEF AnyOf
    <3>4. evidences'[AnyOf(freshest)] = evidences[AnyOf(freshest)]
      BY <1>2, <3>3
    <3>5. FreshnessModifierForClaim(c)' =
            IF active' = {} THEN One
            ELSE FreshnessModifier(evidences'[AnyOf(freshest')].strength)
      BY DEF FreshnessModifierForClaim, IsFreshest
    <3>6. FreshnessModifierForClaim(c) =
            IF active = {} THEN One
            ELSE FreshnessModifier(evidences[AnyOf(freshest)].strength)
      BY DEF FreshnessModifierForClaim
    <3> HIDE DEF active, freshest
    <3> QED
      BY <1>1, <3>1, <3>4, <3>5, <3>6
  <2> QED
    BY <2>1, <2>2
<1>5. GapModifierForClaim(c)' = GapModifierForClaim(c)
  BY DEF Undisturbed, GapModifierForClaim
<1>6. CountModifierForClaim(c)' = CountModifierForClaim(c)
  <2> DEFINE new == StrengthOf'
  <2>1. \A e \in active : new[e] = StrengthOf[e]
    BY <1>2, <1>3 DEF StrengthOf
  <2> HIDE DEF new
  <2>2. SumFunctionOnSet(new, active) = SumFunctionOnSet(StrengthOf, active)
    BY <1>3, <2>1, SumCongruent
  <2> USE DEF new
  <2>3. ActiveStrengths(c)' = ActiveStrengths(c)
    BY <1>1, <2>2 DEF ActiveStrengths
  <2> QED
    BY <1>1, <2>3 DEF CountModifierForClaim
<1>7. RuleStatsModifierForClaim(c)' = RuleStatsModifierForClaim(c)
  <2>1. StatsOf(c)' = StatsOf(c)
    BY DEF Undisturbed, StatsOf
  <2>2. CASE StatsOf(c) = {}
    BY <2>1, <2>2 DEF RuleStatsModifierForClaim
  <2>3. CASE StatsOf(c) # {}
    <3>1. /\ AnyOf(StatsOf(c)) = claims[c].rule
          /\ claims[c].rule \in DOMAIN ruleStats
      BY <2>3 DEF AnyOf, StatsOf
    <3>2. ruleStats'[AnyOf(StatsOf(c))] = ruleStats[AnyOf(StatsOf(c))]
      BY <3>1 DEF Undisturbed
    <3> QED
      BY <2>1, <2>3, <3>2 DEF RuleStatsModifierForClaim
  <2> QED
    BY <2>2, <2>3
<1>8. EvidenceTypeModifierForClaim(c)' = EvidenceTypeModifierForClaim(c)
  <2>1. DirectEvidence(c)' = DirectEvidence(c)
    BY DEF Undisturbed, DirectEvidence
  <2>2. DirectEvidence(c) \subseteq DOMAIN evidences
    BY DEF DirectEvidence, EvidencesForClaim
  <2>3. {evidences[e].type : e \in DirectEvidence(c)}' =
          {evidences[e].type : e \in DirectEvidence(c)}
    BY <1>2, <2>1, <2>2
  <2>4. hintEvidenceTypes' = hintEvidenceTypes
    BY DEF Undisturbed
  <2> QED
    BY <2>3, <2>4 DEF EvidenceTypeModifierForClaim
<1>9. StatusModifier(claims[c].status)' = StatusModifier(claims[c].status)
  BY DEF Undisturbed
<1> QED
  BY <1>4, <1>5, <1>6, <1>7, <1>8, <1>9 DEF Factors

\* What the reach of a step is argued from.
SpreadInv == GapInv /\ ResolvedWereContradictions

\* A claim whose stores are untouched, one by one.
LEMMA StoresUntouched ==
  ASSUME NEW c,
         claims'[c].status = claims[c].status, claims'[c].rule = claims[c].rule,
         UNCHANGED <<evidences, gaps, claimGapRefs, gapResolutions, ruleStats,
                     contradictions, resolvedContradictions, hintEvidenceTypes>>
  PROVE  Undisturbed(c)
  BY DEF Undisturbed, EvidencesForClaim, ContradictionsForClaim,
     ResolvedContradictionsForClaim, UnresolvedGaps, GapsForClaim

\* A new evidence bears on its own claim alone: nothing refers to its id yet.
LEMMA AddEvidenceReach ==
  ASSUME SpreadInv, NEW claim, NEW type, NEW strength,
         AddEvidence(claim, type, strength), NEW c \in DOMAIN claims, c # claim
  PROVE  Undisturbed(c)
<1> DEFINE id == NewId("evidence")
           new == [claim |-> claim, type |-> type, strength |-> strength]
<1>1. TypeOK /\ ReferencesResolve
  BY DEF SpreadInv, GapInv, ReferenceInv
<1>2. id \notin DOMAIN evidences
  BY <1>1, NewIdFresh DEF AddEvidence, StorageForKind, Kinds
<1>3. new.claim = claim
  OBVIOUS
<1>4. evidences' = Put(evidences, id, new)
  BY DEF AddEvidence
<1> HIDE DEF id, new
<1>5. /\ DOMAIN evidences' = DOMAIN evidences \cup {id}
      /\ evidences'[id].claim = claim
      /\ \A e \in DOMAIN evidences : evidences'[e] = evidences[e]
  BY <1>2, <1>3, <1>4 DEF Put
<1>6. /\ contradictions' = contradictions
      /\ resolvedContradictions' = resolvedContradictions
      /\ claims' = claims
      /\ UNCHANGED <<gaps, claimGapRefs, gapResolutions, ruleStats, hintEvidenceTypes>>
  BY DEF AddEvidence, contraStores, gapStores, ruleStores
<1>7. <<c, id>> \notin contradictions /\ <<c, id>> \notin resolvedContradictions
  BY <1>1, <1>2 DEF ReferencesResolve, SpreadInv, ResolvedWereContradictions
<1>8. EvidencesForClaim(c)' = EvidencesForClaim(c)
  BY <1>5 DEF EvidencesForClaim
<1>9. /\ ContradictionsForClaim(c)' = ContradictionsForClaim(c)
      /\ ResolvedContradictionsForClaim(c)' = ResolvedContradictionsForClaim(c)
  BY <1>5, <1>6, <1>7 DEF ContradictionsForClaim, ResolvedContradictionsForClaim
<1> QED
  BY <1>6, <1>8, <1>9 DEF Undisturbed, UnresolvedGaps, GapsForClaim

\* A call of the base stores reaches one claim at most.
LEMMA CrudStepReach ==
  ASSUME SpreadInv, CrudStep
  PROVE  \E k : \A c \in DOMAIN claims : c # k => Undisturbed(c)
<1> USE DEF gapStores, ruleStores, contraStores
<1>1. CASE AddEntity \/ \E entity \in Ids("entity") : AddObservation(entity)
  BY <1>1, StoresUntouched DEF AddEntity, AddObservation
<1>2. ASSUME NEW subject, NEW rule, NEW base, NEW status,
             AddClaim(subject, rule, base, status), NEW c \in DOMAIN claims
      PROVE  Undisturbed(c)
  <2>1. NewId("claim") \notin DOMAIN claims
    BY <1>2, NewIdFresh DEF AddClaim, StorageForKind, Kinds, SpreadInv, GapInv,
       ReferenceInv
  <2>2. claims'[c] = claims[c]
    BY <1>2, <2>1 DEF AddClaim, Put
  <2> QED
    BY <1>2, <2>2, StoresUntouched DEF AddClaim
<1> QED
  BY <1>1, <1>2, AddEvidenceReach DEF CrudStep

\* A gap is added to one claim; its id, when it is new, is referred to by none.
LEMMA AddGapReach ==
  ASSUME SpreadInv, NEW claim, NEW type, NEW required, NEW severity, NEW rule,
         AddGap(claim, type, required, severity, rule),
         NEW c \in DOMAIN claims, c # claim
  PROVE  Undisturbed(c)
<1> DEFINE key == DedupKey(claim, rule, type, required)
<1>1. TypeOK /\ ReferencesResolve
  BY DEF SpreadInv, GapInv, ReferenceInv
<1>2. UnresolvedGaps(c)' = UnresolvedGaps(c)
  <2>1. gapResolutions' = gapResolutions
    BY DEF AddGap
  <2>2. CASE key \in DOMAIN gapDedupIndex
    <3>1. /\ claimGapRefs' = claimGapRefs \cup {<<claim, gapDedupIndex[key]>>}
          /\ gaps' = gaps
      BY <2>2 DEF AddGap, ShareGap
    <3> QED
      BY <2>1, <3>1 DEF UnresolvedGaps, GapsForClaim
  <2>3. CASE key \notin DOMAIN gapDedupIndex
    <3>1. /\ claimGapRefs' = claimGapRefs \cup {<<claim, NewId("gap")>>}
          /\ DOMAIN gaps' = DOMAIN gaps \cup {NewId("gap")}
      BY <2>3 DEF AddGap, NewGap, Put
    <3>2. NewId("gap") \notin DOMAIN gaps
      BY <1>1, <2>3, NewIdFresh DEF AddGap, NewGap, StorageForKind, Kinds
    <3>3. <<c, NewId("gap")>> \notin claimGapRefs
      BY <1>1, <3>2 DEF ReferencesResolve
    <3>4. GapsForClaim(c)' = GapsForClaim(c)
      BY <3>1, <3>3 DEF GapsForClaim
    <3> QED
      BY <2>1, <3>4 DEF UnresolvedGaps
  <2> QED
    BY <2>2, <2>3
<1>3. UNCHANGED <<claims, evidences, ruleStats, contradictions,
                  resolvedContradictions, hintEvidenceTypes>>
  BY DEF AddGap, crudStores, ruleStores, contraStores
<1> QED
  BY <1>2, <1>3 DEF Undisturbed, EvidencesForClaim, ContradictionsForClaim,
     ResolvedContradictionsForClaim

\* An evidence closes gaps of its own claim; another claim is reached only when
\* it waits on one of them, and is then of the same subject.
LEMMA ResolveReach ==
  ASSUME SpreadInv, NEW evidence, ResolveGapsForEvidence(evidence),
         NEW c \in DOMAIN claims, ~Undisturbed(c)
  PROVE  LET k == evidences[evidence].claim
         IN  /\ k \in DOMAIN claims
             /\ claims[c].subject = claims[k].subject
             /\ GapsForClaim(c) \cap GapsForClaim(k) \cap JustClosed # {}
<1> DEFINE k == evidences[evidence].claim
           closed == GapsClosedBy(evidence)
<1>1. /\ DOMAIN gapResolutions' = DOMAIN gapResolutions \cup closed
      /\ evidence \in DOMAIN evidences
      /\ UNCHANGED <<claims, evidences, gaps, claimGapRefs, ruleStats,
                     contradictions, resolvedContradictions, hintEvidenceTypes>>
  BY DEF ResolveGapsForEvidence, crudStores, ruleStores, contraStores
<1>2. closed \subseteq GapsForClaim(k) \cap JustClosed
  BY <1>1 DEF GapsClosedBy, JustClosed
<1>3. PICK g \in closed : g \in GapsForClaim(c)
  <2>1. ASSUME GapsForClaim(c) \cap closed = {}
        PROVE  Undisturbed(c)
    <3>1. UnresolvedGaps(c)' = UnresolvedGaps(c)
      BY <1>1, <2>1 DEF UnresolvedGaps, GapsForClaim
    <3> QED
      BY <1>1, <3>1 DEF Undisturbed, EvidencesForClaim, ContradictionsForClaim,
         ResolvedContradictionsForClaim
  <2> QED
    BY <2>1
<1>4. k \in DOMAIN claims
  BY <1>1 DEF SpreadInv, GapInv, ReferenceInv, ReferencesResolve
<1>5. claims[c].subject = claims[k].subject
  <2>1. <<c, g>> \in claimGapRefs /\ <<k, g>> \in claimGapRefs
    BY <1>2, <1>3 DEF GapsForClaim
  <2>2. \A ref \in claimGapRefs : SubjectOf(ref[1]) = SubjectOf(gaps[ref[2]].claim)
    BY DEF SpreadInv, GapInv, SharingWithinSubject
  <2>3. /\ SubjectOf(c) = SubjectOf(gaps[g].claim)
        /\ SubjectOf(k) = SubjectOf(gaps[g].claim)
    BY <2>1, <2>2
  <2> QED
    BY <2>3 DEF SubjectOf
<1> QED
  BY <1>2, <1>3, <1>4, <1>5

\* A contradiction and its resolution are about one claim.
LEMMA ContradictionStepReach ==
  ASSUME ContradictionStep
  PROVE  \E k : \A c \in DOMAIN claims : c # k => Undisturbed(c)
<1>1. PICK claim, evidence : \/ RegisterContradiction(claim, evidence)
                            \/ RegisterContradictionResolution(claim, evidence)
  BY DEF ContradictionStep
<1>2. ASSUME NEW c, c # claim
      PROVE  Undisturbed(c)
  <2>1. UNCHANGED <<claims, evidences, gaps, claimGapRefs, gapResolutions,
                    ruleStats, hintEvidenceTypes>>
    BY <1>1 DEF RegisterContradiction, RegisterContradictionResolution,
       crudStores, gapStores, ruleStores
  <2>2. /\ ContradictionsForClaim(c)' = ContradictionsForClaim(c)
        /\ ResolvedContradictionsForClaim(c)' = ResolvedContradictionsForClaim(c)
    BY <1>1, <1>2, <2>1 DEF RegisterContradiction, RegisterContradictionResolution,
       ContradictionsForClaim, ResolvedContradictionsForClaim
  <2> QED
    BY <2>1, <2>2 DEF Undisturbed, EvidencesForClaim, UnresolvedGaps, GapsForClaim
<1> QED
  BY <1>2

\* A transition is of one claim.
LEMMA TransitionStepReach ==
  ASSUME TypeOK, TransitionStep
  PROVE  \E k : \A c \in DOMAIN claims : c # k => Undisturbed(c)
<1>1. PICK claim, to, transition : Transit(claim, to, transition)
  BY TransitionStepIsTransit
<1>2. ASSUME NEW c \in DOMAIN claims, c # claim
      PROVE  Undisturbed(c)
  <2>1. claims'[c] = claims[c]
    BY <1>1, <1>2 DEF Transit
  <2>2. UNCHANGED <<evidences, gaps, claimGapRefs, gapResolutions, ruleStats,
                    contradictions, resolvedContradictions, hintEvidenceTypes>>
    BY <1>1 DEF Transit, gapStores, ruleStores, contraStores
  <2> QED
    BY <2>1, <2>2, StoresUntouched
<1> QED
  BY <1>2

\* The statistics of a rule and version bear on the claims made by them.
LEMMA RuleStepReach ==
  ASSUME RuleStep
  PROVE  \E rule : \A c \in DOMAIN claims : claims[c].rule # rule => Undisturbed(c)
<1>1. PICK rule : \E stats :
        /\ ruleStats' = Put(ruleStats, rule, stats)
        /\ UNCHANGED <<crudStores, gapStores, contraStores, hintEvidenceTypes>>
  <2>1. ASSUME NEW rule, NEW maturity, RegisterRule(rule, maturity)
        PROVE  \E stats :
                 /\ ruleStats' = Put(ruleStats, rule, stats)
                 /\ UNCHANGED <<crudStores, gapStores, contraStores, hintEvidenceTypes>>
    BY <2>1 DEF RegisterRule
  <2>2. ASSUME NEW rule, NEW fired, NEW true, NEW false, NEW precision, NEW rate,
               UpdateRuleStats(rule, fired, true, false, precision, rate)
        PROVE  \E stats :
                 /\ ruleStats' = Put(ruleStats, rule, stats)
                 /\ UNCHANGED <<crudStores, gapStores, contraStores, hintEvidenceTypes>>
    BY <2>2 DEF UpdateRuleStats
  <2> QED
    BY <2>1, <2>2 DEF RuleStep
<1>2. ASSUME NEW c \in DOMAIN claims, claims[c].rule # rule
      PROVE  Undisturbed(c)
  <2>1. /\ claims[c].rule \in DOMAIN ruleStats' <=> claims[c].rule \in DOMAIN ruleStats
        /\ claims[c].rule \in DOMAIN ruleStats =>
             ruleStats'[claims[c].rule] = ruleStats[claims[c].rule]
    BY <1>1, <1>2 DEF Put
  <2> QED
    BY <1>1, <2>1 DEF Undisturbed, crudStores, gapStores, contraStores,
       EvidencesForClaim, ContradictionsForClaim, ResolvedContradictionsForClaim,
       UnresolvedGaps, GapsForClaim
<1> QED
  BY <1>2

\* What SpreadOnlyThroughShared says of one step.
Spread ==
  \A c, d \in DOMAIN claims :
    /\ c # d
    /\ Factors(c)' # Factors(c)
    /\ Factors(d)' # Factors(d)
    => \/ /\ claims[c].subject = claims[d].subject
          /\ \E k \in DOMAIN claims : \A x \in {c, d} :
               GapsForClaim(x) \cap GapsForClaim(k) \cap JustClosed # {}
       \/ claims[c].rule = claims[d].rule /\ ruleStats' # ruleStats
       \/ hintEvidenceTypes' # hintEvidenceTypes

\* What one step moves for two claims they share.
LEMMA StepSpreads == SpreadInv /\ [Next]_vars => Spread
<1> SUFFICES ASSUME SpreadInv, [Next]_vars,
                    NEW c \in DOMAIN claims, NEW d \in DOMAIN claims, c # d,
                    Factors(c)' # Factors(c), Factors(d)' # Factors(d),
                    UNCHANGED hintEvidenceTypes
             PROVE  \/ /\ claims[c].subject = claims[d].subject
                       /\ \E k \in DOMAIN claims : \A x \in {c, d} :
                            GapsForClaim(x) \cap GapsForClaim(k) \cap JustClosed # {}
                    \/ claims[c].rule = claims[d].rule /\ ruleStats' # ruleStats
  BY DEF Spread
<1>1. TypeOK
  BY DEF SpreadInv, GapInv, ReferenceInv
<1>2. RegisteredKept
  BY <1>1, StepKeeps
<1>3. ~Undisturbed(c) /\ ~Undisturbed(d)
  BY <1>1, <1>2, UndisturbedFactors
<1>4. ASSUME NEW k, \A x \in DOMAIN claims : x # k => Undisturbed(x)
      PROVE  FALSE
  BY <1>3, <1>4
<1>5. CASE CrudStep
  BY <1>4, <1>5, CrudStepReach
<1>6. CASE RelationStep
  <2>1. UNCHANGED <<claims, evidences, gaps, claimGapRefs, gapResolutions, ruleStats,
                    contradictions, resolvedContradictions>>
    BY <1>6 DEF RelationStep, AddRelation, crudStores, gapStores, ruleStores, contraStores
  <2> QED
    BY <1>3, <2>1, StoresUntouched
<1>7. CASE RuleStep
  <2>1. PICK rule : \A x \in DOMAIN claims : claims[x].rule # rule => Undisturbed(x)
    BY <1>7, RuleStepReach
  <2>2. claims[c].rule = claims[d].rule
    BY <1>3, <2>1
  <2>3. UNCHANGED <<crudStores, gapStores, contraStores>>
    BY <1>7 DEF RuleStep, RegisterRule, UpdateRuleStats
  <2>4. ASSUME UNCHANGED ruleStats
        PROVE  FALSE
    BY <1>3, <2>3, <2>4, StoresUntouched DEF crudStores, gapStores, contraStores
  <2> QED
    BY <2>2, <2>4
<1>8. CASE GapStep
  <2>1. ASSUME NEW claim, NEW type, NEW required, NEW severity, NEW rule,
               AddGap(claim, type, required, severity, rule)
        PROVE  FALSE
    BY <1>4, <2>1, AddGapReach
  <2>2. PICK evidence : ResolveGapsForEvidence(evidence)
    BY <1>8, <2>1 DEF GapStep
  <2> DEFINE k == evidences[evidence].claim
  <2>3. \A x \in {c, d} :
          /\ k \in DOMAIN claims
          /\ claims[x].subject = claims[k].subject
          /\ GapsForClaim(x) \cap GapsForClaim(k) \cap JustClosed # {}
    BY <1>3, <2>2, ResolveReach
  <2> HIDE DEF k
  <2> QED
    BY <2>3
<1>9. CASE ContradictionStep
  BY <1>4, <1>9, ContradictionStepReach
<1>10. CASE TransitionStep
  BY <1>1, <1>4, <1>10, TransitionStepReach
<1>11. CASE HintStep
  BY <1>11 DEF HintStep, RegisterHintEvidenceTypes, UnregisterHintEvidenceTypes,
     ClearHintEvidenceTypes, SetHintEvidenceTypes
<1>12. CASE UNCHANGED vars
  BY <1>3, <1>12, StoresUntouched
     DEF vars, crudStores, gapStores, contraStores, ruleStores
<1> QED
  BY <1>5, <1>6, <1>7, <1>8, <1>9, <1>10, <1>11, <1>12 DEF Next

\* One call moves the confidence of two claims only through a claim whose gaps
\* both wait on, through the rule that made both, or through the hint set.
THEOREM SpreadAlwaysThroughShared == Spec => SpreadOnlyThroughShared
<1>1. Init => SpreadInv
  BY InitGaps DEF Init, SpreadInv, ResolvedWereContradictions
<1>2. SpreadInv /\ [Next]_vars => SpreadInv'
  BY GapInductive, ResolvedStayContradictions DEF SpreadInv
<1> QED
  BY <1>1, <1>2, StepSpreads, PTL DEF Spec, SpreadOnlyThroughShared, Spread

----------------------------------------------------------------------------
\* Packets.

\* The fields of a packet; and those its trace is bracketed by.
Fields == {ReadOrder[i] : i \in 1 .. 11}

TraceFields ==
  {"identity_before_trace", "trace", "identity_after_trace", "legacy_effective"}

\* Which call is which.
LEMMA OrderOfReads ==
  /\ Len(ReadOrder) = 11
  /\ \A i \in 1 .. 11 :
       /\ ReadOrder[i] = "claim" <=> i = 1
       /\ ReadOrder[i] = "effective_confidence" <=> i = 2
       /\ ReadOrder[i] = "gaps" <=> i = 6
       /\ ReadOrder[i] = "lifecycle_history" <=> i = 7
       /\ ReadOrder[i] = "identity_before_trace" <=> i = 8
       /\ ReadOrder[i] \in TraceFields <=> i >= 8
       /\ \A j \in 1 .. 11 : ReadOrder[i] = ReadOrder[j] => i = j
<1>1. Len(PacketOrder) = 7 /\ Len(TraceOrder) = 4
  BY DEF PacketOrder, TraceOrder
<1> DEFINE names == {"claim", "effective_confidence", "supporting_evidence",
                     "contradictions", "active_contradictions", "gaps",
                     "lifecycle_history"} \cup TraceFields
<1>2. PacketOrder \in Seq(names) /\ TraceOrder \in Seq(names)
  BY DEF PacketOrder, TraceOrder, TraceFields
<1> HIDE DEF names
<1>3. /\ Len(ReadOrder) = Len(PacketOrder) + Len(TraceOrder)
      /\ \A i \in 1 .. Len(PacketOrder) + Len(TraceOrder) :
           ReadOrder[i] = IF i <= Len(PacketOrder) THEN PacketOrder[i]
                                                   ELSE TraceOrder[i - Len(PacketOrder)]
  BY <1>2, ConcatProperties, Zenon DEF ReadOrder
<1>4. Len(ReadOrder) = 11 /\ \A i \in 1 .. 7 : ReadOrder[i] = PacketOrder[i]
  BY <1>1, <1>3
<1>5. \A i \in 8 .. 11 : ReadOrder[i] = TraceOrder[i - 7]
  BY <1>1, <1>3
<1>6. /\ ReadOrder[1] = "claim"
      /\ ReadOrder[2] = "effective_confidence"
      /\ ReadOrder[3] = "supporting_evidence"
      /\ ReadOrder[4] = "contradictions"
      /\ ReadOrder[5] = "active_contradictions"
      /\ ReadOrder[6] = "gaps"
      /\ ReadOrder[7] = "lifecycle_history"
  BY <1>4 DEF PacketOrder
<1>7. /\ ReadOrder[8] = "identity_before_trace"
      /\ ReadOrder[9] = "trace"
      /\ ReadOrder[10] = "identity_after_trace"
      /\ ReadOrder[11] = "legacy_effective"
  BY <1>5 DEF TraceOrder
<1>8. \A i \in 1 .. 11 :
        \/ i = 1 \/ i = 2 \/ i = 3 \/ i = 4 \/ i = 5 \/ i = 6
        \/ i = 7 \/ i = 8 \/ i = 9 \/ i = 10 \/ i = 11
  OBVIOUS
<1> QED
  BY <1>4, <1>6, <1>7, <1>8 DEF TraceFields

LEMMA AnswerUnchanged ==
  ASSUME UNCHANGED vars, NEW claim, NEW field \in Fields
  PROVE  Answer(field, claim)' = Answer(field, claim)
<1>1. /\ ConfidenceOf(claim)' = ConfidenceOf(claim)
      /\ TraceOf(claim)' = TraceOf(claim)
  BY FactorsUnchanged, TraceUnchanged DEF ConfidenceOf, vars, crudStores
<1>2. UNCHANGED <<claims[claim], EvidencesForClaim(claim),
                  ContradictionsForClaim(claim), ActiveContradictionsForClaim(claim),
                  GapsForClaim(claim), ClaimLifecycleHistory(claim), StateIdentity>>
  BY DEF vars, crudStores, gapStores, contraStores, historyStores,
     EvidencesForClaim, ContradictionsForClaim, ActiveContradictionsForClaim,
     ResolvedContradictionsForClaim, GapsForClaim, ClaimLifecycleHistory,
     StateIdentity
<1> QED
  BY <1>1, <1>2 DEF Answer

\* What has been read is a first part of the sequence of calls.
CaptureShape ==
  /\ capture = [claim |-> capture.claim, start |-> capture.start,
                done |-> capture.done, read |-> capture.read,
                unchecked |-> capture.unchecked, unresolved |-> capture.unresolved]
  /\ capture.done \in 0 .. 11
  /\ DOMAIN capture.read = {ReadOrder[i] : i \in 1 .. capture.done}

\* The gaps that were looked up so far are among those that were read.
GapsUnderCheck ==
  IF "gaps" \in DOMAIN capture.read
  THEN capture.unchecked \subseteq capture.read["gaps"]
  ELSE capture.unchecked = {} /\ capture.unresolved = {}

\* An identity that was read, now or before.
IsPast(identity) == identity.revision \in Nat /\ identity.revision <= stateRevision

\* An identity that has not moved since the first read, or since the read
\* before the trace, vouches for what was read after it.
StartVouches ==
  /\ IsPast(capture.start)
  /\ capture.start = StateIdentity =>
       StillAnswers(DOMAIN capture.read) /\ GapsStillAnswer

TraceVouches ==
  "identity_before_trace" \in DOMAIN capture.read =>
    /\ IsPast(capture.read["identity_before_trace"])
    /\ capture.read["identity_before_trace"] = StateIdentity =>
         StillAnswers(AfterTraceBegan)

\* The inductive invariant of a capture.
CaptureInv ==
  /\ TypeOK
  /\ capture # NoCapture =>
       CaptureShape /\ GapsUnderCheck /\ StartVouches /\ TraceVouches

LEMMA BeginKeepsCapture ==
  ASSUME TypeOK, NEW claim, BeginCapture(claim)
  PROVE  CaptureShape' /\ GapsUnderCheck' /\ StartVouches' /\ TraceVouches'
<1> USE DEF BeginCapture, EmptyMap
<1>1. /\ capture' = [claim |-> claim, start |-> StateIdentity, done |-> 0,
                     read |-> EmptyMap, unchecked |-> {}, unresolved |-> {}]
      /\ DOMAIN capture'.read = {}
  OBVIOUS
<1>2. CaptureShape'
  BY <1>1 DEF CaptureShape
<1>3. GapsUnderCheck' /\ TraceVouches'
  BY <1>1 DEF GapsUnderCheck, TraceVouches
<1>4. StartVouches'
  BY <1>1 DEF StartVouches, IsPast, StillAnswers, GapsStillAnswer, StateIdentity,
     vars, TypeOK, CounterTypes
<1> QED
  BY <1>2, <1>3, <1>4

\* Another caller's step moves the engine away from every identity read.
LEMMA OtherCallerKeepsCapture ==
  ASSUME CaptureInv, capture # NoCapture, OtherCaller
  PROVE  CaptureShape' /\ GapsUnderCheck' /\ StartVouches' /\ TraceVouches'
<1>1. stateRevision' = stateRevision + 1 /\ stateRevision \in Nat /\ UNCHANGED capture
  BY StepMovesRevision DEF OtherCaller, CaptureInv, TypeOK, CounterTypes
<1>2. CaptureShape' /\ GapsUnderCheck'
  BY <1>1 DEF CaptureInv, CaptureShape, GapsUnderCheck
<1>3. ASSUME NEW identity, IsPast(identity)
      PROVE  IsPast(identity)' /\ identity # StateIdentity'
  BY <1>1, <1>3 DEF IsPast, StateIdentity
<1>4. StartVouches'
  <2>1. PICK start : start = capture.start
    OBVIOUS
  <2>2. IsPast(start)
    BY <2>1 DEF CaptureInv, StartVouches
  <2> QED
    BY <1>1, <1>3, <2>1, <2>2 DEF StartVouches
<1>5. TraceVouches'
  <2>1. PICK seen : seen = capture.read["identity_before_trace"]
    OBVIOUS
  <2>2. "identity_before_trace" \in DOMAIN capture.read => IsPast(seen)
    BY <2>1 DEF CaptureInv, TraceVouches
  <2> QED
    BY <1>1, <1>3, <2>1, <2>2 DEF TraceVouches
<1> QED
  BY <1>2, <1>4, <1>5

\* What was answered is still the answer while the engine rests.
LEMMA AnswersRest ==
  ASSUME CaptureShape, UNCHANGED vars, NEW field \in DOMAIN capture.read
  PROVE  Answer(field, capture.claim)' = Answer(field, capture'.claim)
<1>1. field \in Fields
  BY DEF CaptureShape, Fields
<1>2. PICK claim : claim = capture'.claim
  OBVIOUS
<1>3. Answer(field, claim)' = Answer(field, claim)
  BY <1>1, AnswerUnchanged
<1> QED
  BY <1>2, <1>3

LEMMA ReadNextKeepsCapture ==
  ASSUME CaptureInv, capture # NoCapture, ReadNext
  PROVE  CaptureShape' /\ GapsUnderCheck' /\ StartVouches' /\ TraceVouches'
<1> DEFINE claim == capture.claim
           i == capture.done + 1
           field == ReadOrder[i]
           value == Answer(field, claim)
<1>1. PICK c, f, n, v : c = claim /\ f = field /\ n = i /\ v = value
  OBVIOUS
<1>2. /\ n \in 1 .. 11
      /\ capture.done = n - 1
      /\ f = ReadOrder[n]
      /\ capture.unchecked = {}
  BY <1>1, OrderOfReads DEF ReadNext, MayRead, CaptureInv, CaptureShape
<1>3. /\ DOMAIN capture.read = {ReadOrder[k] : k \in 1 .. n - 1}
      /\ f \in Fields
      /\ DOMAIN capture.read \subseteq Fields
  BY <1>2 DEF CaptureInv, CaptureShape, Fields
<1>4. /\ f = "gaps" => "gaps" \notin DOMAIN capture.read
      /\ f = "identity_before_trace" => DOMAIN capture.read \cap TraceFields = {}
  BY <1>2, <1>3, OrderOfReads
<1>5. PICK unchecked : unchecked = IF f = "gaps" THEN GapsForClaim(c) ELSE {}
  OBVIOUS
<1>6. capture' = [claim |-> c, start |-> capture.start, done |-> n,
                  read |-> Put(capture.read, f, v), unchecked |-> unchecked,
                  unresolved |-> capture.unresolved]
  <2>1. capture' = AfterReading(f) /\ CaptureShape
    BY <1>1 DEF ReadNext, NextField, CaptureInv
  <2> QED
    BY <1>1, <1>5, <2>1 DEF AfterReading, CaptureShape
<1>7. /\ DOMAIN capture'.read = DOMAIN capture.read \cup {f}
      /\ capture'.read[f] = v
      /\ \A g \in DOMAIN capture.read : g # f => capture'.read[g] = capture.read[g]
  BY <1>6 DEF Put
<1>8. CaptureShape'
  <2>1. DOMAIN capture'.read = {ReadOrder[k] : k \in 1 .. n}
    BY <1>2, <1>3, <1>7
  <2> QED
    BY <1>2, <1>6, <2>1 DEF CaptureShape
<1>9. UNCHANGED vars /\ UNCHANGED stateRevision /\ UNCHANGED StateIdentity
      /\ UNCHANGED gapResolutions
  BY DEF ReadNext, vars, StateIdentity, gapStores
<1>10. \A g \in Fields : Answer(g, c)' = Answer(g, c)
  BY <1>9, AnswerUnchanged
<1>11. f = "gaps" => v = unchecked
  BY <1>1, <1>5 DEF Answer
<1>12. GapsUnderCheck'
  BY <1>2, <1>5, <1>6, <1>7, <1>11 DEF GapsUnderCheck, CaptureInv
<1>13. f \notin DOMAIN capture.read
  BY <1>2, <1>3, OrderOfReads
<1>14. \A g \in DOMAIN capture'.read :
         \/ g = f /\ capture'.read[g] = Answer(g, c)'
         \/ g \in DOMAIN capture.read /\ capture'.read[g] = capture.read[g]
  BY <1>1, <1>3, <1>7, <1>10, <1>13
<1>15. \A g \in DOMAIN capture.read :
         capture.read[g] = Answer(g, capture.claim) => capture.read[g] = Answer(g, c)'
  BY <1>1, <1>3, <1>10
<1>16. StartVouches'
  <2>1. IsPast(capture.start)'
    BY <1>6, <1>9 DEF StartVouches, IsPast, CaptureInv
  <2>2. ASSUME capture.start = StateIdentity
        PROVE  StillAnswers(DOMAIN capture.read)'
    <3>1. \A g \in DOMAIN capture.read : capture.read[g] = Answer(g, capture.claim)
      BY <2>2 DEF CaptureInv, StartVouches, StillAnswers
    <3>2. \A g \in DOMAIN capture'.read : capture'.read[g] = Answer(g, c)'
      BY <1>14, <1>15, <3>1
    <3> QED
      BY <1>6, <3>2 DEF StillAnswers
  <2>3. ASSUME capture.start = StateIdentity
        PROVE  GapsStillAnswer'
    <3>1. CASE f = "gaps"
      <4>1. capture.unresolved = {}
        BY <1>13, <3>1 DEF CaptureInv, GapsUnderCheck
      <4> QED
        BY <1>6, <1>7, <1>11, <3>1, <4>1 DEF GapsStillAnswer, CheckedGaps
    <3>2. CASE f # "gaps" /\ "gaps" \in DOMAIN capture.read
      <4>1. capture.unresolved = capture.read["gaps"] \ DOMAIN gapResolutions
        BY <1>2, <2>3, <3>2
           DEF CaptureInv, StartVouches, GapsStillAnswer, CheckedGaps
      <4> QED
        BY <1>5, <1>6, <1>7, <1>9, <3>2, <4>1 DEF GapsStillAnswer, CheckedGaps
    <3>3. CASE "gaps" \notin DOMAIN capture'.read
      BY <3>3 DEF GapsStillAnswer
    <3> QED
      BY <1>7, <3>1, <3>2, <3>3
  <2> QED
    BY <1>6, <1>9, <2>1, <2>2, <2>3 DEF StartVouches
<1>17. TraceVouches'
  <2>1. CASE f = "identity_before_trace"
    <3>1. v = StateIdentity
      BY <1>1, <2>1 DEF Answer
    <3>2. AfterTraceBegan' \subseteq {f}
      BY <1>4, <1>7, <2>1 DEF AfterTraceBegan, TraceFields
    <3>3. capture'.read[f] = Answer(f, c)'
      BY <1>1, <1>3, <1>7, <1>10
    <3>4. StillAnswers(AfterTraceBegan)'
      BY <1>6, <3>2, <3>3 DEF StillAnswers
    <3> QED
      BY <1>7, <1>9, <2>1, <3>1, <3>4
         DEF TraceVouches, IsPast, StateIdentity, CaptureInv, TypeOK, CounterTypes
  <2>2. CASE f # "identity_before_trace" /\ "identity_before_trace" \in DOMAIN capture.read
    <3>1. capture'.read["identity_before_trace"] = capture.read["identity_before_trace"]
      BY <1>7, <2>2
    <3>2. ASSUME capture.read["identity_before_trace"] = StateIdentity
          PROVE  StillAnswers(AfterTraceBegan)'
      <4>1. \A g \in AfterTraceBegan : capture.read[g] = Answer(g, capture.claim)
        BY <2>2, <3>2 DEF CaptureInv, TraceVouches, StillAnswers
      <4>2. \A g \in AfterTraceBegan' : capture'.read[g] = Answer(g, c)'
        BY <1>14, <1>15, <4>1 DEF AfterTraceBegan
      <4> QED
        BY <1>6, <4>2 DEF StillAnswers
    <3> QED
      BY <1>9, <2>2, <3>1, <3>2 DEF TraceVouches, IsPast, CaptureInv
  <2>3. CASE "identity_before_trace" \notin DOMAIN capture'.read
    BY <2>3 DEF TraceVouches
  <2> QED
    BY <1>7, <2>1, <2>2, <2>3
<1> QED
  BY <1>8, <1>12, <1>16, <1>17

LEMMA CheckGapKeepsCapture ==
  ASSUME CaptureInv, capture # NoCapture, CheckGap
  PROVE  CaptureShape' /\ GapsUnderCheck' /\ StartVouches' /\ TraceVouches'
<1>1. PICK gap \in capture.unchecked :
        capture' = [capture EXCEPT
                      !.unchecked = @ \ {gap},
                      !.unresolved = IF gap \in DOMAIN gapResolutions
                                     THEN @ ELSE @ \cup {gap}]
  BY DEF CheckGap
<1>2. /\ capture'.claim = capture.claim
      /\ capture'.start = capture.start
      /\ capture'.done = capture.done
      /\ capture'.read = capture.read
      /\ capture'.unchecked = capture.unchecked \ {gap}
      /\ capture'.unresolved = IF gap \in DOMAIN gapResolutions
                               THEN capture.unresolved
                               ELSE capture.unresolved \cup {gap}
  BY <1>1 DEF CaptureInv, CaptureShape
<1>3. CaptureShape'
  BY <1>1, <1>2 DEF CaptureInv, CaptureShape
<1>4. UNCHANGED vars /\ UNCHANGED stateRevision /\ UNCHANGED StateIdentity
      /\ UNCHANGED gapResolutions
  BY DEF CheckGap, vars, StateIdentity, gapStores
<1>5. GapsUnderCheck' /\ gap \in capture.read["gaps"]
  BY <1>2 DEF CaptureInv, GapsUnderCheck
<1>6. \A g \in DOMAIN capture.read :
        Answer(g, capture.claim)' = Answer(g, capture.claim)
  BY <1>2, <1>4, AnswersRest DEF CaptureInv
<1>7. StartVouches'
  BY <1>2, <1>4, <1>5, <1>6
     DEF CaptureInv, StartVouches, IsPast, StillAnswers, GapsStillAnswer, CheckedGaps
<1>8. TraceVouches'
  BY <1>2, <1>4, <1>6
     DEF CaptureInv, TraceVouches, IsPast, StillAnswers, AfterTraceBegan
<1> QED
  BY <1>3, <1>5, <1>7, <1>8

LEMMA RestKeepsCapture ==
  ASSUME CaptureInv, UNCHANGED captureVars
  PROVE  CaptureInv'
<1>1. UNCHANGED vars /\ UNCHANGED capture /\ UNCHANGED StateIdentity
      /\ UNCHANGED stateRevision /\ UNCHANGED gapResolutions
  BY DEF captureVars, vars, StateIdentity, gapStores
<1>2. TypeOK'
  BY <1>1, TypeInductive DEF CaptureInv
<1>3. ASSUME capture # NoCapture
      PROVE  CaptureShape' /\ GapsUnderCheck' /\ StartVouches' /\ TraceVouches'
  <2>1. \A g \in DOMAIN capture.read :
          Answer(g, capture.claim)' = Answer(g, capture.claim)
    BY <1>1, <1>3, AnswersRest DEF CaptureInv
  <2>2. CaptureShape' /\ GapsUnderCheck'
    BY <1>1, <1>3 DEF CaptureInv, CaptureShape, GapsUnderCheck
  <2>3. StartVouches'
    BY <1>1, <1>3, <2>1
       DEF CaptureInv, StartVouches, IsPast, StillAnswers, GapsStillAnswer, CheckedGaps
  <2>4. TraceVouches'
    BY <1>1, <1>3, <2>1
       DEF CaptureInv, TraceVouches, IsPast, StillAnswers, AfterTraceBegan
  <2> QED
    BY <2>2, <2>3, <2>4
<1> QED
  BY <1>1, <1>2, <1>3 DEF CaptureInv

LEMMA CaptureInductive == CaptureInv /\ [CaptureNext]_captureVars => CaptureInv'
<1> SUFFICES ASSUME CaptureInv, CaptureNext
             PROVE  CaptureInv'
  BY RestKeepsCapture
<1>1. TypeOK'
  BY TypeInductive DEF CaptureInv, CaptureNext, BeginCapture, Reading, ReadNext,
     CheckGap, Discard, OtherCaller
<1>2. ASSUME NEW claim, BeginCapture(claim)
      PROVE  CaptureInv'
  BY <1>1, <1>2, BeginKeepsCapture DEF CaptureInv
<1>3. CASE ReadNext
  BY <1>1, <1>3, ReadNextKeepsCapture DEF CaptureInv, ReadNext, MayRead
<1>4. CASE CheckGap
  BY <1>1, <1>4, CheckGapKeepsCapture DEF CaptureInv, CheckGap
<1>5. CASE Discard
  BY <1>1, <1>5 DEF CaptureInv, Discard
<1>6. CASE OtherCaller
  BY <1>1, <1>6, OtherCallerKeepsCapture DEF CaptureInv, OtherCaller
<1> QED
  BY <1>2, <1>3, <1>4, <1>5, <1>6 DEF CaptureNext, Reading

\* A packet or a trace whose first identity is still the engine's is of one
\* moment, however many calls it took and whatever the other callers tried.
THEOREM IdentityAlwaysVouches == CaptureSpec => []IdentityVouchesForReads
<1>1. CaptureInit => CaptureInv
  BY InitTypes DEF CaptureInit, CaptureInv
<1>2. CaptureInv => IdentityVouchesForReads
  BY DEF CaptureInv, StartVouches, TraceVouches, IdentityVouchesForReads
<1> QED
  BY <1>1, <1>2, CaptureInductive, PTL DEF CaptureSpec

----------------------------------------------------------------------------
\* The story a torn packet tells.

\* The statuses of a history are those of its events.
HistoriesAreEvents ==
  \A c : StatusesIn(ClaimLifecycleHistory(c)) =
           IF c \in DOMAIN claimLifecycleEvents
           THEN {e.from : e \in EventsOf(c)} \cup {e.to : e \in EventsOf(c)}
           ELSE {}

LEMMA TypesMakeEvents == TypeOK => HistoriesAreEvents
<1> SUFFICES ASSUME TypeOK, NEW c
             PROVE  StatusesIn(ClaimLifecycleHistory(c)) =
                      IF c \in DOMAIN claimLifecycleEvents
                      THEN {e.from : e \in EventsOf(c)} \cup {e.to : e \in EventsOf(c)}
                      ELSE {}
  BY DEF HistoriesAreEvents
<1>1. CASE c \notin DOMAIN claimLifecycleEvents
  BY <1>1 DEF StatusesIn, ClaimLifecycleHistory
<1>2. CASE c \in DOMAIN claimLifecycleEvents
  <2> DEFINE h == claimLifecycleEvents[c]
  <2>1. h \in Seq(LifecycleEvent)
    BY <1>2 DEF TypeOK, LifecycleTypes
  <2>2. ClaimLifecycleHistory(c) = h /\ EventsOf(c) = {h[i] : i \in 1 .. Len(h)}
    BY <1>2 DEF ClaimLifecycleHistory, EventsOf
  <2> HIDE DEF h
  <2>3. DOMAIN h = 1 .. Len(h)
    BY <2>1
  <2> QED
    BY <1>2, <2>2, <2>3 DEF StatusesIn
<1> QED
  BY <1>1, <1>2

\* A history only grows, and a status a claim leaves is in it.
LEMMA StatusesStayOnPath ==
  ASSUME HistoryInv, [Next]_vars, NEW c \in DOMAIN claims
  PROVE  /\ StatusesIn(ClaimLifecycleHistory(c)) \subseteq
              StatusesIn(ClaimLifecycleHistory(c))'
         /\ \/ claims'[c].status = claims[c].status
            \/ claims[c].status \in StatusesIn(ClaimLifecycleHistory(c))'
<1>1. TypeOK /\ TypeOK'
  BY TypeInductive DEF HistoryInv, GapInv, ReferenceInv
<1>2. HistoriesAreEvents /\ HistoriesAreEvents'
  BY <1>1, TypesMakeEvents, PTL
<1>3. CASE ~TransitionStep
  <2>1. claims'[c] = claims[c] /\ UNCHANGED claimLifecycleEvents
    BY <1>1, <1>3, OnlyTransitionsDecide DEF historyStores
  <2> QED
    BY <2>1 DEF StatusesIn, ClaimLifecycleHistory
<1>4. CASE TransitionStep
  <2>1. PICK claim \in DOMAIN claims, to \in ClaimStatuses, transition \in Transitions :
          Transit(claim, to, transition)
    BY <1>4, TransitionStepIsJustified DEF HistoryInv
  <2>2. PICK event : event = [seq |-> lifecycleSeq + 1, from |-> claims[claim].status,
                              to |-> to, transition |-> transition]
    OBVIOUS
  <2>3. event.from = claims[claim].status
    BY <2>2
  <2>4. /\ DOMAIN claimLifecycleEvents' = DOMAIN claimLifecycleEvents \cup {claim}
        /\ EventsOf(claim)' = (IF claim \in DOMAIN claimLifecycleEvents
                               THEN EventsOf(claim) ELSE {}) \cup {event}
        /\ \A x \in DOMAIN claimLifecycleEvents :
             x # claim => EventsOf(x)' = EventsOf(x)
    BY <1>1, <2>1, <2>2, TransitAddsEvent
  <2>5. CASE c = claim
    <3>1. StatusesIn(ClaimLifecycleHistory(c))' =
            {e.from : e \in EventsOf(c)'} \cup {e.to : e \in EventsOf(c)'}
      BY <1>2, <2>4, <2>5 DEF HistoriesAreEvents
    <3>2. event \in EventsOf(c)'
          /\ (c \in DOMAIN claimLifecycleEvents => EventsOf(c) \subseteq EventsOf(c)')
      BY <2>4, <2>5
    <3>3. StatusesIn(ClaimLifecycleHistory(c)) =
            IF c \in DOMAIN claimLifecycleEvents
            THEN {e.from : e \in EventsOf(c)} \cup {e.to : e \in EventsOf(c)}
            ELSE {}
      BY <1>2 DEF HistoriesAreEvents
    <3> QED
      BY <2>3, <2>5, <3>1, <3>2, <3>3
  <2>6. CASE c # claim
    <3>1. claims'[c] = claims[c]
      BY <1>1, <2>1, <2>6 DEF Transit, TypeOK, CrudTypes
    <3>2. c \in DOMAIN claimLifecycleEvents => EventsOf(c)' = EventsOf(c)
      BY <2>4, <2>6
    <3>3. c \in DOMAIN claimLifecycleEvents' <=> c \in DOMAIN claimLifecycleEvents
      BY <2>4, <2>6
    <3>4. StatusesIn(ClaimLifecycleHistory(c))' = StatusesIn(ClaimLifecycleHistory(c))
      BY <1>2, <3>2, <3>3 DEF HistoriesAreEvents
    <3> QED
      BY <3>1, <3>4
  <2> QED
    BY <2>5, <2>6
<1> QED
  BY <1>3, <1>4

\* What a history read now says of the status now.
HistoriesEndNow ==
  \A c : LET h == ClaimLifecycleHistory(c)
         IN  h # <<>> => /\ claims[c].status \in StatusesIn(h)
                         /\ h[Len(h)].to = claims[c].status

LEMMA HistoryTellsStatus == HistoryInv => HistoriesEndNow
<1> SUFFICES ASSUME HistoryInv, NEW c, ClaimLifecycleHistory(c) # <<>>
             PROVE  LET h == ClaimLifecycleHistory(c)
                    IN  /\ claims[c].status \in StatusesIn(h)
                        /\ h[Len(h)].to = claims[c].status
  BY DEF HistoriesEndNow
<1> DEFINE h == ClaimLifecycleHistory(c)
<1>1. c \in DOMAIN claimLifecycleEvents /\ h = claimLifecycleEvents[c]
  BY DEF ClaimLifecycleHistory
<1>2. h \in Seq(LifecycleEvent)
  BY <1>1 DEF HistoryInv, GapInv, ReferenceInv, TypeOK, LifecycleTypes
<1>3. Len(h) > 0 /\ h[Len(h)].to = claims[c].status
  BY <1>1 DEF HistoryInv, HistoryIsPathToStatus
<1> HIDE DEF h
<1>4. Len(h) \in DOMAIN h
  BY <1>2, <1>3
<1> QED
  BY <1>3, <1>4 DEF StatusesIn, h

\* The status the packet shows.
ReadStatus == capture.read["claim"].status

\* The status that was read is the claim's or one the claim has left, and a
\* claim read as refuted is refuted.
StatusOnPath ==
  "claim" \in DOMAIN capture.read =>
    /\ \/ claims[capture.claim].status = ReadStatus
       \/ ReadStatus \in StatusesIn(ClaimLifecycleHistory(capture.claim))
    /\ ReadStatus = "refuted" => claims[capture.claim].status = "refuted"

\* A confidence and a history read after it tell the same.
ConfidenceFits ==
  /\ "effective_confidence" \in DOMAIN capture.read
  /\ ReadStatus = "refuted"
  => IsZero(capture.read["effective_confidence"])

HistoryFits ==
  LET history == capture.read["lifecycle_history"]
  IN  "lifecycle_history" \in DOMAIN capture.read /\ history # <<>> =>
        /\ ReadStatus \in StatusesIn(history)
        /\ ReadStatus = "refuted" => history[Len(history)].to = "refuted"

\* The inductive invariant of a packet that may be torn.
StoryInv ==
  /\ HistoryInv
  /\ CaptureInv
  /\ capture # NoCapture =>
       /\ capture.claim \in DOMAIN claims
       /\ StatusOnPath
       /\ ConfidenceFits
       /\ HistoryFits

\* One call reads one more field, in the order of the calls.
LEMMA ReadNextReads ==
  ASSUME CaptureInv, capture # NoCapture, ReadNext
  PROVE  \E n \in 1 .. 11 :
           /\ capture.done = n - 1
           /\ capture'.claim = capture.claim
           /\ DOMAIN capture'.read = DOMAIN capture.read \cup {ReadOrder[n]}
           /\ ReadOrder[n] \notin DOMAIN capture.read
           /\ capture'.read[ReadOrder[n]] = Answer(ReadOrder[n], capture.claim)
           /\ \A g \in DOMAIN capture.read : capture'.read[g] = capture.read[g]
<1> DEFINE n == capture.done + 1
           f == ReadOrder[n]
           v == Answer(f, capture.claim)
<1>1. /\ n \in 1 .. 11 /\ capture.done = n - 1
      /\ DOMAIN capture.read = {ReadOrder[k] : k \in 1 .. n - 1}
  BY OrderOfReads DEF ReadNext, MayRead, CaptureInv, CaptureShape
<1>2. f \notin DOMAIN capture.read
  BY <1>1, OrderOfReads
<1>3. capture'.claim = capture.claim /\ capture'.read = Put(capture.read, f, v)
  BY DEF ReadNext, NextField, AfterReading, CaptureInv, CaptureShape
<1> HIDE DEF v, n
<1>4. /\ DOMAIN capture'.read = DOMAIN capture.read \cup {f}
      /\ capture'.read[f] = v
      /\ \A g \in DOMAIN capture.read : capture'.read[g] = capture.read[g]
  BY <1>2, <1>3 DEF Put
<1> QED
  BY <1>1, <1>2, <1>3, <1>4 DEF v

LEMMA ReadNextKeepsStory ==
  ASSUME StoryInv, capture # NoCapture, ReadNext
  PROVE  capture'.claim \in DOMAIN claims' /\ StatusOnPath' /\ ConfidenceFits'
         /\ HistoryFits'
<1>1. PICK n \in 1 .. 11 :
        /\ capture.done = n - 1
        /\ capture'.claim = capture.claim
        /\ DOMAIN capture'.read = DOMAIN capture.read \cup {ReadOrder[n]}
        /\ ReadOrder[n] \notin DOMAIN capture.read
        /\ capture'.read[ReadOrder[n]] = Answer(ReadOrder[n], capture.claim)
        /\ \A g \in DOMAIN capture.read : capture'.read[g] = capture.read[g]
  BY ReadNextReads DEF StoryInv
<1>2. PICK f, c : f = ReadOrder[n] /\ c = capture.claim
  OBVIOUS
<1>3. /\ claims' = claims
      /\ claimLifecycleEvents' = claimLifecycleEvents
      /\ c \in DOMAIN claims
  BY <1>2 DEF ReadNext, vars, crudStores, historyStores, StoryInv
<1>4. ClaimLifecycleHistory(c)' = ClaimLifecycleHistory(c)
  BY <1>3 DEF ClaimLifecycleHistory
<1>5. DOMAIN capture.read = {ReadOrder[i] : i \in 1 .. n - 1}
  BY <1>1 DEF StoryInv, CaptureInv, CaptureShape
<1>6. /\ f = "claim" => DOMAIN capture.read = {}
      /\ f = "effective_confidence" =>
           "claim" \in DOMAIN capture.read /\ "lifecycle_history" \notin DOMAIN capture.read
      /\ f = "lifecycle_history" => "claim" \in DOMAIN capture.read
      /\ "effective_confidence" \in DOMAIN capture.read => "claim" \in DOMAIN capture.read
      /\ "lifecycle_history" \in DOMAIN capture.read => "claim" \in DOMAIN capture.read
  <2>1. "claim" \in DOMAIN capture.read <=> 1 < n
    <3>1. 1 < n => 1 \in 1 .. n - 1 /\ ReadOrder[1] = "claim"
      BY OrderOfReads
    <3> QED
      BY <1>5, <3>1, OrderOfReads
  <2>2. \A g \in DOMAIN capture.read :
          g = "effective_confidence" \/ g = "lifecycle_history" => 2 < n
    BY <1>5, OrderOfReads
  <2>3. "lifecycle_history" \in DOMAIN capture.read => 7 < n
    BY <1>5, OrderOfReads
  <2>4. /\ f = "claim" => n = 1
        /\ f = "effective_confidence" => n = 2
        /\ f = "lifecycle_history" => n = 7
    BY <1>2, OrderOfReads
  <2> QED
    BY <1>5, <2>1, <2>2, <2>3, <2>4
<1>7. CASE f = "claim"
  <2>1. capture'.read["claim"] = claims[c] /\ DOMAIN capture'.read = {"claim"}
    BY <1>1, <1>2, <1>6, <1>7 DEF Answer
  <2> QED
    BY <1>1, <1>2, <1>3, <2>1 DEF StatusOnPath, ConfidenceFits, HistoryFits, ReadStatus
<1>8. CASE f # "claim" /\ "claim" \in DOMAIN capture.read
  <2>1. ReadStatus' = ReadStatus
    BY <1>1, <1>8 DEF ReadStatus
  <2>2. StatusOnPath /\ ConfidenceFits /\ HistoryFits
    BY DEF StoryInv
  <2>3. StatusOnPath'
    BY <1>1, <1>2, <1>3, <1>4, <1>8, <2>1, <2>2 DEF StatusOnPath
  <2>4. ConfidenceFits'
    <3>1. CASE f = "effective_confidence" /\ ReadStatus = "refuted"
      <4>1. claims[c].status = "refuted"
        BY <1>2, <1>8, <2>2, <3>1 DEF StatusOnPath
      <4>2. IsZero(TraceOf(c))
        BY <4>1, ZeroMeans
           DEF ZeroIsRefutationOrBase, StoryInv, HistoryInv, GapInv, ReferenceInv
      <4>3. IsZero(ConfidenceOf(c))
        BY <4>2 DEF IsZero, TraceOf, ConfidenceOf
      <4>4. capture'.read["effective_confidence"] = ConfidenceOf(c)
        BY <1>1, <1>2, <3>1 DEF Answer
      <4> QED
        BY <4>3, <4>4 DEF ConfidenceFits
    <3>2. CASE "effective_confidence" \in DOMAIN capture.read
      <4>1. capture'.read["effective_confidence"] = capture.read["effective_confidence"]
        BY <1>1, <3>2
      <4> QED
        BY <2>1, <2>2, <3>2, <4>1 DEF ConfidenceFits
    <3> QED
      BY <1>1, <1>2, <2>1, <3>1, <3>2 DEF ConfidenceFits
  <2>5. HistoryFits'
    <3>1. CASE f = "lifecycle_history"
      <4>1. capture'.read["lifecycle_history"] = ClaimLifecycleHistory(c)
        BY <1>1, <1>2, <3>1 DEF Answer
      <4>2. HistoriesEndNow
        BY HistoryTellsStatus DEF StoryInv
      <4> QED
        BY <1>2, <1>8, <2>1, <2>2, <4>1, <4>2
           DEF HistoryFits, StatusOnPath, HistoriesEndNow
    <3>2. CASE "lifecycle_history" \in DOMAIN capture.read
      <4>1. capture'.read["lifecycle_history"] = capture.read["lifecycle_history"]
        BY <1>1, <3>2
      <4> QED
        BY <2>1, <2>2, <3>2, <4>1 DEF HistoryFits
    <3> QED
      BY <1>1, <1>2, <3>1, <3>2 DEF HistoryFits
  <2> QED
    BY <1>1, <1>2, <1>3, <2>3, <2>4, <2>5
<1>9. CASE f # "claim" /\ "claim" \notin DOMAIN capture.read
  BY <1>1, <1>2, <1>3, <1>6, <1>9 DEF StatusOnPath, ConfidenceFits, HistoryFits
<1> QED
  BY <1>7, <1>8, <1>9

\* Another caller's step moves the claim along its path, no further.
LEMMA OtherCallerKeepsStory ==
  ASSUME StoryInv, capture # NoCapture, OtherCaller
  PROVE  capture'.claim \in DOMAIN claims' /\ StatusOnPath' /\ ConfidenceFits'
         /\ HistoryFits'
<1>1. UNCHANGED capture /\ HistoryInv /\ capture.claim \in DOMAIN claims /\ Next
  BY DEF OtherCaller, StoryInv
<1>2. PICK c : c = capture.claim
  OBVIOUS
<1>3. c \in DOMAIN claims'
  BY <1>1, <1>2, StepKeeps DEF HistoryInv, GapInv, ReferenceInv, RegisteredKept
<1>4. /\ StatusesIn(ClaimLifecycleHistory(c)) \subseteq
           StatusesIn(ClaimLifecycleHistory(c))'
      /\ \/ claims'[c].status = claims[c].status
         \/ claims[c].status \in StatusesIn(ClaimLifecycleHistory(c))'
      /\ claims[c].status = "refuted" => claims'[c].status = "refuted"
  BY <1>1, <1>2, StatusesStayOnPath, RefutedStays
<1>5. StatusOnPath'
  BY <1>1, <1>2, <1>4 DEF StatusOnPath, ReadStatus, StoryInv
<1> QED
  BY <1>1, <1>2, <1>3, <1>5 DEF ConfidenceFits, HistoryFits, ReadStatus, StoryInv

LEMMA RestKeepsStory ==
  ASSUME StoryInv, capture # NoCapture, UNCHANGED vars,
         capture'.claim = capture.claim, capture'.read = capture.read
  PROVE  capture'.claim \in DOMAIN claims' /\ StatusOnPath' /\ ConfidenceFits'
         /\ HistoryFits'
  BY DEF StoryInv, StatusOnPath, ConfidenceFits, HistoryFits, ReadStatus, vars,
     crudStores, historyStores, ClaimLifecycleHistory

LEMMA StoryInductive == StoryInv /\ [CaptureNext]_captureVars => StoryInv'
<1> SUFFICES ASSUME StoryInv, [CaptureNext]_captureVars
             PROVE  StoryInv'
  OBVIOUS
<1>1. [Next]_vars
  BY DEF CaptureNext, BeginCapture, Reading, ReadNext, CheckGap, Discard,
     OtherCaller, captureVars
<1>2. HistoryInv' /\ CaptureInv'
  BY <1>1, HistoryInductive, CaptureInductive DEF StoryInv
<1>3. ASSUME NEW claim, BeginCapture(claim)
      PROVE  StoryInv'
  <2>1. capture'.claim = claim /\ DOMAIN capture'.read = {} /\ claim \in DOMAIN claims'
    BY <1>3 DEF BeginCapture, EmptyMap, vars, crudStores
  <2> QED
    BY <1>2, <2>1 DEF StoryInv, StatusOnPath, ConfidenceFits, HistoryFits
<1>4. CASE ReadNext
  BY <1>2, <1>4, ReadNextKeepsStory DEF StoryInv, ReadNext, MayRead
<1>5. CASE CheckGap
  <2>1. /\ capture # NoCapture /\ UNCHANGED vars
        /\ capture'.claim = capture.claim /\ capture'.read = capture.read
    BY <1>5 DEF CheckGap, StoryInv, CaptureInv, CaptureShape
  <2> QED
    BY <1>2, <2>1, RestKeepsStory DEF StoryInv
<1>6. CASE Discard
  BY <1>2, <1>6 DEF StoryInv, Discard
<1>7. CASE OtherCaller
  BY <1>2, <1>7, OtherCallerKeepsStory DEF StoryInv, OtherCaller
<1>8. CASE UNCHANGED captureVars
  BY <1>2, <1>8, RestKeepsStory DEF StoryInv, captureVars
<1> QED
  BY <1>3, <1>4, <1>5, <1>6, <1>7, <1>8 DEF CaptureNext, Reading

\* A complete packet, read across any changes by any callers, tells one story.
THEOREM TornPacketAlwaysTellsOneStory == CaptureSpec => []TornPacketTellsOneStory
<1>1. CaptureInit => StoryInv
  BY InitTypes, InitHistory DEF CaptureInit, CaptureInv, StoryInv
<1>2. StoryInv => TornPacketTellsOneStory
  <2> SUFFICES ASSUME StoryInv, Complete
               PROVE  /\ ConfidenceFits /\ HistoryFits
                      /\ {"effective_confidence", "lifecycle_history"}
                           \subseteq DOMAIN capture.read
    BY DEF TornPacketTellsOneStory, ConfidenceFits, HistoryFits, ReadStatus
  <2>1. capture # NoCapture /\ capture.done = 11
    BY OrderOfReads DEF Complete
  <2>2. DOMAIN capture.read = {ReadOrder[i] : i \in 1 .. 11}
    BY <2>1 DEF StoryInv, CaptureInv, CaptureShape
  <2>3. ReadOrder[2] = "effective_confidence" /\ ReadOrder[7] = "lifecycle_history"
    BY OrderOfReads
  <2> QED
    BY <2>1, <2>2, <2>3 DEF StoryInv
<1> QED
  BY <1>1, <1>2, StoryInductive, PTL DEF CaptureSpec
=============================================================================
