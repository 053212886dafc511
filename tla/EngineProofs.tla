---------------------------- MODULE EngineProofs ----------------------------
(***************************************************************************)
(* What holds of the Engine for every value of the constants: types, what  *)
(* no step of it may do (alter or withdraw what was registered, move the   *)
(* identity without the state), references and gaps, histories and what    *)
(* their decisions rest on.  The proofs about its clients build on these.  *)
(***************************************************************************)
EXTENDS EngineProperties, TLAPS

----------------------------------------------------------------------------
\* Types, and what no step may do.

\* What Put does to a map: one key more, one value new, the rest kept.
LEMMA PutFacts ==
  ASSUME NEW map, NEW key, NEW value
  PROVE  /\ DOMAIN Put(map, key, value) = DOMAIN map \cup {key}
         /\ Put(map, key, value)[key] = value
         /\ \A x \in DOMAIN map : x # key => Put(map, key, value)[x] = map[x]
  BY DEF Put

\* A map of T values stays one when a T value is put in it.
LEMMA PutType ==
  ASSUME NEW T, NEW map, map \in [DOMAIN map -> T], NEW key, NEW value \in T
  PROVE  Put(map, key, value) \in [DOMAIN Put(map, key, value) -> T]
  BY DEF Put

\* Allocation issues one more id of its kind and touches no other counter.
LEMMA AllocateFacts ==
  ASSUME CounterTypes, NEW kind \in Kinds, AllocateId(kind)
  PROVE  /\ nextId' \in [Kinds -> Nat]
         /\ nextId'[kind] = nextId[kind] + 1
         /\ NewId(kind) = nextId'[kind]
         /\ NewId(kind) \in Nat \ {0}
         /\ \A other \in Kinds : other # kind => nextId'[other] = nextId[other]
  BY DEF CounterTypes, AllocateId, NewId

\* Ids stay issued when one store grows by the id just allocated.
LEMMA IdsStayIssued ==
  ASSUME CounterTypes, IdsIssued, NEW kind \in Kinds, AllocateId(kind),
         StorageForKind(kind)' = StorageForKind(kind) \cup {NewId(kind)},
         \A other \in Kinds : other # kind =>
           StorageForKind(other)' = StorageForKind(other)
  PROVE  IdsIssued'
<1> SUFFICES ASSUME NEW k \in Kinds
             PROVE  StorageForKind(k)' \subseteq 1 .. nextId'[k]
  BY DEF IdsIssued
<1>1. StorageForKind(k) \subseteq 1 .. nextId[k]
  BY DEF IdsIssued
<1>2. CASE k = kind
  BY <1>1, <1>2, AllocateFacts DEF CounterTypes
<1>3. CASE k # kind
  BY <1>1, <1>3, AllocateFacts
<1> QED
  BY <1>2, <1>3

----------------------------------------------------------------------------
\* Each step keeps each part of the type invariant.

\* The three calls that rule_runtime makes of its own, with any arguments of the
\* right types; AddClaim and AddGap check the scores and the status themselves.
LEMMA AddClaimTypes ==
  ASSUME TypeOK, NEW subject, NEW rule \in RuleKeys, NEW base, NEW status,
         AddClaim(subject, rule, base, status)
  PROVE  TypeOK'
<1> USE DEF TypeOK
<1>1. CounterTypes'
  BY AllocateFacts DEF AddClaim, CounterTypes, AdvanceStateRevision, Kinds
<1>2. subject \in Nat
  BY DEF AddClaim, IdsIssued, StorageForKind, Kinds
<1> DEFINE new == [subject |-> subject, rule |-> rule, base |-> base,
                   status |-> status]
<1>3. new \in ClaimRecord
  BY <1>2 DEF AddClaim, ClaimRecord
<1>4. claims' = Put(claims, NewId("claim"), new)
  BY DEF AddClaim
<1> HIDE DEF new
<1>5. claims' \in [DOMAIN claims' -> ClaimRecord]
  BY <1>3, <1>4, PutType DEF CrudTypes
<1>6. CrudTypes' /\ RuleTypes' /\ GapStoreTypes' /\ LifecycleTypes'
  BY <1>5 DEF AddClaim, CrudTypes, RuleTypes, GapStoreTypes,
     LifecycleTypes, ruleStores, gapStores, contraStores, historyStores
<1>7. DOMAIN claims' = DOMAIN claims \cup {NewId("claim")}
  BY <1>4, PutFacts
<1>8. IdsIssued'
  BY <1>7, IdsStayIssued DEF AddClaim, StorageForKind, Kinds, gapStores
<1> QED
  BY <1>1, <1>6, <1>8

LEMMA AddEvidenceTypes ==
  ASSUME TypeOK, NEW claim, NEW type \in EvidenceTypes, NEW strength,
         AddEvidence(claim, type, strength)
  PROVE  TypeOK'
<1> USE DEF TypeOK
<1>1. CounterTypes'
  BY AllocateFacts DEF AddEvidence, CounterTypes, AdvanceStateRevision, Kinds
<1>2. claim \in Nat
  BY DEF AddEvidence, IdsIssued, StorageForKind, Kinds
<1> DEFINE new == [claim |-> claim, type |-> type, strength |-> strength]
<1>3. new \in EvidenceRecord
  BY <1>2 DEF AddEvidence, EvidenceRecord
<1>4. evidences' = Put(evidences, NewId("evidence"), new)
  BY DEF AddEvidence
<1> HIDE DEF new
<1>5. evidences' \in [DOMAIN evidences' -> EvidenceRecord]
  BY <1>3, <1>4, PutType DEF CrudTypes
<1>6. CrudTypes' /\ RuleTypes' /\ GapStoreTypes' /\ LifecycleTypes'
  BY <1>5 DEF AddEvidence, CrudTypes, RuleTypes, GapStoreTypes,
     LifecycleTypes, ruleStores, gapStores, contraStores, historyStores
<1>7. DOMAIN evidences' = DOMAIN evidences \cup {NewId("evidence")}
  BY <1>4, PutFacts
<1>8. IdsIssued'
  BY <1>7, IdsStayIssued DEF AddEvidence, StorageForKind, Kinds, gapStores
<1> QED
  BY <1>1, <1>6, <1>8

LEMMA CrudStepTypes == TypeOK /\ CrudStep => TypeOK'
<1> SUFFICES ASSUME TypeOK, CrudStep
             PROVE  TypeOK'
  OBVIOUS
<1> USE DEF TypeOK
<1>1. CASE AddEntity
  <2>1. CounterTypes'
    BY <1>1, AllocateFacts DEF AddEntity, CounterTypes, AdvanceStateRevision, Kinds
  <2>2. CrudTypes' /\ RuleTypes' /\ GapStoreTypes' /\ LifecycleTypes'
    BY <1>1 DEF AddEntity, CrudTypes, RuleTypes, GapStoreTypes, LifecycleTypes,
       ruleStores, gapStores, contraStores, historyStores
  <2>3. IdsIssued'
    BY <1>1, IdsStayIssued DEF AddEntity, StorageForKind, Kinds, gapStores
  <2> QED
    BY <2>1, <2>2, <2>3
<1>2. ASSUME NEW entity \in Ids("entity"), AddObservation(entity)
      PROVE  TypeOK'
  <2>1. CounterTypes'
    BY <1>2, AllocateFacts DEF AddObservation, CounterTypes, AdvanceStateRevision, Kinds
  <2>2. entity \in Nat
    BY <1>2 DEF AddObservation, IdsIssued, StorageForKind, Kinds
  <2>3. observations' \in [DOMAIN observations' -> Nat]
    BY <1>2, <2>2, PutType DEF AddObservation, CrudTypes
  <2>4. CrudTypes' /\ RuleTypes' /\ GapStoreTypes' /\ LifecycleTypes'
    BY <1>2, <2>3 DEF AddObservation, CrudTypes, RuleTypes, GapStoreTypes,
       LifecycleTypes, ruleStores, gapStores, contraStores, historyStores
  <2>5. IdsIssued'
    BY <1>2, IdsStayIssued, PutFacts
       DEF AddObservation, StorageForKind, Kinds, gapStores
  <2> QED
    BY <2>1, <2>4, <2>5
<1>3. ASSUME NEW subject \in Ids("entity"), NEW rule \in RuleKeys,
             NEW base \in Scores, NEW status \in CreationStatuses,
             AddClaim(subject, rule, base, status)
      PROVE  TypeOK'
  BY <1>3, AddClaimTypes DEF TypeOK
<1>4. ASSUME NEW claim \in Ids("claim"), NEW type \in EvidenceTypes,
             NEW strength \in Strengths, AddEvidence(claim, type, strength)
      PROVE  TypeOK'
  BY <1>4, AddEvidenceTypes DEF TypeOK
<1> HIDE DEF TypeOK
<1> QED
  BY <1>1, <1>2, <1>3, <1>4 DEF CrudStep

\* Steps that allocate no id and leave the stores' domains alone.
LEMMA IdsStayIssuedUnmoved ==
  ASSUME IdsIssued, nextId' = nextId,
         \A kind \in Kinds : StorageForKind(kind)' = StorageForKind(kind)
  PROVE  IdsIssued'
  BY DEF IdsIssued

LEMMA RelationStepTypes == TypeOK /\ RelationStep => TypeOK'
<1> SUFFICES ASSUME TypeOK,
                    NEW from \in [kind : Kinds, id : UNION {Ids(kind) : kind \in Kinds}],
                    NEW to \in [kind : Kinds, id : UNION {Ids(kind) : kind \in Kinds}],
                    AddRelation(from, to)
             PROVE  TypeOK'
  BY DEF RelationStep
<1> USE DEF TypeOK
<1>1. CounterTypes'
  BY AllocateFacts DEF AddRelation, CounterTypes, AdvanceStateRevision, Kinds
<1>2. from.kind \in Kinds /\ to.kind \in Kinds
  OBVIOUS
<1>3. from.id \in Nat /\ to.id \in Nat
  <2>1. \A kind \in Kinds : StorageForKind(kind) \subseteq Nat
    BY DEF IdsIssued, CounterTypes
  <2> QED
    BY <1>2, <2>1 DEF AddRelation
<1>4. from \in Reference /\ to \in Reference
  BY <1>2, <1>3 DEF Reference
<1> DEFINE new == [from |-> from, to |-> to]
<1>5. new \in [from : Reference, to : Reference]
  BY <1>4
<1>6. relations' = Put(relations, NewId("relation"), new)
  BY DEF AddRelation
<1> HIDE DEF new
<1>7. relations' \in [DOMAIN relations' -> [from : Reference, to : Reference]]
  BY <1>5, <1>6, PutType DEF CrudTypes
<1>8. CrudTypes' /\ RuleTypes' /\ GapStoreTypes' /\ LifecycleTypes'
  BY <1>7 DEF AddRelation, CrudTypes, RuleTypes, GapStoreTypes, LifecycleTypes,
     crudStores, ruleStores, gapStores, contraStores, historyStores
<1>9. DOMAIN relations' = DOMAIN relations \cup {NewId("relation")}
  BY <1>6, PutFacts
<1>10. IdsIssued'
  BY <1>9, IdsStayIssued
     DEF AddRelation, StorageForKind, Kinds, crudStores, gapStores
<1> QED
  BY <1>1, <1>8, <1>10

LEMMA UpdateRuleStatsTypes ==
  ASSUME TypeOK, NEW rule \in RuleKeys, NEW fired \in Int, NEW true \in Int,
         NEW false \in Int, NEW precision \in ScoreValue \cup {NoScore},
         NEW rate \in ScoreValue \cup {NoScore},
         UpdateRuleStats(rule, fired, true, false, precision, rate)
  PROVE  TypeOK'
<1> USE DEF TypeOK
<1>1. CounterTypes'
  BY DEF UpdateRuleStats, CounterTypes, AdvanceStateRevision
<1> DEFINE old == ruleStats[rule]
           new == [firing            |-> old.firing + fired,
                   confirmedTrue     |-> old.confirmedTrue + true,
                   confirmedFalse    |-> old.confirmedFalse + false,
                   precision         |-> Override(precision, old.precision),
                   falsePositiveRate |-> Override(rate, old.falsePositiveRate)]
<1>2. old \in RuleStatsRecord
  BY DEF UpdateRuleStats, RuleTypes
<1>3. fired \in Int /\ true \in Int /\ false \in Int
  BY InputAssumption
<1>4. new \in RuleStatsRecord
  <2> HIDE DEF old
  <2>1. /\ old.firing + fired \in Int
        /\ old.confirmedTrue + true \in Int
        /\ old.confirmedFalse + false \in Int
    BY <1>2, <1>3 DEF RuleStatsRecord
  <2>2. /\ Override(precision, old.precision) \in ScoreValue \cup {NoScore}
        /\ Override(rate, old.falsePositiveRate) \in ScoreValue \cup {NoScore}
    BY <1>2 DEF RuleStatsRecord, Override, OptionalScores
  <2> QED
    BY <2>1, <2>2 DEF RuleStatsRecord
<1>5. ruleStats' = Put(ruleStats, rule, new)
  BY DEF UpdateRuleStats
<1> HIDE DEF new, old
<1>6. /\ ruleStats' \in [DOMAIN ruleStats' -> RuleStatsRecord]
      /\ DOMAIN ruleStats' \subseteq RuleKeys
  <2>1. ruleStats' \in [DOMAIN ruleStats' -> RuleStatsRecord]
    BY <1>4, <1>5, PutType DEF RuleTypes
  <2>2. DOMAIN ruleStats' = DOMAIN ruleStats \cup {rule}
    BY <1>5, PutFacts
  <2> QED
    BY <2>1, <2>2 DEF RuleTypes
<1>7. CrudTypes' /\ RuleTypes' /\ GapStoreTypes' /\ LifecycleTypes'
  BY <1>6 DEF UpdateRuleStats, CrudTypes, RuleTypes, GapStoreTypes,
     LifecycleTypes, crudStores, gapStores, contraStores, historyStores
<1>8. IdsIssued'
  BY IdsStayIssuedUnmoved
     DEF UpdateRuleStats, StorageForKind, Kinds, crudStores, gapStores
<1> QED
  BY <1>1, <1>7, <1>8

LEMMA RegisterRuleTypes ==
  ASSUME TypeOK, NEW rule \in RuleKeys, NEW maturity \in RuleMaturities,
         RegisterRule(rule, maturity)
  PROVE  TypeOK'
<1> USE DEF TypeOK
<1>1. CounterTypes'
  BY DEF RegisterRule, CounterTypes, AdvanceStateRevision
<1>2. rule \in RuleKeys /\ maturity \in RuleMaturities
  OBVIOUS
<1>3. NewRuleStats \in RuleStatsRecord
  BY DEF NewRuleStats, RuleStatsRecord
<1>4. ruleStats' = Put(ruleStats, rule, NewRuleStats)
      /\ ruleDefinitions' = Put(ruleDefinitions, rule, maturity)
  BY DEF RegisterRule
<1>5. /\ ruleDefinitions' \in [DOMAIN ruleDefinitions' -> RuleMaturities]
      /\ ruleStats' \in [DOMAIN ruleStats' -> RuleStatsRecord]
  BY <1>2, <1>3, <1>4, PutType DEF RuleTypes
<1>6. DOMAIN ruleDefinitions' \subseteq RuleKeys /\ DOMAIN ruleStats' \subseteq RuleKeys
  <2>1. DOMAIN ruleDefinitions' = DOMAIN ruleDefinitions \cup {rule}
    BY <1>4, PutFacts
  <2>2. DOMAIN ruleStats' = DOMAIN ruleStats \cup {rule}
    BY <1>4, PutFacts
  <2> QED
    BY <1>2, <2>1, <2>2 DEF RuleTypes
<1>7. CrudTypes' /\ RuleTypes' /\ GapStoreTypes' /\ LifecycleTypes'
  BY <1>5, <1>6 DEF RegisterRule, CrudTypes, RuleTypes, GapStoreTypes,
     LifecycleTypes, crudStores, gapStores, contraStores, historyStores
<1>8. IdsIssued'
  BY IdsStayIssuedUnmoved
     DEF RegisterRule, StorageForKind, Kinds, crudStores, gapStores
<1> QED
  BY <1>1, <1>7, <1>8

LEMMA RuleStepTypes == TypeOK /\ RuleStep => TypeOK'
<1> SUFFICES ASSUME TypeOK, RuleStep
             PROVE  TypeOK'
  OBVIOUS
<1> USE DEF TypeOK
<1>1. ASSUME NEW rule \in RulesRegistered, NEW maturity \in Maturities,
             RegisterRule(rule, maturity)
      PROVE  TypeOK'
  BY <1>1, InputAssumption, RegisterRuleTypes DEF TypeOK
<1>2. ASSUME NEW rule \in RuleKeys, NEW fired \in StatDeltas,
             NEW true \in StatDeltas, NEW false \in StatDeltas,
             NEW precision \in OptionalScores, NEW rate \in OptionalScores,
             UpdateRuleStats(rule, fired, true, false, precision, rate)
      PROVE  TypeOK'
  <2>1. fired \in Int /\ true \in Int /\ false \in Int
    BY InputAssumption
  <2>2. precision \in ScoreValue \cup {NoScore} /\ rate \in ScoreValue \cup {NoScore}
    BY DEF OptionalScores
  <2> HIDE DEF TypeOK
  <2>3. TypeOK
    OBVIOUS
  <2> QED
    BY <1>2, <2>1, <2>2, <2>3, UpdateRuleStatsTypes
<1> HIDE DEF TypeOK
<1> QED
  BY <1>1, <1>2 DEF RuleStep

LEMMA HintStepTypes == TypeOK /\ HintStep => TypeOK'
<1> SUFFICES ASSUME TypeOK, HintStep
             PROVE  TypeOK'
  OBVIOUS
<1>1. hintEvidenceTypes \subseteq EvidenceTypes /\ HintTypes \subseteq EvidenceTypes
  BY InputAssumption DEF TypeOK, RuleTypes
<1>2. PICK types \in SUBSET EvidenceTypes : SetHintEvidenceTypes(types)
  <2>1. ASSUME NEW t \in SUBSET HintTypes, RegisterHintEvidenceTypes(t)
        PROVE  \E types \in SUBSET EvidenceTypes : SetHintEvidenceTypes(types)
    BY <1>1, <2>1 DEF RegisterHintEvidenceTypes
  <2>2. ASSUME NEW t \in SUBSET HintTypes, UnregisterHintEvidenceTypes(t)
        PROVE  \E types \in SUBSET EvidenceTypes : SetHintEvidenceTypes(types)
    BY <1>1, <2>2 DEF UnregisterHintEvidenceTypes
  <2>3. CASE ClearHintEvidenceTypes
    BY <2>3 DEF ClearHintEvidenceTypes
  <2> QED
    BY <2>1, <2>2, <2>3 DEF HintStep
<1> USE DEF TypeOK
<1>3. CounterTypes' /\ CrudTypes' /\ RuleTypes' /\ GapStoreTypes' /\ LifecycleTypes'
  BY <1>2 DEF SetHintEvidenceTypes, CounterTypes, AdvanceStateRevision, CrudTypes,
     RuleTypes, GapStoreTypes, LifecycleTypes, crudStores, ruleStores,
     gapStores, contraStores, historyStores
<1>4. IdsIssued'
  BY <1>2, IdsStayIssuedUnmoved
     DEF SetHintEvidenceTypes, StorageForKind, Kinds, crudStores, gapStores
<1> QED
  BY <1>3, <1>4

LEMMA AddGapTypes ==
  ASSUME TypeOK, NEW claim, NEW type \in GapTypes, NEW required \in EvidenceTypes,
         NEW severity, NEW rule \in RuleIds, AddGap(claim, type, required, severity, rule)
  PROVE  TypeOK'
<1> USE DEF TypeOK
<1> DEFINE key == DedupKey(claim, rule, type, required)
           new == [claim |-> claim, type |-> type, required |-> required,
                   severity |-> severity, rule |-> rule]
<1>1. claim \in Nat
  BY DEF AddGap, IdsIssued, StorageForKind, Kinds
<1>2. claims[claim] \in ClaimRecord
  BY DEF AddGap, CrudTypes
<1>3. key \in Nat \X RuleIds \X GapTypes \X EvidenceTypes
  BY <1>2 DEF DedupKey, ClaimRecord
<1>4. new \in GapRecord
  BY <1>1 DEF AddGap, GapRecord
<1>5. CASE key \notin DOMAIN gapDedupIndex
  <2>1. NewGap(claim, type, required, severity, rule)
    BY <1>5 DEF AddGap
  <2>2. /\ AllocateId("gap")
        /\ gaps' = Put(gaps, NewId("gap"), new)
        /\ gapDedupIndex' = Put(gapDedupIndex, key, NewId("gap"))
        /\ claimGapRefs' = claimGapRefs \cup {<<claim, NewId("gap")>>}
    BY <2>1 DEF NewGap
  <2> HIDE DEF key, new
  <2>3. NewId("gap") \in Nat
    BY <2>2, AllocateFacts DEF Kinds
  <2>4. gaps' \in [DOMAIN gaps' -> GapRecord]
    BY <1>4, <2>2, PutType DEF GapStoreTypes
  <2>5. gapDedupIndex' \in [DOMAIN gapDedupIndex' -> Nat]
    BY <2>2, <2>3, PutType DEF GapStoreTypes
  <2>6. DOMAIN gapDedupIndex' = DOMAIN gapDedupIndex \cup {key}
    BY <2>2, PutFacts
  <2>7. GapStoreTypes'
    BY <1>1, <1>3, <2>2, <2>3, <2>4, <2>5, <2>6 DEF AddGap, GapStoreTypes
  <2>8. CounterTypes'
    BY <2>2, AllocateFacts
       DEF AddGap, CounterTypes, AdvanceStateRevision, Kinds
  <2>9. DOMAIN gaps' = DOMAIN gaps \cup {NewId("gap")}
    BY <2>2, PutFacts
  <2>10. IdsIssued'
    BY <2>2, <2>9, IdsStayIssued
       DEF AddGap, StorageForKind, Kinds, crudStores
  <2>11. CrudTypes' /\ RuleTypes' /\ LifecycleTypes'
    BY DEF AddGap, CrudTypes, RuleTypes, LifecycleTypes, crudStores,
       ruleStores, contraStores, historyStores
  <2> QED
    BY <2>7, <2>8, <2>10, <2>11
<1>6. CASE key \in DOMAIN gapDedupIndex
  <2>1. ShareGap(claim, gapDedupIndex[key])
    BY <1>6 DEF AddGap
  <2>2. gapDedupIndex[key] \in Nat
    BY <1>6 DEF GapStoreTypes
  <2> HIDE DEF key, new
  <2>3. GapStoreTypes'
    BY <1>1, <2>1, <2>2 DEF AddGap, ShareGap, GapStoreTypes
  <2>4. CounterTypes' /\ CrudTypes' /\ RuleTypes' /\ LifecycleTypes'
    BY <2>1 DEF AddGap, ShareGap, CounterTypes, AdvanceStateRevision,
       CrudTypes, RuleTypes, LifecycleTypes, crudStores, ruleStores,
       contraStores, historyStores
  <2>5. IdsIssued'
    BY <2>1, IdsStayIssuedUnmoved
       DEF AddGap, ShareGap, StorageForKind, Kinds, crudStores
  <2> QED
    BY <2>3, <2>4, <2>5
<1> QED
  BY <1>5, <1>6

LEMMA ResolveGapsTypes ==
  ASSUME TypeOK, NEW evidence, ResolveGapsForEvidence(evidence)
  PROVE  TypeOK'
<1> USE DEF TypeOK
<1>1. evidence \in Nat
  BY DEF ResolveGapsForEvidence, IdsIssued, StorageForKind, Kinds
<1>2. gapResolutions' \in [DOMAIN gapResolutions' -> Nat]
  BY <1>1 DEF ResolveGapsForEvidence, GapStoreTypes
<1>3. CounterTypes' /\ CrudTypes' /\ RuleTypes' /\ GapStoreTypes' /\ LifecycleTypes'
  BY <1>2 DEF ResolveGapsForEvidence, CounterTypes, AdvanceStateRevision,
     CrudTypes, RuleTypes, GapStoreTypes, LifecycleTypes, crudStores,
     ruleStores, contraStores, historyStores
<1>4. IdsIssued'
  BY IdsStayIssuedUnmoved
     DEF ResolveGapsForEvidence, StorageForKind, Kinds, crudStores
<1> QED
  BY <1>3, <1>4

LEMMA GapStepTypes == TypeOK /\ GapStep => TypeOK'
<1> SUFFICES ASSUME TypeOK, GapStep
             PROVE  TypeOK'
  OBVIOUS
<1> USE DEF TypeOK
<1>1. ASSUME NEW claim \in Ids("claim"), NEW type \in GapTypes,
             NEW required \in EvidenceTypes, NEW severity \in Scores,
             NEW rule \in RuleIds, AddGap(claim, type, required, severity, rule)
      PROVE  TypeOK'
  BY <1>1, AddGapTypes DEF TypeOK
<1>2. ASSUME NEW evidence \in Ids("evidence"), ResolveGapsForEvidence(evidence)
      PROVE  TypeOK'
  BY <1>2, ResolveGapsTypes DEF TypeOK
<1> HIDE DEF TypeOK
<1> QED
  BY <1>1, <1>2 DEF GapStep

LEMMA ContradictionStepTypes == TypeOK /\ ContradictionStep => TypeOK'
<1> SUFFICES ASSUME TypeOK, NEW claim \in Ids("claim"),
                    NEW evidence \in Ids("evidence"),
                    \/ RegisterContradiction(claim, evidence)
                    \/ RegisterContradictionResolution(claim, evidence)
             PROVE  TypeOK'
  BY DEF ContradictionStep
<1> USE DEF TypeOK
<1>1. claim \in Nat /\ evidence \in Nat
  BY DEF RegisterContradiction, RegisterContradictionResolution, IdsIssued,
     StorageForKind, Kinds
<1>2. LifecycleTypes'
  BY <1>1 DEF RegisterContradiction, RegisterContradictionResolution,
     LifecycleTypes, historyStores
<1>3. CounterTypes' /\ CrudTypes' /\ RuleTypes' /\ GapStoreTypes'
  BY DEF RegisterContradiction, RegisterContradictionResolution, CounterTypes,
     AdvanceStateRevision, CrudTypes, RuleTypes, GapStoreTypes, crudStores,
     ruleStores, gapStores
<1>4. IdsIssued'
  BY IdsStayIssuedUnmoved
     DEF RegisterContradiction, RegisterContradictionResolution,
     StorageForKind, Kinds, crudStores, gapStores
<1> QED
  BY <1>2, <1>3, <1>4

\* Every step of the six is one transition of one claim to a known status.
LEMMA TransitionStepIsTransit ==
  ASSUME TransitionStep
  PROVE  \E claim \in DOMAIN claims, to \in ClaimStatuses, transition \in Transitions :
           Transit(claim, to, transition)
<1> DEFINE Goal == \E claim \in DOMAIN claims, to \in ClaimStatuses,
                     transition \in Transitions : Transit(claim, to, transition)
<1> SUFFICES ASSUME NEW claim \in Ids("claim"),
                    \/ ConfirmClaimIfReady(claim)
                    \/ RefuteClaimIfReady(claim)
                    \/ DisputeClaimIfReady(claim)
                    \/ ResolveDisputedClaimIfReady(claim)
                    \/ RefuteDisputedClaimIfReady(claim)
                    \/ RefuteDisputedClaimIfReadyByFreshness(claim)
             PROVE  Goal
  BY DEF TransitionStep
<1>1. claim \in DOMAIN claims
  BY DEF ConfirmClaimIfReady, RefuteClaimIfReady, DisputeClaimIfReady,
     ResolveDisputedClaimIfReady, RefuteDisputedClaimIfReady,
     RefuteDisputedClaimIfReadyByFreshness, ReadyToConfirm, ReadyToRefute,
     ReadyToDispute, ReadyToResolveDisputed, ReadyToRefuteDisputed,
     ReadyToRefuteByFreshness, HasStatus
<1>2. CASE ConfirmClaimIfReady(claim)
  <2>1. Transit(claim, "confirmed", "confirm_if_ready")
    BY <1>2 DEF ConfirmClaimIfReady
  <2> QED
    BY <1>1, <2>1 DEF ClaimStatuses, Transitions
<1>3. CASE RefuteClaimIfReady(claim)
  <2>1. Transit(claim, "refuted", "refute_if_ready")
    BY <1>3 DEF RefuteClaimIfReady
  <2> QED
    BY <1>1, <2>1 DEF ClaimStatuses, Transitions
<1>4. CASE DisputeClaimIfReady(claim)
  <2>1. Transit(claim, "disputed", "dispute_if_ready")
    BY <1>4 DEF DisputeClaimIfReady
  <2> QED
    BY <1>1, <2>1 DEF ClaimStatuses, Transitions
<1>5. CASE ResolveDisputedClaimIfReady(claim)
  <2>1. Transit(claim, "confirmed", "resolve_disputed_if_ready")
    BY <1>5 DEF ResolveDisputedClaimIfReady
  <2> QED
    BY <1>1, <2>1 DEF ClaimStatuses, Transitions
<1>6. CASE RefuteDisputedClaimIfReady(claim)
  <2>1. Transit(claim, "refuted", "refute_disputed_if_ready")
    BY <1>6 DEF RefuteDisputedClaimIfReady
  <2> QED
    BY <1>1, <2>1 DEF ClaimStatuses, Transitions
<1>7. CASE RefuteDisputedClaimIfReadyByFreshness(claim)
  <2>1. Transit(claim, "refuted", "refute_disputed_by_freshness_if_ready")
    BY <1>7 DEF RefuteDisputedClaimIfReadyByFreshness
  <2> QED
    BY <1>1, <2>1 DEF ClaimStatuses, Transitions
<1> QED
  BY <1>2, <1>3, <1>4, <1>5, <1>6, <1>7

\* What a transition does to the two stores it moves.
LEMMA TransitTypes ==
  ASSUME TypeOK, NEW claim \in DOMAIN claims, NEW to \in ClaimStatuses,
         NEW transition \in Transitions, Transit(claim, to, transition)
  PROVE  TypeOK'
<1> USE DEF TypeOK
<1>1. claim \in Nat
  BY DEF IdsIssued, StorageForKind, Kinds
<1>2. claims[claim] \in ClaimRecord
  BY DEF CrudTypes
<1>3. claims' = [claims EXCEPT ![claim].status = to]
  BY DEF Transit
<1>4. [claims[claim] EXCEPT !.status = to] \in ClaimRecord
  BY <1>2 DEF ClaimRecord
<1>5. claims' \in [DOMAIN claims' -> ClaimRecord] /\ DOMAIN claims' = DOMAIN claims
  BY <1>3, <1>4 DEF CrudTypes
<1> DEFINE event == [seq |-> lifecycleSeq + 1, from |-> claims[claim].status,
                     to |-> to, transition |-> transition]
<1>6. event \in LifecycleEvent
  BY <1>2 DEF LifecycleEvent, ClaimRecord, LifecycleTypes
<1>7. claimLifecycleEvents' =
        Put(claimLifecycleEvents, claim, Append(ClaimLifecycleHistory(claim), event))
  BY DEF Transit, RecordClaimLifecycleTransition
<1>8. ClaimLifecycleHistory(claim) \in Seq(LifecycleEvent)
  BY DEF ClaimLifecycleHistory, LifecycleTypes
<1> HIDE DEF event
<1>9. Append(ClaimLifecycleHistory(claim), event) \in Seq(LifecycleEvent)
  BY <1>6, <1>8
<1>10. claimLifecycleEvents' \in [DOMAIN claimLifecycleEvents' -> Seq(LifecycleEvent)]
  BY <1>7, <1>9, PutType DEF LifecycleTypes
<1>11. LifecycleTypes'
  BY <1>10 DEF Transit, RecordClaimLifecycleTransition, LifecycleTypes, contraStores
<1>12. CounterTypes' /\ CrudTypes' /\ RuleTypes' /\ GapStoreTypes'
  BY <1>5 DEF Transit, CounterTypes, AdvanceStateRevision, CrudTypes, RuleTypes,
     GapStoreTypes, ruleStores, gapStores
<1>13. IdsIssued'
  BY <1>5, IdsStayIssuedUnmoved DEF Transit, StorageForKind, Kinds, gapStores
<1> QED
  BY <1>11, <1>12, <1>13

LEMMA TransitionStepTypes == TypeOK /\ TransitionStep => TypeOK'
  BY TransitionStepIsTransit, TransitTypes

\* The type invariant is inductive.
LEMMA TypeInductive == TypeOK /\ [Next]_vars => TypeOK'
<1> SUFFICES ASSUME TypeOK, [Next]_vars
             PROVE  TypeOK'
  OBVIOUS
<1>1. CASE UNCHANGED vars
  BY <1>1 DEF TypeOK, CounterTypes, CrudTypes, RuleTypes, GapStoreTypes,
     LifecycleTypes, IdsIssued, StorageForKind, vars, crudStores, gapStores,
     ruleStores, contraStores, historyStores
<1>2. CASE Next
  BY <1>2, CrudStepTypes, RelationStepTypes, RuleStepTypes, GapStepTypes,
     ContradictionStepTypes, TransitionStepTypes, HintStepTypes DEF Next
<1> QED
  BY <1>1, <1>2

LEMMA InitTypes == Init => TypeOK
  BY DEF Init, EmptyMap, TypeOK, CounterTypes, CrudTypes, RuleTypes,
     GapStoreTypes, LifecycleTypes, IdsIssued, StorageForKind, Kinds

\* Every store of the engine keeps its declared shape, and every id in it was
\* issued by the counter of its kind, whatever calls the caller makes.
THEOREM EngineTypeCorrect == Spec => []TypeOK
  BY InitTypes, TypeInductive, PTL DEF Spec

----------------------------------------------------------------------------

\* Putting a value under a fresh key keeps what the map held.
LEMMA PutKeeps ==
  ASSUME NEW map, NEW key, key \notin DOMAIN map, NEW value
  PROVE  Kept(map, Put(map, key, value))
  BY DEF Put, Kept

\* The id about to be allocated was never stored.
LEMMA NewIdFresh ==
  ASSUME TypeOK, NEW kind \in Kinds
  PROVE  NewId(kind) \notin StorageForKind(kind)
<1>1. StorageForKind(kind) \subseteq 1 .. nextId[kind] /\ nextId[kind] \in Nat
  BY DEF TypeOK, IdsIssued, CounterTypes
<1> QED
  BY <1>1 DEF NewId

\* A claim left alone keeps its record.
LEMMA ClaimsUntouched ==
  ASSUME TypeOK, NEW c \in DOMAIN claims
  PROVE  claims[c] = [claims[c] EXCEPT !.status = claims[c].status]
  BY DEF TypeOK, CrudTypes, ClaimRecord

\* Steps of everything but the claims keep every claim.
LEMMA UnchangedKept ==
  ASSUME TypeOK, claims' = claims
  PROVE  \A c \in DOMAIN claims :
           /\ c \in DOMAIN claims'
           /\ claims'[c] = [claims[c] EXCEPT !.status = claims'[c].status]
  BY ClaimsUntouched

LEMMA AddClaimKeeps ==
  ASSUME TypeOK, NEW subject, NEW rule, NEW base, NEW status,
         AddClaim(subject, rule, base, status)
  PROVE  RegisteredKept
<1>1. Kept(claims, claims')
  <2> DEFINE new == [subject |-> subject, rule |-> rule, base |-> base,
                     status |-> status]
  <2>1. claims' = Put(claims, NewId("claim"), new)
    BY DEF AddClaim
  <2> HIDE DEF new
  <2>2. NewId("claim") \notin DOMAIN claims
    BY NewIdFresh DEF StorageForKind, Kinds
  <2> QED
    BY <2>1, <2>2, PutKeeps
<1>2. \A c \in DOMAIN claims :
        /\ c \in DOMAIN claims'
        /\ claims'[c] = [claims[c] EXCEPT !.status = claims'[c].status]
  BY <1>1, ClaimsUntouched DEF Kept
<1> QED
  BY <1>2 DEF AddClaim, RegisteredKept, Kept, gapStores, ruleStores, contraStores

LEMMA AddEvidenceKeeps ==
  ASSUME TypeOK, NEW claim, NEW type, NEW strength,
         AddEvidence(claim, type, strength)
  PROVE  RegisteredKept
<1>1. Kept(evidences, evidences')
  BY PutKeeps, NewIdFresh DEF AddEvidence, StorageForKind, Kinds
<1> QED
  BY <1>1, UnchangedKept DEF AddEvidence, RegisteredKept, Kept,
     gapStores, ruleStores, contraStores

LEMMA CrudStepKeeps == TypeOK /\ CrudStep => RegisteredKept
<1> SUFFICES ASSUME TypeOK, CrudStep
             PROVE  RegisteredKept
  OBVIOUS
<1>1. CASE AddEntity
  BY <1>1, UnchangedKept DEF AddEntity, RegisteredKept, Kept, gapStores,
     ruleStores, contraStores
<1>2. ASSUME NEW entity \in Ids("entity"), AddObservation(entity)
      PROVE  RegisteredKept
  <2>1. Kept(observations, observations')
    BY <1>2, PutKeeps, NewIdFresh DEF AddObservation, StorageForKind, Kinds
  <2> QED
    BY <1>2, <2>1, UnchangedKept DEF AddObservation, RegisteredKept, Kept,
       gapStores, ruleStores, contraStores
<1>3. ASSUME NEW subject, NEW rule, NEW base, NEW status,
             AddClaim(subject, rule, base, status)
      PROVE  RegisteredKept
  BY <1>3, AddClaimKeeps
<1>4. ASSUME NEW claim \in Ids("claim"), NEW type \in EvidenceTypes,
             NEW strength \in Strengths, AddEvidence(claim, type, strength)
      PROVE  RegisteredKept
  BY <1>4, AddEvidenceKeeps
<1> QED
  BY <1>1, <1>2, <1>3, <1>4 DEF CrudStep

LEMMA RelationStepKeeps == TypeOK /\ RelationStep => RegisteredKept
<1> SUFFICES ASSUME TypeOK, NEW from, NEW to, AddRelation(from, to)
             PROVE  RegisteredKept
  BY DEF RelationStep
<1>1. Kept(relations, relations')
  BY PutKeeps, NewIdFresh DEF AddRelation, StorageForKind, Kinds
<1> QED
  BY <1>1, UnchangedKept DEF AddRelation, RegisteredKept, Kept, crudStores,
     gapStores, ruleStores, contraStores

LEMMA UpdateRuleStatsKeeps ==
  ASSUME TypeOK, NEW rule, NEW fired, NEW true, NEW false, NEW precision, NEW rate,
         UpdateRuleStats(rule, fired, true, false, precision, rate)
  PROVE  RegisteredKept
  BY UnchangedKept DEF UpdateRuleStats, RegisteredKept, Kept, crudStores,
     gapStores, contraStores

LEMMA RegisterRuleKeeps ==
  ASSUME TypeOK, NEW rule, NEW maturity, RegisterRule(rule, maturity)
  PROVE  RegisteredKept
<1>1. Kept(ruleDefinitions, ruleDefinitions')
  BY PutKeeps DEF RegisterRule
<1> QED
  BY <1>1, UnchangedKept DEF RegisterRule, RegisteredKept, Kept,
     crudStores, gapStores, contraStores

LEMMA RuleStepKeeps == TypeOK /\ RuleStep => RegisteredKept
<1> SUFFICES ASSUME TypeOK, RuleStep
             PROVE  RegisteredKept
  OBVIOUS
<1>1. ASSUME NEW rule, NEW maturity, RegisterRule(rule, maturity)
      PROVE  RegisteredKept
  BY <1>1, RegisterRuleKeeps
<1>2. ASSUME NEW rule, NEW fired, NEW true, NEW false, NEW precision, NEW rate,
             UpdateRuleStats(rule, fired, true, false, precision, rate)
      PROVE  RegisteredKept
  BY <1>2, UpdateRuleStatsKeeps
<1> QED
  BY <1>1, <1>2 DEF RuleStep

LEMMA AddGapKeeps ==
  ASSUME TypeOK, NEW claim, NEW type, NEW required, NEW severity, NEW rule,
         AddGap(claim, type, required, severity, rule)
  PROVE  RegisteredKept
<1> DEFINE key == DedupKey(claim, rule, type, required)
<1>1. CASE key \in DOMAIN gapDedupIndex
  <2>1. ShareGap(claim, gapDedupIndex[key])
    BY <1>1 DEF AddGap
  <2> QED
    BY <2>1, UnchangedKept DEF AddGap, ShareGap, RegisteredKept, Kept,
       crudStores, ruleStores, contraStores
<1>2. CASE key \notin DOMAIN gapDedupIndex
  <2>1. NewGap(claim, type, required, severity, rule)
    BY <1>2 DEF AddGap
  <2>2. Kept(gaps, gaps')
    BY <2>1, PutKeeps, NewIdFresh DEF NewGap, StorageForKind, Kinds
  <2>3. Kept(gapDedupIndex, gapDedupIndex')
    BY <1>2, <2>1, PutKeeps DEF NewGap
  <2>4. claimGapRefs \subseteq claimGapRefs'
    BY <2>1 DEF NewGap
  <2> QED
    BY <2>2, <2>3, <2>4, UnchangedKept DEF AddGap, RegisteredKept, Kept,
       crudStores, ruleStores, contraStores
<1> QED
  BY <1>1, <1>2

LEMMA ResolveGapsKeeps ==
  ASSUME TypeOK, NEW evidence, ResolveGapsForEvidence(evidence)
  PROVE  RegisteredKept
<1>1. \A g \in GapsClosedBy(evidence) : g \notin DOMAIN gapResolutions
  BY DEF GapsClosedBy
<1>2. Kept(gapResolutions, gapResolutions')
  BY <1>1 DEF ResolveGapsForEvidence, Kept
<1> QED
  BY <1>2, UnchangedKept DEF ResolveGapsForEvidence, RegisteredKept,
     Kept, crudStores, ruleStores, contraStores

LEMMA GapStepKeeps == TypeOK /\ GapStep => RegisteredKept
<1> SUFFICES ASSUME TypeOK, GapStep
             PROVE  RegisteredKept
  OBVIOUS
<1>1. ASSUME NEW claim, NEW type, NEW required, NEW severity, NEW rule,
             AddGap(claim, type, required, severity, rule)
      PROVE  RegisteredKept
  BY <1>1, AddGapKeeps
<1>2. ASSUME NEW evidence, ResolveGapsForEvidence(evidence)
      PROVE  RegisteredKept
  BY <1>2, ResolveGapsKeeps
<1> QED
  BY <1>1, <1>2 DEF GapStep

LEMMA ContradictionStepKeeps == TypeOK /\ ContradictionStep => RegisteredKept
  BY UnchangedKept DEF ContradictionStep, RegisterContradiction,
     RegisterContradictionResolution, RegisteredKept, Kept, crudStores,
     gapStores, ruleStores

LEMMA TransitKeeps ==
  ASSUME TypeOK, NEW claim \in DOMAIN claims, NEW to \in ClaimStatuses,
         NEW transition, Transit(claim, to, transition)
  PROVE  RegisteredKept
<1>1. claims' = [claims EXCEPT ![claim].status = to]
  BY DEF Transit
<1>2. \A c \in DOMAIN claims :
        /\ c \in DOMAIN claims'
        /\ claims'[c] = [claims[c] EXCEPT !.status = claims'[c].status]
  BY <1>1, ClaimsUntouched DEF TypeOK, CrudTypes, ClaimRecord
<1> QED
  BY <1>2 DEF Transit, RegisteredKept, Kept, gapStores, ruleStores, contraStores

LEMMA TransitionStepKeeps == TypeOK /\ TransitionStep => RegisteredKept
  BY TransitionStepIsTransit, TransitKeeps

LEMMA HintStepKeeps == TypeOK /\ HintStep => RegisteredKept
  BY UnchangedKept DEF HintStep, RegisterHintEvidenceTypes,
     UnregisterHintEvidenceTypes, ClearHintEvidenceTypes, SetHintEvidenceTypes,
     RegisteredKept, Kept, crudStores, gapStores, ruleStores, contraStores

\* No step alters or withdraws what was registered.
LEMMA StepKeeps == TypeOK /\ [Next]_vars => RegisteredKept
<1>1. TypeOK /\ UNCHANGED vars => RegisteredKept
  BY UnchangedKept DEF vars, RegisteredKept, Kept, crudStores, gapStores,
     ruleStores, contraStores
<1> QED
  BY <1>1, CrudStepKeeps, RelationStepKeeps, RuleStepKeeps, GapStepKeeps,
     ContradictionStepKeeps, TransitionStepKeeps, HintStepKeeps DEF Next

\* The first registration of anything stands, and ids are never reused,
\* through any sequence of calls.
THEOREM RegistrationsStand == Spec => FirstRegistrationStands
  BY EngineTypeCorrect, StepKeeps, PTL DEF Spec, FirstRegistrationStands

----------------------------------------------------------------------------
\* What StatsPerVersion says of one step.
StatsKept ==
  \A rule \in DOMAIN ruleStats :
    /\ rule \in DOMAIN ruleStats'
    /\ ruleStats[rule].precision # NoScore =>
         ruleStats'[rule].precision # NoScore
    /\ ruleStats'[rule] # ruleStats[rule] =>
         \A other \in DOMAIN ruleStats \ {rule} :
           ruleStats'[other] = ruleStats[other]

\* Only register_rule and update_rule_stats write statistics.
LEMMA OnlyRuleStepsWriteStats ==
  ASSUME [Next]_vars, ~RuleStep
  PROVE  UNCHANGED ruleStores
<1>1. CrudStep => UNCHANGED ruleStores
  BY DEF CrudStep, AddEntity, AddObservation, AddClaim, AddEvidence
<1>2. RelationStep => UNCHANGED ruleStores
  BY DEF RelationStep, AddRelation
<1>3. GapStep => UNCHANGED ruleStores
  BY DEF GapStep, AddGap, ResolveGapsForEvidence
<1>4. ContradictionStep => UNCHANGED ruleStores
  BY DEF ContradictionStep, RegisterContradiction, RegisterContradictionResolution
<1>5. TransitionStep => UNCHANGED ruleStores
  BY TransitionStepIsTransit DEF Transit
<1>6. HintStep => UNCHANGED ruleStores
  BY DEF HintStep, RegisterHintEvidenceTypes, UnregisterHintEvidenceTypes,
     ClearHintEvidenceTypes, SetHintEvidenceTypes
<1> QED
  BY <1>1, <1>2, <1>3, <1>4, <1>5, <1>6 DEF Next, vars

\* register_rule asks for the definition alone and starts new statistics: it
\* would reset those of a pair that had statistics and no definition.
StatsHaveDefinitions == DOMAIN ruleStats \subseteq DOMAIN ruleDefinitions

LEMMA StatsKeepDefinitions ==
  StatsHaveDefinitions /\ [Next]_vars => StatsHaveDefinitions'
<1> SUFFICES ASSUME StatsHaveDefinitions, [Next]_vars
             PROVE  StatsHaveDefinitions'
  OBVIOUS
<1>1. ASSUME NEW rule, NEW maturity, RegisterRule(rule, maturity)
      PROVE  StatsHaveDefinitions'
  <2>1. /\ DOMAIN ruleDefinitions' = DOMAIN ruleDefinitions \cup {rule}
        /\ DOMAIN ruleStats' = DOMAIN ruleStats \cup {rule}
    BY <1>1 DEF RegisterRule, Put
  <2> QED
    BY <2>1 DEF StatsHaveDefinitions
<1>2. ASSUME NEW rule, NEW fired, NEW true, NEW false, NEW precision, NEW rate,
             UpdateRuleStats(rule, fired, true, false, precision, rate)
      PROVE  StatsHaveDefinitions'
  <2>1. DOMAIN ruleStats' = DOMAIN ruleStats /\ ruleDefinitions' = ruleDefinitions
    BY <1>2 DEF UpdateRuleStats, Put
  <2> QED
    BY <2>1 DEF StatsHaveDefinitions
<1> QED
  BY <1>1, <1>2, OnlyRuleStepsWriteStats
     DEF RuleStep, ruleStores, StatsHaveDefinitions

\* A definition is registered for a pair without statistics, and an update
\* with no score given keeps the one measured.
LEMMA StepKeepsStats == StatsHaveDefinitions /\ [Next]_vars => StatsKept
<1> SUFFICES ASSUME StatsHaveDefinitions, [Next]_vars
             PROVE  StatsKept
  OBVIOUS
<1>1. ASSUME NEW rule, NEW maturity, RegisterRule(rule, maturity)
      PROVE  StatsKept
  <2>1. rule \notin DOMAIN ruleStats
    BY <1>1 DEF RegisterRule, StatsHaveDefinitions
  <2>2. /\ DOMAIN ruleStats' = DOMAIN ruleStats \cup {rule}
        /\ \A other \in DOMAIN ruleStats : ruleStats'[other] = ruleStats[other]
    BY <1>1, <2>1 DEF RegisterRule, Put
  <2> QED
    BY <2>2 DEF StatsKept
<1>2. ASSUME NEW rule, NEW fired, NEW true, NEW false,
             NEW precision, NEW rate,
             UpdateRuleStats(rule, fired, true, false, precision, rate)
      PROVE  StatsKept
  <2> DEFINE old == ruleStats[rule]
             new == [firing            |-> old.firing + fired,
                     confirmedTrue     |-> old.confirmedTrue + true,
                     confirmedFalse    |-> old.confirmedFalse + false,
                     precision         |-> Override(precision, old.precision),
                     falsePositiveRate |-> Override(rate, old.falsePositiveRate)]
  <2>1. ruleStats' = Put(ruleStats, rule, new)
    BY <1>2 DEF UpdateRuleStats
  <2>2. old.precision # NoScore => new.precision # NoScore
    BY DEF Override
  <2> HIDE DEF old, new
  <2>3. /\ DOMAIN ruleStats' = DOMAIN ruleStats \cup {rule}
        /\ ruleStats'[rule] = new
        /\ \A other \in DOMAIN ruleStats : other # rule =>
             ruleStats'[other] = ruleStats[other]
    BY <2>1, PutFacts
  <2> QED
    BY <2>2, <2>3 DEF StatsKept, old
<1>3. RuleStep => StatsKept
  BY <1>1, <1>2 DEF RuleStep
<1>4. UNCHANGED ruleStores => StatsKept
  BY DEF ruleStores, StatsKept
<1> QED
  BY <1>3, <1>4, OnlyRuleStepsWriteStats

\* Whatever versions of a rule are registered and updated, the statistics of
\* each are its own and a measured score stays measured.
THEOREM StatsAlwaysPerVersion == Spec => StatsPerVersion
<1>1. Init => StatsHaveDefinitions
  BY DEF Init, StatsHaveDefinitions
<1>2. StatsHaveDefinitions /\ [Next]_vars => [StatsKept]_vars
  BY StepKeepsStats
<1>3. Spec => [][StatsKept]_vars
  BY <1>1, <1>2, StatsKeepDefinitions, PTL DEF Spec
<1> QED
  BY <1>3 DEF StatsPerVersion, StatsKept

----------------------------------------------------------------------------
\* Only a registered contradiction is ever resolved.
LEMMA ResolvedStayContradictions ==
  ASSUME ResolvedWereContradictions, [Next]_vars
  PROVE  ResolvedWereContradictions'
<1> USE DEF ResolvedWereContradictions
<1>1. ASSUME NEW claim, NEW evidence,
             \/ RegisterContradiction(claim, evidence)
             \/ RegisterContradictionResolution(claim, evidence)
      PROVE  ResolvedWereContradictions'
  BY <1>1 DEF RegisterContradiction, RegisterContradictionResolution, Resolvable
<1>2. CASE UNCHANGED contraStores
  BY <1>2 DEF contraStores
<1>3. CrudStep => UNCHANGED contraStores
  BY DEF CrudStep, AddEntity, AddObservation, AddClaim, AddEvidence
<1>4. RelationStep => UNCHANGED contraStores
  BY DEF RelationStep, AddRelation
<1>5. RuleStep => UNCHANGED contraStores
  BY DEF RuleStep, RegisterRule, UpdateRuleStats
<1>6. GapStep => UNCHANGED contraStores
  BY DEF GapStep, AddGap, ResolveGapsForEvidence
<1>7. TransitionStep => UNCHANGED contraStores
  BY TransitionStepIsTransit DEF Transit
<1>8. HintStep => UNCHANGED contraStores
  BY DEF HintStep, RegisterHintEvidenceTypes, UnregisterHintEvidenceTypes,
     ClearHintEvidenceTypes, SetHintEvidenceTypes
<1>9. ContradictionStep => ResolvedWereContradictions'
  BY <1>1 DEF ContradictionStep
<1> QED
  BY <1>2, <1>3, <1>4, <1>5, <1>6, <1>7, <1>8, <1>9 DEF Next, vars

\* The active contradictions are an exact difference, whatever calls are made.
THEOREM ResolvedAlwaysContradictions == Spec => []ResolvedWereContradictions
<1>1. Init => ResolvedWereContradictions
  BY DEF Init, ResolvedWereContradictions
<1> QED
  BY <1>1, ResolvedStayContradictions, PTL DEF Spec

----------------------------------------------------------------------------
\* Every change of the state moves the revision, within one lineage.
LEMMA StepMovesRevision ==
  ASSUME Next
  PROVE  stateToken' = stateToken /\ stateRevision' = stateRevision + 1
<1> USE DEF AdvanceStateRevision
<1>1. CrudStep => stateToken' = stateToken /\ stateRevision' = stateRevision + 1
  BY DEF CrudStep, AddEntity, AddObservation, AddClaim, AddEvidence
<1>2. RelationStep => stateToken' = stateToken /\ stateRevision' = stateRevision + 1
  BY DEF RelationStep, AddRelation
<1>3. RuleStep => stateToken' = stateToken /\ stateRevision' = stateRevision + 1
  BY DEF RuleStep, RegisterRule, UpdateRuleStats
<1>4. GapStep => stateToken' = stateToken /\ stateRevision' = stateRevision + 1
  BY DEF GapStep, AddGap, ResolveGapsForEvidence
<1>5. ContradictionStep => stateToken' = stateToken /\ stateRevision' = stateRevision + 1
  BY DEF ContradictionStep, RegisterContradiction, RegisterContradictionResolution
<1>6. TransitionStep => stateToken' = stateToken /\ stateRevision' = stateRevision + 1
  BY TransitionStepIsTransit DEF Transit
<1>7. HintStep => stateToken' = stateToken /\ stateRevision' = stateRevision + 1
  BY DEF HintStep, RegisterHintEvidenceTypes, UnregisterHintEvidenceTypes,
     ClearHintEvidenceTypes, SetHintEvidenceTypes
<1> QED
  BY <1>1, <1>2, <1>3, <1>4, <1>5, <1>6, <1>7 DEF Next

\* A counter that was used is not the counter it was.
LEMMA AllocationShows ==
  ASSUME TypeOK, NEW kind \in Kinds, AllocateId(kind)
  PROVE  nextId' # nextId
<1>1. nextId \in [Kinds -> Nat]
  BY DEF TypeOK, CounterTypes
<1> QED
  BY <1>1 DEF AllocateId, NewId

\* A step that is taken changes something a snapshot would hold.
LEMMA StepShows ==
  ASSUME TypeOK, Next
  PROVE  logicalState' # logicalState
<1> USE DEF logicalState, crudStores, gapStores, ruleStores, contraStores,
        historyStores
<1>1. CASE CrudStep
  BY <1>1, AllocationShows DEF CrudStep, AddEntity, AddObservation, AddClaim,
     AddEvidence, Kinds
<1>2. CASE RelationStep
  BY <1>2, AllocationShows DEF RelationStep, AddRelation, Kinds
<1>3. CASE RuleStep
  <2>1. ASSUME NEW rule, NEW maturity, RegisterRule(rule, maturity)
        PROVE  ruleDefinitions' # ruleDefinitions
    BY <2>1 DEF RegisterRule, Put
  <2>2. ASSUME NEW rule, NEW fired, NEW true, NEW false, NEW precision, NEW rate,
               UpdateRuleStats(rule, fired, true, false, precision, rate)
        PROVE  ruleStats' # ruleStats
    <3>1. \E new : new # ruleStats[rule] /\ ruleStats' = Put(ruleStats, rule, new)
      BY <2>2 DEF UpdateRuleStats
    <3> QED
      BY <3>1 DEF Put
  <2> QED
    BY <1>3, <2>1, <2>2 DEF RuleStep
<1>4. CASE GapStep
  <2>1. ASSUME NEW claim, NEW type, NEW required, NEW severity, NEW rule,
               AddGap(claim, type, required, severity, rule)
        PROVE  claimGapRefs' # claimGapRefs \/ nextId' # nextId
    BY <2>1, AllocationShows DEF AddGap, ShareGap, NewGap, Kinds
  <2>2. ASSUME NEW evidence, ResolveGapsForEvidence(evidence)
        PROVE  gapResolutions' # gapResolutions
    BY <2>2 DEF ResolveGapsForEvidence, GapsClosedBy
  <2> QED
    BY <1>4, <2>1, <2>2 DEF GapStep
<1>5. CASE ContradictionStep
  <2>1. ASSUME NEW claim, NEW evidence, RegisterContradiction(claim, evidence)
        PROVE  contradictions' # contradictions
    BY <2>1 DEF RegisterContradiction
  <2>2. ASSUME NEW claim, NEW evidence,
               RegisterContradictionResolution(claim, evidence)
        PROVE  resolvedContradictions' # resolvedContradictions
    BY <2>2 DEF RegisterContradictionResolution, Resolvable
  <2> QED
    BY <1>5, <2>1, <2>2 DEF ContradictionStep
<1>6. CASE TransitionStep
  <2>1. lifecycleSeq' = lifecycleSeq + 1 /\ lifecycleSeq \in Nat
    BY <1>6, TransitionStepIsTransit
       DEF Transit, RecordClaimLifecycleTransition, TypeOK, LifecycleTypes
  <2> QED
    BY <2>1
<1>7. CASE HintStep
  BY <1>7 DEF HintStep, RegisterHintEvidenceTypes, UnregisterHintEvidenceTypes,
     ClearHintEvidenceTypes, SetHintEvidenceTypes
<1> QED
  BY <1>1, <1>2, <1>3, <1>4, <1>5, <1>6, <1>7 DEF Next

\* The revision counts the changes of state, no more and no fewer: a call that
\* changed nothing takes no step, and one that changed anything moved it.
THEOREM IdentityAlwaysTracksState == Spec => IdentityTracksState
<1>1. TypeOK /\ [Next]_vars
        => [ /\ stateToken' = stateToken
             /\ stateRevision' = stateRevision + 1
             /\ logicalState' # logicalState ]_vars
  BY StepMovesRevision, StepShows
<1> QED
  BY <1>1, EngineTypeCorrect, PTL DEF Spec, IdentityTracksState

----------------------------------------------------------------------------
\* No reference dangles, gaps are shared within a subject, and the dedup index
\* is exact.  A step keeps what it found (StepKeeps), so only the references it
\* adds need an argument: each action checks them, or takes them from the index.
\* Only add_gap and resolve_gaps_for_evidence write the gap stores; every other
\* step keeps the subjects and the evidences these read.

\* The strengthening: add_gap trusts the gap ids it finds in the index.
IndexTargetsExist ==
  \A key \in DOMAIN gapDedupIndex : gapDedupIndex[key] \in DOMAIN gaps

\* The inductive invariant of the references.
ReferenceInv == TypeOK /\ ReferencesResolve /\ IndexTargetsExist

\* The ids one step registers.
Added(old, new) == DOMAIN new \ DOMAIN old

\* The references a step adds resolve after it.
AddedReferencesResolve ==
  /\ \A o \in Added(observations, observations') : observations'[o] \in entities'
  /\ \A c \in Added(claims, claims') : claims'[c].subject \in entities'
  /\ \A e \in Added(evidences, evidences') : evidences'[e].claim \in DOMAIN claims'
  /\ \A g \in Added(gaps, gaps') : gaps'[g].claim \in DOMAIN claims'
  /\ \A r \in Added(relations, relations') :
       Resolves(relations[r].from)' /\ Resolves(relations[r].to)'
  /\ \A ref \in claimGapRefs' \ claimGapRefs :
       ref[1] \in DOMAIN claims' /\ ref[2] \in DOMAIN gaps'
  /\ \A g \in Added(gapResolutions, gapResolutions') :
       g \in DOMAIN gaps' /\ gapResolutions'[g] \in DOMAIN evidences'
  /\ \A pair \in contradictions' \ contradictions :
       pair[1] \in DOMAIN claims' /\ pair[2] \in DOMAIN evidences'
  /\ Added(claimLifecycleEvents, claimLifecycleEvents') \subseteq DOMAIN claims'
  /\ \A key \in Added(gapDedupIndex, gapDedupIndex') :
       gapDedupIndex'[key] \in DOMAIN gaps'

\* What is held of a kind is what the code looks up, and no store loses an id.
LEMMA HeldIsStorage ==
  ASSUME NEW kind \in Kinds
  PROVE  Held[kind] = StorageForKind(kind)
<1>1. CASE kind = "entity"       BY <1>1 DEF Held, StorageForKind
<1>2. CASE kind = "observation"  BY <1>2 DEF Held, StorageForKind
<1>3. CASE kind = "claim"        BY <1>3 DEF Held, StorageForKind
<1>4. CASE kind = "evidence"     BY <1>4 DEF Held, StorageForKind
<1>5. CASE kind = "relation"     BY <1>5 DEF Held, StorageForKind
<1>6. CASE kind = "gap"          BY <1>6 DEF Held, StorageForKind
<1> QED
  BY <1>1, <1>2, <1>3, <1>4, <1>5, <1>6 DEF Kinds

LEMMA HeldIsStoragePrimed ==
  ASSUME NEW kind \in Kinds
  PROVE  (Held[kind] = StorageForKind(kind))'
<1>1. CASE kind = "entity"       BY <1>1 DEF Held, StorageForKind
<1>2. CASE kind = "observation"  BY <1>2 DEF Held, StorageForKind
<1>3. CASE kind = "claim"        BY <1>3 DEF Held, StorageForKind
<1>4. CASE kind = "evidence"     BY <1>4 DEF Held, StorageForKind
<1>5. CASE kind = "relation"     BY <1>5 DEF Held, StorageForKind
<1>6. CASE kind = "gap"          BY <1>6 DEF Held, StorageForKind
<1> QED
  BY <1>1, <1>2, <1>3, <1>4, <1>5, <1>6 DEF Kinds

\* No store of ids shrinks.
LEMMA StorageGrows ==
  ASSUME RegisteredKept, NEW kind \in Kinds
  PROVE  Held[kind] \subseteq Held'[kind]
<1>1. StorageForKind(kind) \subseteq StorageForKind(kind)'
  BY DEF RegisteredKept, Kept, StorageForKind, Kinds
<1>2. Held[kind] = StorageForKind(kind) /\ Held'[kind] = StorageForKind(kind)'
  BY HeldIsStorage, HeldIsStoragePrimed
<1> QED
  BY <1>1, <1>2

\* Old references still resolve, so a step need only answer for new ones.
LEMMA OldReferencesResolve ==
  ASSUME ReferenceInv, TypeOK', RegisteredKept, AddedReferencesResolve
  PROVE  ReferenceInv'
<1> USE DEF ReferenceInv, ReferencesResolve, RegisteredKept, Kept,
            AddedReferencesResolve, Added
<1>1. \A o \in DOMAIN observations' : observations'[o] \in entities'
  OBVIOUS
<1>2. \A c \in DOMAIN claims' : claims'[c].subject \in entities'
  <2> SUFFICES ASSUME NEW c \in DOMAIN claims
               PROVE  claims'[c].subject \in entities'
    OBVIOUS
  <2>1. claims'[c] = [claims[c] EXCEPT !.status = claims'[c].status]
    OBVIOUS
  <2>2. claims'[c].subject = claims[c].subject
    BY <2>1 DEF TypeOK, CrudTypes, ClaimRecord
  <2> QED
    BY <2>2 DEF SubjectOf
<1>3. \A e \in DOMAIN evidences' : evidences'[e].claim \in DOMAIN claims'
  OBVIOUS
<1>4. \A g \in DOMAIN gaps' : gaps'[g].claim \in DOMAIN claims'
  OBVIOUS
<1>5. \A r \in DOMAIN relations' :
        Resolves(relations[r].from)' /\ Resolves(relations[r].to)'
  <2> SUFFICES ASSUME NEW r \in DOMAIN relations
               PROVE  Resolves(relations[r].from)' /\ Resolves(relations[r].to)'
    OBVIOUS
  <2>1. relations'[r] = relations[r]
    OBVIOUS
  <2>2. relations[r].from.kind \in Kinds /\ relations[r].to.kind \in Kinds
    BY DEF TypeOK, CrudTypes, Reference
  <2>3. \A kind \in Kinds : Held[kind] \subseteq Held'[kind]
    BY StorageGrows
  <2>4. Resolves(relations[r].from) /\ Resolves(relations[r].to)
    OBVIOUS
  <2> QED
    BY <2>1, <2>2, <2>3, <2>4 DEF Resolves
<1>6. \A ref \in claimGapRefs' : ref[1] \in DOMAIN claims' /\ ref[2] \in DOMAIN gaps'
  OBVIOUS
<1>7. \A g \in DOMAIN gapResolutions' :
        g \in DOMAIN gaps' /\ gapResolutions'[g] \in DOMAIN evidences'
  OBVIOUS
<1>8. \A pair \in contradictions' :
        pair[1] \in DOMAIN claims' /\ pair[2] \in DOMAIN evidences'
  OBVIOUS
<1>9. DOMAIN claimLifecycleEvents' \subseteq DOMAIN claims'
  OBVIOUS
<1>10. IndexTargetsExist'
  BY DEF IndexTargetsExist
<1> HIDE DEF RegisteredKept, Kept, AddedReferencesResolve, Added
<1> QED
  BY <1>1, <1>2, <1>3, <1>4, <1>5, <1>6, <1>7, <1>8, <1>9, <1>10 DEF SubjectOf

----------------------------------------------------------------------------
\* What each step adds resolves: an action checks what it is given, and what
\* it takes from the dedup index unchecked is there.

Sound == TypeOK /\ IndexTargetsExist

LEMMA AddClaimAdds ==
  ASSUME NEW subject, NEW rule, NEW base, NEW status,
         AddClaim(subject, rule, base, status)
  PROVE  AddedReferencesResolve
<1> USE DEF AddedReferencesResolve, Added
<1>1. \A c \in DOMAIN claims' \ DOMAIN claims : claims'[c].subject = subject
  BY DEF AddClaim, Put
<1> QED
  BY <1>1 DEF AddClaim, gapStores, contraStores, historyStores

LEMMA AddEvidenceAdds ==
  ASSUME NEW claim, NEW type, NEW strength, AddEvidence(claim, type, strength)
  PROVE  AddedReferencesResolve
<1> USE DEF AddedReferencesResolve, Added
<1>1. \A e \in DOMAIN evidences' \ DOMAIN evidences : evidences'[e].claim = claim
  BY DEF AddEvidence, Put
<1> QED
  BY <1>1 DEF AddEvidence, gapStores, contraStores, historyStores

LEMMA CrudStepAdds == Sound /\ CrudStep => AddedReferencesResolve
<1> SUFFICES ASSUME Sound, CrudStep
             PROVE  AddedReferencesResolve
  OBVIOUS
<1> USE DEF AddedReferencesResolve, Added
<1>1. CASE AddEntity
  BY <1>1 DEF AddEntity, gapStores, contraStores, historyStores
<1>2. ASSUME NEW entity \in Ids("entity"), AddObservation(entity)
      PROVE  AddedReferencesResolve
  <2>1. \A o \in DOMAIN observations' \ DOMAIN observations : observations'[o] = entity
    BY <1>2 DEF AddObservation, Put
  <2> QED
    BY <1>2, <2>1 DEF AddObservation, gapStores, contraStores, historyStores
<1>3. ASSUME NEW subject \in Ids("entity"), NEW rule \in RuleKeys,
             NEW base \in Scores, NEW status \in CreationStatuses,
             AddClaim(subject, rule, base, status)
      PROVE  AddedReferencesResolve
  BY <1>3, AddClaimAdds
<1>4. ASSUME NEW claim \in Ids("claim"), NEW type \in EvidenceTypes,
             NEW strength \in Strengths, AddEvidence(claim, type, strength)
      PROVE  AddedReferencesResolve
  BY <1>4, AddEvidenceAdds
<1> QED
  BY <1>1, <1>2, <1>3, <1>4 DEF CrudStep

LEMMA RelationStepAdds == Sound /\ RelationStep => AddedReferencesResolve
<1> SUFFICES ASSUME Sound, RelationStep
             PROVE  AddedReferencesResolve
  OBVIOUS
<1>1. PICK from \in [kind : Kinds, id : UNION {Ids(kind) : kind \in Kinds}],
           to \in [kind : Kinds, id : UNION {Ids(kind) : kind \in Kinds}] :
             AddRelation(from, to)
  BY DEF RelationStep
<1>2. \A r \in DOMAIN relations' \ DOMAIN relations :
        relations'[r].from = from /\ relations'[r].to = to
  BY <1>1 DEF AddRelation, Put
<1>3. /\ from.kind \in Kinds /\ from.id \in Held[from.kind]
      /\ to.kind \in Kinds /\ to.id \in Held[to.kind]
  BY <1>1, HeldIsStorage DEF AddRelation
<1>4. from.id \in Held'[from.kind] /\ to.id \in Held'[to.kind]
  BY <1>3, RelationStepKeeps, StorageGrows DEF Sound
<1>5. \A r \in Added(relations, relations') :
        Resolves(relations[r].from)' /\ Resolves(relations[r].to)'
  BY <1>2, <1>4 DEF Added, Resolves
<1> QED
  BY <1>1, <1>5 DEF AddRelation, AddedReferencesResolve, Added, crudStores,
     gapStores, contraStores, historyStores

LEMMA AddGapAdds ==
  ASSUME Sound, NEW claim, NEW type, NEW required, NEW severity, NEW rule,
         AddGap(claim, type, required, severity, rule)
  PROVE  AddedReferencesResolve
<1> USE DEF AddedReferencesResolve, Added
<1> DEFINE key == DedupKey(claim, rule, type, required)
<1>1. CASE key \in DOMAIN gapDedupIndex
  <2>1. ShareGap(claim, gapDedupIndex[key])
    BY <1>1 DEF AddGap
  <2>2. gapDedupIndex[key] \in DOMAIN gaps
    BY <1>1 DEF Sound, IndexTargetsExist
  <2> HIDE DEF key
  <2> QED
    BY <2>1, <2>2 DEF AddGap, ShareGap, crudStores, contraStores,
       historyStores
<1>2. CASE key \notin DOMAIN gapDedupIndex
  <2>1. NewGap(claim, type, required, severity, rule)
    BY <1>2 DEF AddGap
  <2>2. /\ DOMAIN gaps' = DOMAIN gaps \cup {NewId("gap")}
        /\ \A g \in DOMAIN gaps' \ DOMAIN gaps : gaps'[g].claim = claim
    BY <2>1 DEF NewGap, Put
  <2>3. \A k \in DOMAIN gapDedupIndex' \ DOMAIN gapDedupIndex :
          gapDedupIndex'[k] = NewId("gap")
    BY <2>1 DEF NewGap, Put
  <2>4. claimGapRefs' \ claimGapRefs \subseteq {<<claim, NewId("gap")>>}
    BY <2>1 DEF NewGap
  <2> QED
    BY <2>2, <2>3, <2>4 DEF AddGap, crudStores, contraStores, historyStores
<1> QED
  BY <1>1, <1>2

LEMMA ResolveGapsAdds ==
  ASSUME NEW evidence, ResolveGapsForEvidence(evidence)
  PROVE  AddedReferencesResolve
<1> USE DEF AddedReferencesResolve, Added
<1>1. \A g \in GapsClosedBy(evidence) : g \in DOMAIN gaps
  BY DEF GapsClosedBy, GapsForClaim
<1> QED
  BY <1>1 DEF ResolveGapsForEvidence, crudStores, contraStores, historyStores

LEMMA GapStepAdds == Sound /\ GapStep => AddedReferencesResolve
<1> SUFFICES ASSUME Sound, GapStep
             PROVE  AddedReferencesResolve
  OBVIOUS
<1> USE DEF AddedReferencesResolve, Added
<1>1. ASSUME NEW claim, NEW type, NEW required, NEW severity, NEW rule,
             AddGap(claim, type, required, severity, rule)
      PROVE  AddedReferencesResolve
  BY <1>1, AddGapAdds
<1>2. ASSUME NEW evidence, ResolveGapsForEvidence(evidence)
      PROVE  AddedReferencesResolve
  BY <1>2, ResolveGapsAdds
<1> QED
  BY <1>1, <1>2 DEF GapStep

LEMMA ContradictionStepAdds ==
  Sound /\ ContradictionStep => AddedReferencesResolve
<1> SUFFICES ASSUME NEW claim, NEW evidence,
                    \/ RegisterContradiction(claim, evidence)
                    \/ RegisterContradictionResolution(claim, evidence)
             PROVE  AddedReferencesResolve
  BY DEF ContradictionStep
<1>1. contradictions' \ contradictions \subseteq {<<claim, evidence>>}
  BY DEF RegisterContradiction, RegisterContradictionResolution
<1> QED
  BY <1>1 DEF RegisterContradiction, RegisterContradictionResolution,
     AddedReferencesResolve, Added, crudStores, gapStores, historyStores

LEMMA TransitAdds ==
  ASSUME NEW claim \in DOMAIN claims, NEW to, NEW transition,
         Transit(claim, to, transition)
  PROVE  AddedReferencesResolve
<1>1. DOMAIN claimLifecycleEvents' = DOMAIN claimLifecycleEvents \cup {claim}
  BY PutFacts DEF Transit, RecordClaimLifecycleTransition
<1>2. DOMAIN claims' = DOMAIN claims
  BY DEF Transit
<1> QED
  BY <1>1, <1>2 DEF Transit, AddedReferencesResolve, Added, gapStores, contraStores

LEMMA TransitionStepAdds == Sound /\ TransitionStep => AddedReferencesResolve
  BY TransitionStepIsTransit, TransitAdds

LEMMA RuleStepAdds == Sound /\ RuleStep => AddedReferencesResolve
<1>1. RuleStep => UNCHANGED <<crudStores, relations, gapStores, contraStores,
                              historyStores>>
  BY DEF RuleStep, RegisterRule, UpdateRuleStats
<1> QED
  BY <1>1 DEF AddedReferencesResolve, Added, crudStores, gapStores, contraStores,
     historyStores

LEMMA HintStepAdds == Sound /\ HintStep => AddedReferencesResolve
<1>1. HintStep => UNCHANGED <<crudStores, relations, gapStores, contraStores,
                              historyStores>>
  BY DEF HintStep, RegisterHintEvidenceTypes, UnregisterHintEvidenceTypes,
     ClearHintEvidenceTypes, SetHintEvidenceTypes
<1> QED
  BY <1>1 DEF AddedReferencesResolve, Added, crudStores, gapStores, contraStores,
     historyStores

LEMMA StepAdds == Sound /\ [Next]_vars => AddedReferencesResolve
<1>1. UNCHANGED vars => AddedReferencesResolve
  BY DEF vars, AddedReferencesResolve, Added, crudStores, gapStores, ruleStores,
     contraStores, historyStores
<1> QED
  BY <1>1, CrudStepAdds, RelationStepAdds, RuleStepAdds, GapStepAdds,
     ContradictionStepAdds, TransitionStepAdds, HintStepAdds DEF Next

\* Old references are kept, added ones resolve.
LEMMA ReferenceInductive == ReferenceInv /\ [Next]_vars => ReferenceInv'
<1> SUFFICES ASSUME ReferenceInv, [Next]_vars
             PROVE  ReferenceInv'
  OBVIOUS
<1>1. TypeOK' /\ RegisteredKept
  BY TypeInductive, StepKeeps DEF ReferenceInv
<1>2. AddedReferencesResolve
  BY StepAdds DEF Sound, ReferenceInv
<1> QED
  BY <1>1, <1>2, OldReferencesResolve

LEMMA InitReferences == Init => ReferenceInv
  BY InitTypes DEF Init, EmptyMap, ReferenceInv, ReferencesResolve, IndexTargetsExist

\* Every id the engine stores names an object it holds, at every moment of
\* every sequence of calls.
THEOREM ReferencesAlwaysResolve == Spec => []ReferencesResolve
<1>1. ReferenceInv => ReferencesResolve
  BY DEF ReferenceInv
<1> QED
  BY <1>1, InitReferences, ReferenceInductive, PTL DEF Spec

\* The same run of the proof, for the modules that need the strengthening.
THEOREM ReferenceInvariant == Spec => []ReferenceInv
  BY InitReferences, ReferenceInductive, PTL DEF Spec

----------------------------------------------------------------------------

\* The inductive invariant of the gaps.
GapInv == ReferenceInv /\ DedupIndexExact /\ SharingWithinSubject

\* A claim never changes its subject.
LEMMA SubjectsKept ==
  ASSUME TypeOK, RegisteredKept, NEW c \in DOMAIN claims
  PROVE  c \in DOMAIN claims' /\ SubjectOf(c)' = SubjectOf(c)
<1>1. c \in DOMAIN claims' /\ claims'[c] = [claims[c] EXCEPT !.status = claims'[c].status]
  BY DEF RegisteredKept
<1>2. claims'[c].subject = claims[c].subject
  BY <1>1 DEF TypeOK, CrudTypes, ClaimRecord
<1> QED
  BY <1>1, <1>2 DEF SubjectOf

\* A gap keeps its key, because it keeps its fields and its claim the subject.
LEMMA KeysKept ==
  ASSUME ReferenceInv, RegisteredKept, NEW g \in DOMAIN gaps
  PROVE  /\ g \in DOMAIN gaps'
         /\ gaps'[g] = gaps[g]
         /\ SubjectOf(gaps[g].claim)' = SubjectOf(gaps[g].claim)
         /\ KeyOfGap(g)' = KeyOfGap(g)
<1>1. g \in DOMAIN gaps' /\ gaps'[g] = gaps[g]
  BY DEF RegisteredKept, Kept
<1>2. gaps[g].claim \in DOMAIN claims
  BY DEF ReferenceInv, ReferencesResolve
<1>3. claims'[gaps[g].claim].subject = claims[gaps[g].claim].subject
  BY <1>2, SubjectsKept DEF ReferenceInv, SubjectOf
<1> QED
  BY <1>1, <1>3 DEF SubjectOf, KeyOfGap, DedupKey

\* A step that leaves the gap stores alone keeps the invariant.
LEMMA OtherStepsKeepGaps ==
  ASSUME GapInv, ReferenceInv', RegisteredKept, UNCHANGED gapStores
  PROVE  GapInv'
<1> USE DEF GapInv
<1>1. UNCHANGED <<gaps, gapDedupIndex, claimGapRefs, gapResolutions>>
  BY DEF gapStores
<1>2. DedupIndexExact'
  <2>1. \A g \in DOMAIN gaps : KeyOfGap(g)' = KeyOfGap(g)
    BY KeysKept
  <2> QED
    BY <1>1, <2>1 DEF DedupIndexExact
<1>3. SharingWithinSubject'
  <2>1. ASSUME NEW ref \in claimGapRefs
        PROVE  SubjectOf(ref[1])' = SubjectOf(gaps[ref[2]].claim)'
    <3>1. ref[1] \in DOMAIN claims /\ ref[2] \in DOMAIN gaps
      BY DEF ReferenceInv, ReferencesResolve
    <3>2. /\ SubjectOf(ref[1])' = SubjectOf(ref[1])
          /\ SubjectOf(gaps[ref[2]].claim)' = SubjectOf(gaps[ref[2]].claim)
      BY <3>1, SubjectsKept, KeysKept DEF ReferenceInv
    <3> QED
      BY <3>2 DEF SharingWithinSubject
  <2>2. \A g \in DOMAIN gapResolutions :
          /\ gapResolutions[g] \in DOMAIN evidences
          /\ evidences'[gapResolutions[g]] = evidences[gapResolutions[g]]
    BY DEF ReferenceInv, ReferencesResolve, RegisteredKept, Kept
  <2> QED
    BY <1>1, <2>1, <2>2 DEF SharingWithinSubject
<1> QED
  BY <1>2, <1>3

\* A hit in the index shares a gap of the claim's own subject.
LEMMA ShareGapKeeps ==
  ASSUME GapInv, ReferenceInv', RegisteredKept, NEW claim, NEW type,
         NEW required, NEW severity, NEW rule,
         AddGap(claim, type, required, severity, rule),
         DedupKey(claim, rule, type, required) \in DOMAIN gapDedupIndex
  PROVE  GapInv'
<1> DEFINE gap == gapDedupIndex[DedupKey(claim, rule, type, required)]
<1> USE DEF GapInv
<1>1. /\ UNCHANGED <<claims, evidences, gaps, gapDedupIndex, gapResolutions>>
      /\ claimGapRefs' = claimGapRefs \cup {<<claim, gap>>}
  BY DEF AddGap, ShareGap, crudStores
<1>2. KeyOfGap(gap) = DedupKey(claim, rule, type, required) /\ gap \in DOMAIN gaps
  BY DEF DedupIndexExact
<1>3. SubjectOf(claim) = SubjectOf(gaps[gap].claim)
  BY <1>2 DEF KeyOfGap, DedupKey, SubjectOf
<1> HIDE DEF gap
<1>4. DedupIndexExact'
  BY <1>1 DEF DedupIndexExact, KeyOfGap, DedupKey
<1>5. SharingWithinSubject'
  BY <1>1, <1>3 DEF SharingWithinSubject, SubjectOf
<1> QED
  BY <1>4, <1>5

\* A miss makes a gap whose key was in no index and whose only claim is its own.
LEMMA NewGapKeeps ==
  ASSUME GapInv, ReferenceInv', RegisteredKept, NEW claim, NEW type,
         NEW required, NEW severity, NEW rule,
         AddGap(claim, type, required, severity, rule),
         DedupKey(claim, rule, type, required) \notin DOMAIN gapDedupIndex
  PROVE  GapInv'
<1> DEFINE new == [claim |-> claim, type |-> type, required |-> required,
                   severity |-> severity, rule |-> rule]
<1> USE DEF GapInv
<1>1. PICK key, id : key = DedupKey(claim, rule, type, required) /\ id = NewId("gap")
  OBVIOUS
<1>2. /\ UNCHANGED <<claims, evidences, gapResolutions>>
      /\ gaps' = Put(gaps, id, new)
      /\ gapDedupIndex' = Put(gapDedupIndex, key, id)
      /\ claimGapRefs' = claimGapRefs \cup {<<claim, id>>}
  BY <1>1 DEF AddGap, NewGap, crudStores
<1>3. id \notin DOMAIN gaps
  BY <1>1, NewIdFresh DEF StorageForKind, Kinds, ReferenceInv
<1> HIDE DEF new
<1>4. gaps'[id] = new
  BY <1>2 DEF Put
<1>5. KeyOfGap(id)' = key /\ gaps'[id].claim = claim
  BY <1>1, <1>2, <1>4 DEF KeyOfGap, DedupKey, new
<1>6. DOMAIN gaps' = DOMAIN gaps \cup {id}
  BY <1>2, PutFacts
<1>7. DOMAIN gapDedupIndex' = DOMAIN gapDedupIndex \cup {key}
  BY <1>2, PutFacts
<1>8. /\ gapDedupIndex'[key] = id
      /\ \A k \in DOMAIN gapDedupIndex : gapDedupIndex'[k] = gapDedupIndex[k]
  <2>1. gapDedupIndex'[key] = id
    BY <1>2 DEF Put
  <2> QED
    BY <2>1 DEF RegisteredKept, Kept
<1>9. \A g \in DOMAIN gaps : gaps'[g] = gaps[g] /\ KeyOfGap(g)' = KeyOfGap(g)
  BY KeysKept
<1>10. key \notin DOMAIN gapDedupIndex
  BY <1>1
<1>11. DedupIndexExact'
  BY <1>5, <1>6, <1>7, <1>8, <1>9, <1>10 DEF DedupIndexExact
<1>12. SharingWithinSubject'
  <2>1. \A ref \in claimGapRefs : ref[1] \in DOMAIN claims /\ ref[2] \in DOMAIN gaps
    BY DEF ReferenceInv, ReferencesResolve
  <2>2. \A g \in DOMAIN gapResolutions : g \in DOMAIN gaps
    BY DEF ReferenceInv, ReferencesResolve
  <2>3. \A ref \in claimGapRefs' : SubjectOf(ref[1])' = SubjectOf(gaps[ref[2]].claim)'
    BY <1>2, <1>5, <1>9, <2>1 DEF SharingWithinSubject, SubjectOf
  <2>4. \A g \in DOMAIN gaps' : <<gaps'[g].claim, g>> \in claimGapRefs'
    BY <1>2, <1>5, <1>6, <1>9 DEF SharingWithinSubject
  <2> QED
    BY <1>2, <1>9, <2>2, <2>3, <2>4 DEF SharingWithinSubject
<1> QED
  BY <1>11, <1>12

\* An evidence closes only gaps its own claim waits on, of its own type.
LEMMA ResolveKeeps ==
  ASSUME GapInv, ReferenceInv', NEW evidence, ResolveGapsForEvidence(evidence)
  PROVE  GapInv'
<1> USE DEF GapInv
<1>1. UNCHANGED <<claims, evidences, gaps, gapDedupIndex, claimGapRefs>>
  BY DEF ResolveGapsForEvidence, crudStores
<1>2. \A g \in GapsClosedBy(evidence) :
        /\ evidences[evidence].type = gaps[g].required
        /\ <<evidences[evidence].claim, g>> \in claimGapRefs
  BY DEF GapsClosedBy, GapsForClaim
<1>3. /\ DOMAIN gapResolutions' = DOMAIN gapResolutions \cup GapsClosedBy(evidence)
      /\ \A g \in DOMAIN gapResolutions' :
           gapResolutions'[g] = IF g \in GapsClosedBy(evidence) THEN evidence
                                                                ELSE gapResolutions[g]
  BY DEF ResolveGapsForEvidence
<1>4. DedupIndexExact'
  BY <1>1 DEF DedupIndexExact, KeyOfGap, DedupKey
<1>5. SharingWithinSubject'
  BY <1>1, <1>2, <1>3 DEF SharingWithinSubject, SubjectOf
<1> QED
  BY <1>4, <1>5

\* The gap stores are written by add_gap and resolve_gaps_for_evidence only.
LEMMA OnlyGapStepsWrite ==
  ASSUME [Next]_vars, ~GapStep
  PROVE  UNCHANGED gapStores
<1>1. CrudStep => UNCHANGED gapStores
  BY DEF CrudStep, AddEntity, AddObservation, AddClaim, AddEvidence
<1>2. RelationStep => UNCHANGED gapStores
  BY DEF RelationStep, AddRelation
<1>3. RuleStep => UNCHANGED gapStores
  BY DEF RuleStep, RegisterRule, UpdateRuleStats
<1>4. ContradictionStep => UNCHANGED gapStores
  BY DEF ContradictionStep, RegisterContradiction, RegisterContradictionResolution
<1>5. TransitionStep => UNCHANGED gapStores
  BY TransitionStepIsTransit DEF Transit
<1>6. HintStep => UNCHANGED gapStores
  BY DEF HintStep, RegisterHintEvidenceTypes, UnregisterHintEvidenceTypes,
     ClearHintEvidenceTypes, SetHintEvidenceTypes
<1> QED
  BY <1>1, <1>2, <1>3, <1>4, <1>5, <1>6 DEF Next, vars

LEMMA GapInductive == GapInv /\ [Next]_vars => GapInv'
<1> SUFFICES ASSUME GapInv, [Next]_vars
             PROVE  GapInv'
  OBVIOUS
<1>1. ReferenceInv' /\ RegisteredKept
  BY ReferenceInductive, StepKeeps DEF GapInv, ReferenceInv
<1>2. CASE GapStep
  <2>1. ASSUME NEW claim, NEW type, NEW required, NEW severity, NEW rule,
               AddGap(claim, type, required, severity, rule)
        PROVE  GapInv'
    BY <1>1, <2>1, ShareGapKeeps, NewGapKeeps
  <2>2. ASSUME NEW evidence, ResolveGapsForEvidence(evidence)
        PROVE  GapInv'
    BY <1>1, <2>2, ResolveKeeps
  <2> QED
    BY <1>2, <2>1, <2>2 DEF GapStep
<1>3. CASE ~GapStep
  <2>1. UNCHANGED gapStores
    BY <1>3, OnlyGapStepsWrite
  <2> QED
    BY <1>1, <2>1, OtherStepsKeepGaps
<1> QED
  BY <1>2, <1>3

LEMMA InitGaps == Init => GapInv
  BY InitReferences DEF Init, EmptyMap, GapInv, DedupIndexExact, SharingWithinSubject

\* add_gap never makes two gaps of one subject, rule, type and evidence type,
\* and the index finds every gap under its own key, however many there are.
THEOREM DedupIndexAlwaysExact == Spec => []DedupIndexExact
<1>1. GapInv => DedupIndexExact
  BY DEF GapInv
<1> QED
  BY <1>1, InitGaps, GapInductive, PTL DEF Spec

\* Evidence about one subject never closes a gap of another, and every claim
\* that waits on a gap has the gap's subject.
THEOREM SharingStaysWithinSubject == Spec => []SharingWithinSubject
<1>1. GapInv => SharingWithinSubject
  BY DEF GapInv
<1> QED
  BY <1>1, InitGaps, GapInductive, PTL DEF Spec

----------------------------------------------------------------------------
\* Calls with arguments of the declared types, whether or not they are among
\* those the constants offer to the callers of Next: a consumer of the engine
\* passes values of its own.

TypedCall ==
  \/ AddEntity
  \/ \E subject, base, status : \E rule \in RuleKeys :
       AddClaim(subject, rule, base, status)
  \/ \E claim, strength : \E type \in EvidenceTypes :
       AddEvidence(claim, type, strength)
  \/ \E rule \in RuleKeys, maturity \in RuleMaturities : RegisterRule(rule, maturity)
  \/ \E rule \in RuleKeys, fired, true, false \in Int,
        precision, rate \in ScoreValue \cup {NoScore} :
       UpdateRuleStats(rule, fired, true, false, precision, rate)
  \/ \E claim, severity : \E type \in GapTypes, required \in EvidenceTypes,
        rule \in RuleIds : AddGap(claim, type, required, severity, rule)
  \/ \E evidence : ResolveGapsForEvidence(evidence)
  \/ \E claim \in DOMAIN claims, to \in ClaimStatuses, transition \in Transitions :
       Transit(claim, to, transition)

\* They keep what the lemmas above say of any arguments: the types and what is
\* registered, then the references, then the gaps.
LEMMA TypedCallKeepsTypes ==
  ASSUME TypeOK, TypedCall
  PROVE  TypeOK' /\ RegisteredKept
<1>1. CASE AddEntity
  BY <1>1, CrudStepTypes, CrudStepKeeps DEF CrudStep
<1>2. ASSUME NEW subject, NEW base, NEW status, NEW rule \in RuleKeys,
             AddClaim(subject, rule, base, status)
      PROVE  TypeOK' /\ RegisteredKept
  BY <1>2, AddClaimTypes, AddClaimKeeps
<1>3. ASSUME NEW claim, NEW strength, NEW type \in EvidenceTypes,
             AddEvidence(claim, type, strength)
      PROVE  TypeOK' /\ RegisteredKept
  BY <1>3, AddEvidenceTypes, AddEvidenceKeeps
<1>4. ASSUME NEW rule \in RuleKeys, NEW maturity \in RuleMaturities,
             RegisterRule(rule, maturity)
      PROVE  TypeOK' /\ RegisteredKept
  BY <1>4, RegisterRuleTypes, RegisterRuleKeeps
<1>5. ASSUME NEW rule \in RuleKeys, NEW fired \in Int, NEW true \in Int,
             NEW false \in Int, NEW precision \in ScoreValue \cup {NoScore},
             NEW rate \in ScoreValue \cup {NoScore},
             UpdateRuleStats(rule, fired, true, false, precision, rate)
      PROVE  TypeOK' /\ RegisteredKept
  BY <1>5, UpdateRuleStatsTypes, UpdateRuleStatsKeeps
<1>6. ASSUME NEW claim, NEW severity, NEW type \in GapTypes,
             NEW required \in EvidenceTypes, NEW rule \in RuleIds,
             AddGap(claim, type, required, severity, rule)
      PROVE  TypeOK' /\ RegisteredKept
  BY <1>6, AddGapTypes, AddGapKeeps
<1>7. ASSUME NEW evidence, ResolveGapsForEvidence(evidence)
      PROVE  TypeOK' /\ RegisteredKept
  BY <1>7, ResolveGapsTypes, ResolveGapsKeeps
<1>8. ASSUME NEW claim \in DOMAIN claims, NEW to \in ClaimStatuses,
             NEW transition \in Transitions, Transit(claim, to, transition)
      PROVE  TypeOK' /\ RegisteredKept
  BY <1>8, TransitTypes, TransitKeeps
<1> QED
  BY <1>1, <1>2, <1>3, <1>4, <1>5, <1>6, <1>7, <1>8 DEF TypedCall

LEMMA TypedCallAdds ==
  ASSUME Sound, TypedCall
  PROVE  AddedReferencesResolve
<1>1. CASE AddEntity
  BY <1>1, CrudStepAdds DEF CrudStep
<1>2. ASSUME NEW rule, NEW maturity, RegisterRule(rule, maturity)
      PROVE  AddedReferencesResolve
  BY <1>2 DEF RegisterRule, AddedReferencesResolve, Added, crudStores, gapStores,
     contraStores, historyStores
<1>3. ASSUME NEW rule, NEW fired, NEW true, NEW false, NEW precision, NEW rate,
             UpdateRuleStats(rule, fired, true, false, precision, rate)
      PROVE  AddedReferencesResolve
  BY <1>3 DEF UpdateRuleStats, AddedReferencesResolve, Added, crudStores, gapStores,
     contraStores, historyStores
<1> QED
  BY <1>1, <1>2, <1>3, AddClaimAdds, AddEvidenceAdds, AddGapAdds, ResolveGapsAdds,
     TransitAdds DEF TypedCall

LEMMA TypedCallKeepsGaps ==
  ASSUME GapInv, TypedCall
  PROVE  GapInv' /\ RegisteredKept
<1>1. TypeOK' /\ RegisteredKept
  BY TypedCallKeepsTypes DEF GapInv, ReferenceInv
<1>2. ReferenceInv'
  BY <1>1, TypedCallAdds, OldReferencesResolve DEF GapInv, ReferenceInv, Sound
<1>3. UNCHANGED gapStores => GapInv'
  BY <1>1, <1>2, OtherStepsKeepGaps
<1>4. ASSUME AddEntity
      PROVE  GapInv'
  BY <1>3, <1>4 DEF AddEntity
<1>5. ASSUME NEW subject, NEW base, NEW status, NEW rule,
             AddClaim(subject, rule, base, status)
      PROVE  GapInv'
  BY <1>3, <1>5 DEF AddClaim
<1>6. ASSUME NEW claim, NEW strength, NEW type, AddEvidence(claim, type, strength)
      PROVE  GapInv'
  BY <1>3, <1>6 DEF AddEvidence
<1>7. ASSUME NEW rule, NEW maturity, RegisterRule(rule, maturity)
      PROVE  GapInv'
  BY <1>3, <1>7 DEF RegisterRule
<1>8. ASSUME NEW rule, NEW fired, NEW true, NEW false, NEW precision, NEW rate,
             UpdateRuleStats(rule, fired, true, false, precision, rate)
      PROVE  GapInv'
  BY <1>3, <1>8 DEF UpdateRuleStats
<1>9. ASSUME NEW claim, NEW to, NEW transition, Transit(claim, to, transition)
      PROVE  GapInv'
  BY <1>3, <1>9 DEF Transit
<1>10. ASSUME NEW claim, NEW severity, NEW type, NEW required, NEW rule,
              AddGap(claim, type, required, severity, rule)
       PROVE  GapInv'
  BY <1>1, <1>2, <1>10, ShareGapKeeps, NewGapKeeps
<1>11. ASSUME NEW evidence, ResolveGapsForEvidence(evidence)
       PROVE  GapInv'
  BY <1>2, <1>11, ResolveKeeps
<1> QED
  BY <1>1, <1>4, <1>5, <1>6, <1>7, <1>8, <1>9, <1>10, <1>11 DEF TypedCall

----------------------------------------------------------------------------
\* A claim's history explains its status, and every decision in it can still be
\* justified from the stores.  A step appends at most one event, to one claim,
\* and what justified the others is never withdrawn.

\* The inductive invariant of the histories: decisions rest on shared gaps.
HistoryInv == GapInv /\ HistoryIsPathToStatus /\ DecisionsStayJustified

\* A claim that waits on a gap has the subject of the evidence that closed it.
LEMMA SharersAgree ==
  ASSUME GapInv, NEW c, NEW g \in DOMAIN gapResolutions,
         <<c, g>> \in claimGapRefs
  PROVE  SubjectOf(evidences[gapResolutions[g]].claim) = SubjectOf(c)
<1>1. <<evidences[gapResolutions[g]].claim, g>> \in claimGapRefs
  BY DEF GapInv, SharingWithinSubject
<1>2. \A ref \in claimGapRefs : SubjectOf(ref[1]) = SubjectOf(gaps[ref[2]].claim)
  BY DEF GapInv, SharingWithinSubject
<1>3. /\ SubjectOf(c) = SubjectOf(gaps[g].claim)
      /\ SubjectOf(evidences[gapResolutions[g]].claim) = SubjectOf(gaps[g].claim)
  BY <1>1, <1>2
<1> QED
  BY <1>3

\* Each of the six makes one legal, justified transition of one claim.
LEMMA TransitionStepIsJustified ==
  ASSUME GapInv, TransitionStep
  PROVE  \E claim \in DOMAIN claims \cap Ids("claim"), to \in ClaimStatuses,
            transition \in Transitions :
           /\ Transit(claim, to, transition)
           /\ <<claims[claim].status, to>> \in LegalMoves
           /\ Justified(claim, transition)
<1> DEFINE Goal == \E claim \in DOMAIN claims \cap Ids("claim"),
                     to \in ClaimStatuses, transition \in Transitions :
                     /\ Transit(claim, to, transition)
                     /\ <<claims[claim].status, to>> \in LegalMoves
                     /\ Justified(claim, transition)
<1>1. SUFFICES ASSUME NEW claim \in Ids("claim"),
                    \/ ConfirmClaimIfReady(claim)
                    \/ RefuteClaimIfReady(claim)
                    \/ DisputeClaimIfReady(claim)
                    \/ ResolveDisputedClaimIfReady(claim)
                    \/ RefuteDisputedClaimIfReady(claim)
                    \/ RefuteDisputedClaimIfReadyByFreshness(claim)
             PROVE  Goal
  BY DEF TransitionStep
<1>2. CASE ConfirmClaimIfReady(claim)
  <2>1. Transit(claim, "confirmed", "confirm_if_ready") /\ ReadyToConfirm(claim)
    BY <1>2 DEF ConfirmClaimIfReady
  <2>2. claim \in DOMAIN claims /\ <<claims[claim].status, "confirmed">> \in LegalMoves
    BY <2>1 DEF ReadyToConfirm, HasStatus, LegalMoves
  <2>3. PICK g \in GapsForClaim(claim) : g \in DOMAIN gapResolutions
    BY <2>1 DEF ReadyToConfirm
  <2>4. SubjectOf(evidences[gapResolutions[g]].claim) = SubjectOf(claim)
    BY <2>3, SharersAgree DEF GapsForClaim
  <2>5. Justified(claim, "confirm_if_ready")
    BY <2>3, <2>4 DEF Justified
  <2> QED
    BY <2>1, <2>2, <2>5 DEF ClaimStatuses, Transitions
<1>3. CASE RefuteClaimIfReady(claim)
  <2>1. Transit(claim, "refuted", "refute_if_ready") /\ ReadyToRefute(claim)
    BY <1>3 DEF RefuteClaimIfReady
  <2>2. claim \in DOMAIN claims /\ <<claims[claim].status, "refuted">> \in LegalMoves
    BY <2>1 DEF ReadyToRefute, HasStatus, LegalMoves
  <2>5. Justified(claim, "refute_if_ready")
    BY <2>1 DEF Justified, ReadyToRefute
  <2> QED
    BY <2>1, <2>2, <2>5 DEF ClaimStatuses, Transitions
<1>4. CASE DisputeClaimIfReady(claim)
  <2>1. Transit(claim, "disputed", "dispute_if_ready") /\ ReadyToDispute(claim)
    BY <1>4 DEF DisputeClaimIfReady
  <2>2. claim \in DOMAIN claims /\ <<claims[claim].status, "disputed">> \in LegalMoves
    BY <2>1 DEF ReadyToDispute, HasStatus, LegalMoves
  <2>5. Justified(claim, "dispute_if_ready")
    BY <2>1 DEF Justified, ReadyToDispute
  <2> QED
    BY <2>1, <2>2, <2>5 DEF ClaimStatuses, Transitions
<1>5. CASE ResolveDisputedClaimIfReady(claim)
  <2>1. Transit(claim, "confirmed", "resolve_disputed_if_ready") /\ ReadyToResolveDisputed(claim)
    BY <1>5 DEF ResolveDisputedClaimIfReady
  <2>2. claim \in DOMAIN claims /\ <<claims[claim].status, "confirmed">> \in LegalMoves
    BY <2>1 DEF ReadyToResolveDisputed, HasStatus, LegalMoves
  <2>5. Justified(claim, "resolve_disputed_if_ready")
    BY <2>1 DEF Justified, ReadyToResolveDisputed
  <2> QED
    BY <2>1, <2>2, <2>5 DEF ClaimStatuses, Transitions
<1>6. CASE RefuteDisputedClaimIfReady(claim)
  <2>1. Transit(claim, "refuted", "refute_disputed_if_ready") /\ ReadyToRefuteDisputed(claim)
    BY <1>6 DEF RefuteDisputedClaimIfReady
  <2>2. claim \in DOMAIN claims /\ <<claims[claim].status, "refuted">> \in LegalMoves
    BY <2>1 DEF ReadyToRefuteDisputed, HasStatus, LegalMoves
  <2>5. Justified(claim, "refute_disputed_if_ready")
    BY <2>1 DEF Justified, ReadyToRefuteDisputed, ActiveContradictionsForClaim
  <2> QED
    BY <2>1, <2>2, <2>5 DEF ClaimStatuses, Transitions
<1>7. CASE RefuteDisputedClaimIfReadyByFreshness(claim)
  <2>1. Transit(claim, "refuted", "refute_disputed_by_freshness_if_ready") /\ ReadyToRefuteByFreshness(claim)
    BY <1>7 DEF RefuteDisputedClaimIfReadyByFreshness
  <2>2. claim \in DOMAIN claims /\ <<claims[claim].status, "refuted">> \in LegalMoves
    BY <2>1 DEF ReadyToRefuteByFreshness, HasStatus, LegalMoves
  <2>5. Justified(claim, "refute_disputed_by_freshness_if_ready")
    BY <2>1 DEF Justified, ReadyToRefuteByFreshness, ActiveContradictionsForClaim
  <2> QED
    BY <2>1, <2>2, <2>5 DEF ClaimStatuses, Transitions
<1> QED
  BY <1>1, <1>2, <1>3, <1>4, <1>5, <1>6, <1>7

\* What justified a decision is never withdrawn.
LEMMA JustificationStands ==
  ASSUME GapInv, RegisteredKept, NEW c \in DOMAIN claims,
         NEW transition, Justified(c, transition)
  PROVE  Justified(c, transition)'
<1> USE DEF GapInv, ReferenceInv
<1>1. transition = "confirm_if_ready" =>
        (\E g \in GapsForClaim(c) \cap DOMAIN gapResolutions :
           SubjectOf(evidences[gapResolutions[g]].claim) = SubjectOf(c))'
  <2> SUFFICES ASSUME NEW g \in GapsForClaim(c) \cap DOMAIN gapResolutions,
                      SubjectOf(evidences[gapResolutions[g]].claim) = SubjectOf(c)
               PROVE  /\ g \in GapsForClaim(c)' \cap DOMAIN gapResolutions'
                      /\ SubjectOf(evidences[gapResolutions[g]].claim)' = SubjectOf(c)'
    BY DEF Justified
  <2>1. g \in GapsForClaim(c)' \cap DOMAIN gapResolutions'
    BY DEF GapsForClaim, RegisteredKept, Kept
  <2>2. /\ gapResolutions'[g] = gapResolutions[g]
        /\ gapResolutions[g] \in DOMAIN evidences
        /\ evidences'[gapResolutions[g]] = evidences[gapResolutions[g]]
        /\ evidences[gapResolutions[g]].claim \in DOMAIN claims
    BY DEF ReferencesResolve, RegisteredKept, Kept
  <2>3. /\ SubjectOf(c)' = SubjectOf(c)
        /\ claims'[evidences[gapResolutions[g]].claim].subject
             = SubjectOf(evidences[gapResolutions[g]].claim)
    BY <2>2, SubjectsKept DEF SubjectOf
  <2> QED
    BY <2>1, <2>2, <2>3 DEF SubjectOf
<1>2. ContradictionsForClaim(c) \subseteq ContradictionsForClaim(c)'
  BY DEF ContradictionsForClaim, RegisteredKept, Kept
<1>3. \A e \in ContradictionsForClaim(c) : IsStrong(e) => IsStrong(e)'
  BY DEF ContradictionsForClaim, IsStrong, RegisteredKept, Kept
<1> QED
  BY <1>1, <1>2, <1>3 DEF Justified

\* A step that appends no event changes no status either.
LEMMA OtherStepsKeepHistory ==
  ASSUME HistoryInv, GapInv', RegisteredKept, UNCHANGED historyStores,
         \A c \in DOMAIN claims : claims'[c] = claims[c]
  PROVE  HistoryInv'
<1> USE DEF HistoryInv
<1>1. /\ claimLifecycleEvents' = claimLifecycleEvents
      /\ lifecycleSeq' = lifecycleSeq
  BY DEF historyStores
<1>2. DOMAIN claimLifecycleEvents \subseteq DOMAIN claims
  BY DEF GapInv, ReferenceInv, ReferencesResolve
<1>3. HistoryIsPathToStatus'
  BY <1>1, <1>2 DEF HistoryIsPathToStatus
<1>4. DecisionsStayJustified'
  BY <1>1, <1>2, JustificationStands DEF DecisionsStayJustified, EventsOf
<1> QED
  BY <1>3, <1>4

\* The event a transition appends continues the path to the new status.
LEMMA TransitKeepsHistory ==
  ASSUME HistoryInv, GapInv', RegisteredKept,
         NEW claim \in DOMAIN claims, NEW to \in ClaimStatuses,
         NEW transition \in Transitions, Transit(claim, to, transition),
         <<claims[claim].status, to>> \in LegalMoves,
         Justified(claim, transition)
  PROVE  HistoryInv'
<1> USE DEF HistoryInv
<1> DEFINE event == [seq |-> lifecycleSeq + 1, from |-> claims[claim].status,
                     to |-> to, transition |-> transition]
           old == ClaimLifecycleHistory(claim)
<1>1. /\ claimLifecycleEvents' = Put(claimLifecycleEvents, claim, Append(old, event))
      /\ lifecycleSeq' = lifecycleSeq + 1
      /\ claims' = [claims EXCEPT ![claim].status = to]
  BY DEF Transit, RecordClaimLifecycleTransition
<1>2. old \in Seq(LifecycleEvent) /\ lifecycleSeq \in Nat
  BY DEF ClaimLifecycleHistory, GapInv, ReferenceInv, TypeOK, LifecycleTypes
<1>3. Len(old) > 0 => claim \in DOMAIN claimLifecycleEvents /\ old = claimLifecycleEvents[claim]
  BY DEF ClaimLifecycleHistory
<1>4. /\ event.seq = lifecycleSeq + 1 /\ event.from = claims[claim].status
      /\ event.to = to /\ event.transition = transition
  OBVIOUS
<1>5. claims'[claim].status = to
      /\ \A c \in DOMAIN claims : c # claim => claims'[c] = claims[c]
  BY <1>1 DEF GapInv, ReferenceInv, TypeOK, CrudTypes, ClaimRecord
<1> HIDE DEF event, old
<1> DEFINE new == Append(old, event)
<1>6. /\ Len(new) = Len(old) + 1
      /\ new[Len(old) + 1] = event
      /\ \A i \in 1 .. Len(old) : new[i] = old[i]
  BY <1>2
<1>7. /\ claimLifecycleEvents'[claim] = new
      /\ \A c \in DOMAIN claimLifecycleEvents' :
           c # claim => c \in DOMAIN claimLifecycleEvents
                        /\ claimLifecycleEvents'[c] = claimLifecycleEvents[c]
  BY <1>1 DEF Put
<1>8. Len(old) \in Nat
  BY <1>2
<1> HIDE DEF new
<1>9. HistoryIsPathToStatus'
  <2> SUFFICES ASSUME NEW c \in DOMAIN claimLifecycleEvents'
               PROVE  LET h == claimLifecycleEvents'[c]
                      IN  /\ Len(h) > 0
                          /\ h[Len(h)].to = claims'[c].status
                          /\ h[Len(h)].seq <= lifecycleSeq'
                          /\ \A i \in 1 .. Len(h) : <<h[i].from, h[i].to>> \in LegalMoves
                          /\ \A i \in 1 .. Len(h) - 1 :
                               h[i].to = h[i + 1].from /\ h[i].seq < h[i + 1].seq
    BY DEF HistoryIsPathToStatus
  <2>1. CASE c # claim
    <3>1. c \in DOMAIN claims /\ c \in DOMAIN claimLifecycleEvents
      BY <1>7, <2>1 DEF GapInv, ReferenceInv, ReferencesResolve
    <3> DEFINE h == claimLifecycleEvents[c]
    <3>2. h \in Seq(LifecycleEvent)
      BY <3>1 DEF GapInv, ReferenceInv, TypeOK, LifecycleTypes
    <3>3. claimLifecycleEvents'[c] = h /\ claims'[c].status = claims[c].status
      BY <1>5, <1>7, <2>1, <3>1
    <3>4. /\ Len(h) > 0
          /\ h[Len(h)].to = claims[c].status
          /\ h[Len(h)].seq <= lifecycleSeq
          /\ \A i \in 1 .. Len(h) : <<h[i].from, h[i].to>> \in LegalMoves
          /\ \A i \in 1 .. Len(h) - 1 :
               h[i].to = h[i + 1].from /\ h[i].seq < h[i + 1].seq
      BY <3>1 DEF HistoryIsPathToStatus
    <3> HIDE DEF h
    <3>5. h[Len(h)] \in LifecycleEvent
      BY <3>2, <3>4
    <3>6. h[Len(h)].seq \in Nat
      BY <3>5 DEF LifecycleEvent
    <3>7. h[Len(h)].seq <= lifecycleSeq'
      BY <1>1, <1>2, <3>4, <3>6
    <3> QED
      BY <3>3, <3>4, <3>7
  <2>2. CASE c = claim
    <3>1. Len(new) > 0 /\ new[Len(new)] = event
      BY <1>6, <1>8
    <3>2. event.to = claims'[claim].status /\ event.seq <= lifecycleSeq'
      BY <1>1, <1>2, <1>4, <1>5
    <3>3. ASSUME Len(old) > 0
          PROVE  /\ old[Len(old)].to = claims[claim].status
                 /\ old[Len(old)].seq <= lifecycleSeq
                 /\ \A i \in 1 .. Len(old) : <<old[i].from, old[i].to>> \in LegalMoves
                 /\ \A i \in 1 .. Len(old) - 1 :
                      old[i].to = old[i + 1].from /\ old[i].seq < old[i + 1].seq
      BY <1>3, <3>3 DEF HistoryIsPathToStatus
    <3>4. ASSUME NEW i \in 1 .. Len(new)
          PROVE  <<new[i].from, new[i].to>> \in LegalMoves
      BY <1>4, <1>6, <1>8, <3>3
    <3>5. ASSUME NEW i \in 1 .. Len(new) - 1
          PROVE  new[i].to = new[i + 1].from /\ new[i].seq < new[i + 1].seq
      <4>1. i \in 1 .. Len(old) /\ Len(old) > 0
        BY <1>6, <1>8
      <4>2. CASE i = Len(old)
        <5>1. old[i] \in LifecycleEvent
          BY <1>2, <4>1
        <5>2. old[i].seq \in Nat
          BY <5>1 DEF LifecycleEvent
        <5>3. new[i] = old[i] /\ new[i + 1] = event
          BY <1>6, <4>1, <4>2
        <5>4. old[i].to = claims[claim].status /\ old[i].seq <= lifecycleSeq
          BY <3>3, <4>1, <4>2
        <5> QED
          BY <1>2, <1>4, <5>2, <5>3, <5>4
      <4>3. CASE i # Len(old)
        <5>1. i \in 1 .. Len(old) - 1 /\ i + 1 \in 1 .. Len(old)
          BY <1>8, <4>1, <4>3
        <5> QED
          BY <1>6, <3>3, <4>1, <5>1
      <4> QED
        BY <4>2, <4>3
    <3> QED
      BY <1>7, <2>2, <3>1, <3>2, <3>4, <3>5
  <2> QED
    BY <2>1, <2>2
<1>10. DecisionsStayJustified'
  <2> SUFFICES ASSUME NEW c \in DOMAIN claimLifecycleEvents',
                      NEW e, e \in EventsOf(c)'
               PROVE  Justified(c, e.transition)'
    BY DEF DecisionsStayJustified
  <2>1. \A d \in DOMAIN claimLifecycleEvents : \A k \in EventsOf(d) :
          d \in DOMAIN claims /\ Justified(d, k.transition)
    BY DEF DecisionsStayJustified, GapInv, ReferenceInv, ReferencesResolve
  <2>2. PICK t : t = e.transition
    OBVIOUS
  <2>3. c \in DOMAIN claims /\ Justified(c, t)
    <3>1. CASE c # claim
      BY <1>7, <2>1, <2>2, <3>1 DEF EventsOf
    <3>2. CASE c = claim
      <4>1. PICK i \in 1 .. Len(new) : e = new[i]
        BY <1>7, <3>2 DEF EventsOf
      <4>2. CASE i \in 1 .. Len(old)
        <5>1. e = old[i] /\ Len(old) > 0
          BY <1>6, <1>8, <4>1, <4>2
        <5>2. e \in EventsOf(claim) /\ claim \in DOMAIN claimLifecycleEvents
          BY <1>3, <4>2, <5>1 DEF EventsOf
        <5> QED
          BY <2>1, <2>2, <3>2, <5>2
      <4>3. CASE i = Len(old) + 1
        BY <1>4, <1>6, <2>2, <3>2, <4>1, <4>3
      <4> QED
        BY <1>6, <1>8, <4>1, <4>2, <4>3
    <3> QED
      BY <3>1, <3>2
  <2>4. Justified(c, t)'
    BY <2>3, JustificationStands
  <2> QED
    BY <2>2, <2>4
<1> QED
  BY <1>9, <1>10

\* The initial engine has decided nothing.
LEMMA InitHistory == ASSUME Init PROVE HistoryInv
<1>1. GapInv
  BY InitGaps
<1>2. claimLifecycleEvents = EmptyMap
  BY DEF Init
<1>3. DOMAIN claimLifecycleEvents = {}
  BY <1>2 DEF EmptyMap
<1> QED
  BY <1>1, <1>3 DEF HistoryInv, HistoryIsPathToStatus, DecisionsStayJustified

\* Only a transition appends an event or changes a claim that exists.
LEMMA OnlyTransitionsDecide ==
  ASSUME TypeOK, [Next]_vars, ~TransitionStep
  PROVE  UNCHANGED historyStores /\ \A c \in DOMAIN claims : claims'[c] = claims[c]
<1> DEFINE Undecided == UNCHANGED historyStores
                        /\ \A c \in DOMAIN claims : claims'[c] = claims[c]
<1>1. CrudStep => Undecided
  <2>1. ASSUME NEW subject, NEW rule, NEW base, NEW status,
               AddClaim(subject, rule, base, status)
        PROVE  Undecided
    <3>1. NewId("claim") \notin DOMAIN claims
      BY NewIdFresh DEF StorageForKind, Kinds
    <3> QED
      BY <2>1, <3>1 DEF AddClaim, Put
  <2> QED
    BY <2>1 DEF CrudStep, AddEntity, AddObservation, AddEvidence
<1>2. RelationStep => Undecided
  BY DEF RelationStep, AddRelation, crudStores
<1>3. RuleStep => Undecided
  BY DEF RuleStep, RegisterRule, UpdateRuleStats, crudStores
<1>4. GapStep => Undecided
  BY DEF GapStep, AddGap, ResolveGapsForEvidence, crudStores
<1>5. ContradictionStep => Undecided
  BY DEF ContradictionStep, RegisterContradiction,
     RegisterContradictionResolution, crudStores
<1>6. HintStep => Undecided
  BY DEF HintStep, RegisterHintEvidenceTypes, UnregisterHintEvidenceTypes,
     ClearHintEvidenceTypes, SetHintEvidenceTypes, crudStores
<1>7. UNCHANGED vars => Undecided
  BY DEF vars, crudStores
<1> QED
  BY <1>1, <1>2, <1>3, <1>4, <1>5, <1>6, <1>7 DEF Next

\* Every step keeps the invariant.
LEMMA HistoryInductive == HistoryInv /\ [Next]_vars => HistoryInv'
<1> SUFFICES ASSUME HistoryInv, [Next]_vars
             PROVE  HistoryInv'
  OBVIOUS
<1>1. /\ GapInv /\ GapInv'
      /\ TypeOK
      /\ RegisteredKept
  BY GapInductive, StepKeeps DEF HistoryInv, GapInv, ReferenceInv
<1>2. CASE TransitionStep
  BY <1>1, <1>2, TransitionStepIsJustified, TransitKeepsHistory
<1>3. CASE ~TransitionStep
  BY <1>1, <1>3, OnlyTransitionsDecide, OtherStepsKeepHistory
<1> QED
  BY <1>2, <1>3

\* However many transitions are taken, a claim's events lead by legal moves,
\* in increasing sequence numbers, to the status it has now.
THEOREM HistoryAlwaysExplainsStatus == Spec => []HistoryIsPathToStatus
<1>1. Init => HistoryInv
  BY InitHistory
<1>2. HistoryInv => HistoryIsPathToStatus
  BY DEF HistoryInv
<1> QED
  BY <1>1, <1>2, HistoryInductive, PTL DEF Spec

\* Whatever the engine decided can be justified from its stores ever after.
THEOREM DecisionsAlwaysJustified == Spec => []DecisionsStayJustified
<1>1. Init => HistoryInv
  BY InitHistory
<1>2. HistoryInv => DecisionsStayJustified
  BY DEF HistoryInv
<1> QED
  BY <1>1, <1>2, HistoryInductive, PTL DEF Spec

----------------------------------------------------------------------------
\* The one ledger.

\* No event bears a number that was not given out.
NumbersIssued ==
  \A c \in DOMAIN claimLifecycleEvents :
    \A e \in EventsOf(c) : e \in LifecycleEvent /\ e.seq <= lifecycleSeq

\* What the refinement of the ledger needs besides.
LedgerInv == HistoryInv /\ NumbersIssued

\* The ledger that the histories of all claims make up.
StatusOf == [c \in DOMAIN claims |-> claims[c].status]

Entries == [seq \in 1 .. lifecycleSeq |-> EntryAt(seq)]

\* Append in terms of functions on an initial segment of the numbers.
LEMMA AppendAsFunction ==
  ASSUME NEW n \in Nat, NEW s, s = [i \in 1 .. n |-> s[i]], NEW e
  PROVE  Append(s, e) = [i \in 1 .. n + 1 |-> IF i = n + 1 THEN e ELSE s[i]]
<1> DEFINE S == {s[i] : i \in 1 .. n} \cup {e}
<1>1. s \in [1 .. n -> S]
  OBVIOUS
<1>2. e \in S
  OBVIOUS
<1> HIDE DEF S
<1>3. s \in Seq(S) /\ Len(s) = n
  BY <1>1
<1> QED
  BY <1>1, <1>2, <1>3

\* What a transition does to the events of each claim.
LEMMA TransitAddsEvent ==
  ASSUME TypeOK, NEW claim, NEW to \in ClaimStatuses, NEW transition \in Transitions,
         claim \in DOMAIN claims, Transit(claim, to, transition)
  PROVE  LET event == [seq |-> lifecycleSeq + 1, from |-> claims[claim].status,
                       to |-> to, transition |-> transition]
             old   == IF claim \in DOMAIN claimLifecycleEvents
                      THEN EventsOf(claim) ELSE {}
         IN  /\ DOMAIN claimLifecycleEvents' = DOMAIN claimLifecycleEvents \cup {claim}
             /\ EventsOf(claim)' = old \cup {event}
             /\ \A c \in DOMAIN claimLifecycleEvents :
                  c # claim => EventsOf(c)' = EventsOf(c)
             /\ event \in LifecycleEvent
<1> DEFINE event == [seq |-> lifecycleSeq + 1, from |-> claims[claim].status,
                     to |-> to, transition |-> transition]
           old == ClaimLifecycleHistory(claim)
           new == Append(old, event)
<1>1. claimLifecycleEvents' = Put(claimLifecycleEvents, claim, new)
  BY DEF Transit, RecordClaimLifecycleTransition
<1>2. old \in Seq(LifecycleEvent) /\ lifecycleSeq \in Nat
  BY DEF ClaimLifecycleHistory, TypeOK, LifecycleTypes
<1>3. event \in LifecycleEvent
  BY <1>2 DEF LifecycleEvent, TypeOK, CrudTypes, ClaimRecord
<1> HIDE DEF event
<1>4. /\ Len(new) = Len(old) + 1 /\ Len(old) \in Nat
      /\ new[Len(old) + 1] = event
      /\ \A i \in 1 .. Len(old) : new[i] = old[i]
  BY <1>2
<1>5. {old[i] : i \in 1 .. Len(old)} =
        IF claim \in DOMAIN claimLifecycleEvents THEN EventsOf(claim) ELSE {}
  BY DEF ClaimLifecycleHistory, EventsOf
<1> HIDE DEF old, new
<1>6. {new[i] : i \in 1 .. Len(new)} = {old[i] : i \in 1 .. Len(old)} \cup {event}
  <2>1. 1 .. Len(new) = 1 .. Len(old) \cup {Len(old) + 1}
    BY <1>4
  <2> QED
    BY <1>4, <2>1
<1>7. /\ DOMAIN claimLifecycleEvents' = DOMAIN claimLifecycleEvents \cup {claim}
      /\ claimLifecycleEvents'[claim] = new
      /\ \A c \in DOMAIN claimLifecycleEvents : c # claim =>
           claimLifecycleEvents'[c] = claimLifecycleEvents[c]
  BY <1>1 DEF Put
<1>8. EventsOf(claim)' = {new[i] : i \in 1 .. Len(new)}
  BY <1>7 DEF EventsOf
<1>9. \A c \in DOMAIN claimLifecycleEvents : c # claim => EventsOf(c)' = EventsOf(c)
  BY <1>7 DEF EventsOf
<1> QED
  BY <1>3, <1>5, <1>6, <1>7, <1>8, <1>9 DEF event

\* A step that takes no transition leaves every entry as it is.
LEMMA NoTransitionNoEntry ==
  ASSUME NumbersIssued, UNCHANGED historyStores
  PROVE  NumbersIssued' /\ Entries' = Entries
<1>1. claimLifecycleEvents' = claimLifecycleEvents /\ lifecycleSeq' = lifecycleSeq
  BY DEF historyStores
<1>2. \A c : EventsOf(c)' = EventsOf(c)
  BY <1>1 DEF EventsOf
<1>3. NumbersIssued'
  BY <1>1, <1>2 DEF NumbersIssued
<1>4. \A seq : EntryAt(seq)' = EntryAt(seq)
  BY <1>1, <1>2 DEF EntryAt
<1> QED
  BY <1>1, <1>3, <1>4 DEF Entries

\* A transition appends one entry, with one move: its number is new, so no
\* event of another claim bears it, and no older entry gains a move.
LEMMA TransitAppendsEntry ==
  ASSUME TypeOK, NumbersIssued, NEW claim \in DOMAIN claims,
         NEW to \in ClaimStatuses, NEW transition \in Transitions,
         Transit(claim, to, transition)
  PROVE  /\ NumbersIssued'
         /\ Entries' = Append(Entries, {[claim |-> claim,
                                         from |-> claims[claim].status,
                                         to |-> to]})
<1> DEFINE event == [seq |-> lifecycleSeq + 1, from |-> claims[claim].status,
                     to |-> to, transition |-> transition]
           old == IF claim \in DOMAIN claimLifecycleEvents
                  THEN EventsOf(claim) ELSE {}
           move == [claim |-> claim, from |-> claims[claim].status, to |-> to]
           MoveOf(c, e) == [claim |-> c, from |-> e.from, to |-> e.to]
<1>1. /\ DOMAIN claimLifecycleEvents' = DOMAIN claimLifecycleEvents \cup {claim}
      /\ EventsOf(claim)' = old \cup {event}
      /\ \A c \in DOMAIN claimLifecycleEvents : c # claim => EventsOf(c)' = EventsOf(c)
      /\ event \in LifecycleEvent
  BY TransitAddsEvent
<1>2. lifecycleSeq \in Nat /\ lifecycleSeq' = lifecycleSeq + 1
  BY DEF Transit, RecordClaimLifecycleTransition, TypeOK, LifecycleTypes
<1>3. event.seq = lifecycleSeq + 1 /\ MoveOf(claim, event) = move
  OBVIOUS
<1> HIDE DEF event
<1>4. \A c \in DOMAIN claimLifecycleEvents : \A e \in EventsOf(c) :
        e \in LifecycleEvent /\ e.seq \in Nat /\ e.seq <= lifecycleSeq
  BY DEF NumbersIssued, LifecycleEvent
<1>5. \A c, e : (c \in DOMAIN claimLifecycleEvents' /\ e \in EventsOf(c)') <=>
        \/ c \in DOMAIN claimLifecycleEvents /\ e \in EventsOf(c)
        \/ c = claim /\ e = event
  BY <1>1
<1>6. NumbersIssued'
  <2> SUFFICES ASSUME NEW c, NEW e, c \in DOMAIN claimLifecycleEvents',
                      e \in EventsOf(c)'
               PROVE  e \in LifecycleEvent /\ e.seq <= lifecycleSeq'
    BY DEF NumbersIssued
  <2>1. CASE c \in DOMAIN claimLifecycleEvents /\ e \in EventsOf(c)
    BY <1>2, <1>4, <2>1
  <2>2. CASE e = event
    BY <1>1, <1>2, <1>3, <2>2
  <2> QED
    BY <1>5, <2>1, <2>2
<1>7. ASSUME NEW seq, NEW m
      PROVE  m \in EntryAt(seq) <=>
               \E c \in DOMAIN claimLifecycleEvents : \E e \in EventsOf(c) :
                 e.seq = seq /\ m = MoveOf(c, e)
  BY DEF EntryAt
<1>8. ASSUME NEW seq, NEW m
      PROVE  m \in EntryAt(seq)' <=>
               \E c \in DOMAIN claimLifecycleEvents' : \E e \in EventsOf(c)' :
                 e.seq = seq /\ m = MoveOf(c, e)
  BY DEF EntryAt
<1>9. ASSUME NEW seq \in 1 .. lifecycleSeq
      PROVE  EntryAt(seq)' = EntryAt(seq)
  <2>1. event.seq # seq
    BY <1>2, <1>3
  <2>2. ASSUME NEW m
        PROVE  m \in EntryAt(seq)' <=> m \in EntryAt(seq)
    BY <1>5, <1>7, <1>8, <2>1
  <2> QED
    BY <2>2 DEF EntryAt
<1>10. PICK last : last = lifecycleSeq + 1
  OBVIOUS
<1>11. EntryAt(last)' = {move}
  <2>1. \A c \in DOMAIN claimLifecycleEvents : \A e \in EventsOf(c) : e.seq # last
    BY <1>2, <1>4, <1>10
  <2>2. event.seq = last /\ claim \in DOMAIN claimLifecycleEvents'
    BY <1>1, <1>3, <1>10
  <2>3. ASSUME NEW m
        PROVE  m \in EntryAt(last)' <=> m = move
    <3>1. ASSUME m \in EntryAt(last)'
          PROVE  m = move
      <4>1. PICK c \in DOMAIN claimLifecycleEvents' : \E e \in EventsOf(c)' :
              e.seq = last /\ m = MoveOf(c, e)
        BY <1>8, <3>1
      <4>2. PICK e \in EventsOf(c)' : e.seq = last /\ m = MoveOf(c, e)
        BY <4>1
      <4>3. c = claim /\ e = event
        BY <1>5, <2>1, <4>1, <4>2
      <4> QED
        BY <1>3, <4>2, <4>3
    <3>2. move \in EntryAt(last)'
      <4>1. event \in EventsOf(claim)'
        BY <1>1
      <4>2. move = MoveOf(claim, event)
        BY <1>3
      <4> QED
        BY <1>8, <2>2, <4>1, <4>2
    <3> QED
      BY <3>1, <3>2
  <2> QED
    BY <2>3
<1>12. /\ lifecycleSeq' = last
       /\ \A seq \in 1 .. last : seq # last => seq \in 1 .. lifecycleSeq
       /\ last \in 1 .. last
  BY <1>2, <1>10
<1>13. Entries' = [seq \in 1 .. lifecycleSeq' |-> EntryAt(seq)']
  BY DEF Entries
<1>14. Entries' = [seq \in 1 .. last |->
                     IF seq = last THEN {move} ELSE Entries[seq]]
  <2>1. ASSUME NEW seq \in 1 .. last
        PROVE  EntryAt(seq)' = IF seq = last THEN {move} ELSE Entries[seq]
    BY <1>9, <1>11, <1>12 DEF Entries
  <2> QED
    BY <1>12, <1>13, <2>1
<1>15. Entries = [seq \in 1 .. lifecycleSeq |-> Entries[seq]]
  BY DEF Entries
<1> QED
  BY <1>2, <1>6, <1>10, <1>14, <1>15, AppendAsFunction

\* The new engine has the empty ledger.
LEMMA InitLedger == Init => LedgerInv /\ Ledger!Init
<1> SUFFICES ASSUME Init
             PROVE  LedgerInv /\ Ledger!Init
  OBVIOUS
<1>1. HistoryInv
  BY InitHistory
<1>2. DOMAIN claims = {} /\ DOMAIN claimLifecycleEvents = {} /\ lifecycleSeq = 0
  BY DEF Init, EmptyMap
<1>3. NumbersIssued
  BY <1>2 DEF NumbersIssued
<1>4. Ledger!Init
  <2>1. [c \in DOMAIN claims |-> claims[c].status] = [claim \in {} |-> claim]
    BY <1>2
  <2>2. 1 .. lifecycleSeq = {}
    BY <1>2
  <2>3. [seq \in 1 .. lifecycleSeq |-> EntryAt(seq)] = <<>>
    BY <2>2
  <2> QED
    BY <2>1, <2>3 DEF Ledger!Init
<1> QED
  BY <1>1, <1>3, <1>4 DEF LedgerInv

\* add_claim opens a claim that the ledger did not know.
LEMMA AddClaimOpens ==
  ASSUME TypeOK, NEW subject, NEW rule, NEW base, NEW status,
         AddClaim(subject, rule, base, status), Entries' = Entries
  PROVE  Ledger!Next
<1> DEFINE new == [subject |-> subject, rule |-> rule, base |-> base,
                   status |-> status]
           id == NewId("claim")
<1>1. claims' = Put(claims, id, new) /\ status \in ClaimStatuses
  BY DEF AddClaim
<1>2. id \notin DOMAIN claims
  BY NewIdFresh DEF AddClaim, StorageForKind, Kinds
<1>3. id \in Ids("claim")
  <2>1. nextId["claim"] \in Nat /\ Bound["claim"] \in Nat
    BY BoundAssumption DEF TypeOK, CounterTypes, Kinds
  <2>2. nextId["claim"] < Bound["claim"]
    BY DEF AddClaim, AllocateId
  <2> QED
    BY <2>1, <2>2 DEF NewId, Ids
<1>4. new.status = status
  OBVIOUS
<1> HIDE DEF new, id
<1>5. [c \in DOMAIN claims |-> claims[c].status]'
        = [c \in DOMAIN claims \cup {id} |->
             IF c = id THEN status
             ELSE [k \in DOMAIN claims |-> claims[k].status][c]]
  BY <1>1, <1>4 DEF Put
<1>6. Ledger!Open(id, status)
  BY <1>2, <1>5 DEF Ledger!Open, Entries
<1> QED
  BY <1>1, <1>3, <1>6 DEF Ledger!Next

\* A transition is a move of the ledger.
LEMMA TransitMoves ==
  ASSUME LedgerInv, NEW claim \in DOMAIN claims \cap Ids("claim"),
         NEW to \in ClaimStatuses, NEW transition \in Transitions,
         Transit(claim, to, transition),
         <<claims[claim].status, to>> \in LegalMoves
  PROVE  Ledger!Next /\ NumbersIssued'
<1>1. TypeOK /\ NumbersIssued
  BY DEF LedgerInv, HistoryInv, GapInv, ReferenceInv
<1>2. /\ NumbersIssued'
      /\ Entries' = Append(Entries, {[claim |-> claim,
                                      from |-> claims[claim].status, to |-> to]})
  BY <1>1, TransitAppendsEntry
<1>3. /\ DOMAIN claims' = DOMAIN claims
      /\ claims'[claim].status = to
      /\ \A c \in DOMAIN claims : c # claim => claims'[c] = claims[c]
  BY <1>1 DEF Transit, TypeOK, CrudTypes, ClaimRecord
<1> DEFINE status == [c \in DOMAIN claims |-> claims[c].status]
<1>4. status' = [status EXCEPT ![claim] = to]
  BY <1>3
<1>5. /\ claim \in DOMAIN status
      /\ status[claim] = claims[claim].status
  OBVIOUS
<1>6. Ledger!Move(claim, to)
  BY <1>2, <1>4, <1>5 DEF Ledger!Move, Entries
<1> QED
  BY <1>2, <1>6 DEF Ledger!Next

\* Every step of the engine is a step of the ledger or leaves it alone.
LEMMA StepRefinesLedger ==
  LedgerInv /\ [Next]_vars =>
    LedgerInv' /\ (Ledger!Next \/ (StatusOf' = StatusOf /\ Entries' = Entries))
<1> SUFFICES ASSUME LedgerInv, [Next]_vars
             PROVE  /\ NumbersIssued'
                    /\ Ledger!Next \/ (StatusOf' = StatusOf /\ Entries' = Entries)
  BY HistoryInductive DEF LedgerInv
<1>1. GapInv /\ TypeOK /\ NumbersIssued
  BY DEF LedgerInv, HistoryInv, GapInv, ReferenceInv
<1>2. CASE TransitionStep
  BY <1>1, <1>2, TransitionStepIsJustified, TransitMoves
<1>3. CASE ~TransitionStep
  <2>1. UNCHANGED historyStores /\ \A c \in DOMAIN claims : claims'[c] = claims[c]
    BY <1>1, <1>3, OnlyTransitionsDecide
  <2>2. NumbersIssued' /\ Entries' = Entries
    BY <1>1, <2>1, NoTransitionNoEntry
  <2>3. CASE \E subject, rule, base, status : AddClaim(subject, rule, base, status)
    BY <1>1, <2>2, <2>3, AddClaimOpens
  <2>4. CASE ~\E subject, rule, base, status : AddClaim(subject, rule, base, status)
    <3>1. UNCHANGED claims
      <4>1. CrudStep => UNCHANGED claims
        BY <2>4 DEF CrudStep, AddEntity, AddObservation, AddEvidence
      <4>2. RelationStep => UNCHANGED claims
        BY DEF RelationStep, AddRelation, crudStores
      <4>3. RuleStep => UNCHANGED claims
        BY DEF RuleStep, RegisterRule, UpdateRuleStats, crudStores
      <4>4. GapStep => UNCHANGED claims
        BY DEF GapStep, AddGap, ResolveGapsForEvidence, crudStores
      <4>5. ContradictionStep => UNCHANGED claims
        BY DEF ContradictionStep, RegisterContradiction,
           RegisterContradictionResolution, crudStores
      <4>6. HintStep => UNCHANGED claims
        BY DEF HintStep, RegisterHintEvidenceTypes, UnregisterHintEvidenceTypes,
           ClearHintEvidenceTypes, SetHintEvidenceTypes, crudStores
      <4> QED
        BY <1>3, <4>1, <4>2, <4>3, <4>4, <4>5, <4>6 DEF Next, vars, crudStores
    <3> QED
      BY <2>2, <3>1 DEF StatusOf
  <2> QED
    BY <2>2, <2>3, <2>4
<1> QED
  BY <1>2, <1>3

\* The engine implements the one ledger of status changes: its statuses and
\* the events of all claims, merged by number, change only as the ledger does.
THEOREM EngineImplementsClaimLedger == Spec => ImplementsClaimLedger
<1>1. LedgerInv /\ [Next]_vars =>
        LedgerInv' /\ [Ledger!Next]_<<[c \in DOMAIN claims |-> claims[c].status],
                                      [seq \in 1 .. lifecycleSeq |-> EntryAt(seq)]>>
  BY StepRefinesLedger DEF StatusOf, Entries
<1> QED
  BY <1>1, InitLedger, PTL DEF Spec, ImplementsClaimLedger, Ledger!Spec
=============================================================================
