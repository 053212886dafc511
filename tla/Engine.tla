------------------------------- MODULE Engine -------------------------------
(***************************************************************************)
(* One ragcore Engine: the class of ragcore/engine.py with its mixins, as  *)
(* the twenty public methods that change its state.  The caller may make   *)
(* any call at any time, with any of the inputs the constants offer.       *)
(***************************************************************************)
EXTENDS Crud, Relations, Rules, Lifecycle, HintEvidence

Ids(kind) == 1 .. Bound[kind]

\* An optional score argument of update_rule_stats.
OptionalScores == (Scores \cap ScoreValue) \cup {NoScore}

CrudStep ==
  \/ AddEntity
  \/ \E entity \in Ids("entity") : AddObservation(entity)
  \/ \E subject \in Ids("entity"), rule \in RuleKeys, base \in Scores,
        status \in CreationStatuses : AddClaim(subject, rule, base, status)
  \/ \E claim \in Ids("claim"), type \in EvidenceTypes, strength \in Strengths :
        AddEvidence(claim, type, strength)

RelationStep ==
  \E from, to \in [kind : Kinds, id : UNION {Ids(kind) : kind \in Kinds}] :
    AddRelation(from, to)

RuleStep ==
  \/ \E rule \in RulesRegistered, maturity \in Maturities :
        RegisterRule(rule, maturity)
  \/ \E rule \in RuleKeys, fired, true, false \in StatDeltas,
        precision, rate \in OptionalScores :
        UpdateRuleStats(rule, fired, true, false, precision, rate)

GapStep ==
  \/ \E claim \in Ids("claim"), type \in GapTypes, required \in EvidenceTypes,
        severity \in Scores, rule \in RuleIds :
        AddGap(claim, type, required, severity, rule)
  \/ \E evidence \in Ids("evidence") : ResolveGapsForEvidence(evidence)

ContradictionStep ==
  \E claim \in Ids("claim"), evidence \in Ids("evidence") :
    \/ RegisterContradiction(claim, evidence)
    \/ RegisterContradictionResolution(claim, evidence)

TransitionStep ==
  \E claim \in Ids("claim") :
    \/ ConfirmClaimIfReady(claim)
    \/ RefuteClaimIfReady(claim)
    \/ DisputeClaimIfReady(claim)
    \/ ResolveDisputedClaimIfReady(claim)
    \/ RefuteDisputedClaimIfReady(claim)
    \/ RefuteDisputedClaimIfReadyByFreshness(claim)

HintStep ==
  \/ \E types \in SUBSET HintTypes : RegisterHintEvidenceTypes(types)
  \/ \E types \in SUBSET HintTypes : UnregisterHintEvidenceTypes(types)
  \/ ClearHintEvidenceTypes

Next ==
  \/ CrudStep
  \/ RelationStep
  \/ RuleStep
  \/ GapStep
  \/ ContradictionStep
  \/ TransitionStep
  \/ HintStep

Spec == Init /\ [][Next]_vars

----------------------------------------------------------------------------
\* Types.

ClaimRecord == [subject : Nat, rule : RuleKeys, base : ScoreValue,
                status : ClaimStatuses]

EvidenceRecord == [claim : Nat, type : EvidenceTypes, strength : ScoreValue]

GapRecord == [claim : Nat, type : GapTypes, required : EvidenceTypes,
              severity : ScoreValue, rule : RuleIds]

RuleStatsRecord == [firing : Int, confirmedTrue : Int, confirmedFalse : Int,
                    precision : ScoreValue \cup {NoScore},
                    falsePositiveRate : ScoreValue \cup {NoScore}]

Transitions == {"confirm_if_ready", "refute_if_ready", "dispute_if_ready",
                "resolve_disputed_if_ready", "refute_disputed_if_ready",
                "refute_disputed_by_freshness_if_ready"}

LifecycleEvent == [seq : Nat, from : ClaimStatuses, to : ClaimStatuses,
                   transition : Transitions]

CounterTypes ==
  /\ nextId \in [Kinds -> Nat]
  /\ stateToken \in Nat
  /\ stateRevision \in Nat

CrudTypes ==
  /\ observations \in [DOMAIN observations -> Nat]
  /\ claims \in [DOMAIN claims -> ClaimRecord]
  /\ evidences \in [DOMAIN evidences -> EvidenceRecord]
  /\ relations \in [DOMAIN relations -> [from : Reference, to : Reference]]

RuleTypes ==
  /\ DOMAIN ruleDefinitions \subseteq RuleKeys
  /\ ruleDefinitions \in [DOMAIN ruleDefinitions -> RuleMaturities]
  /\ DOMAIN ruleStats \subseteq RuleKeys
  /\ ruleStats \in [DOMAIN ruleStats -> RuleStatsRecord]
  /\ hintEvidenceTypes \subseteq EvidenceTypes

GapStoreTypes ==
  /\ gaps \in [DOMAIN gaps -> GapRecord]
  /\ DOMAIN gapDedupIndex \subseteq Nat \X RuleIds \X GapTypes \X EvidenceTypes
  /\ gapDedupIndex \in [DOMAIN gapDedupIndex -> Nat]
  /\ claimGapRefs \subseteq Nat \X Nat
  /\ gapResolutions \in [DOMAIN gapResolutions -> Nat]

LifecycleTypes ==
  /\ contradictions \subseteq Nat \X Nat
  /\ resolvedContradictions \subseteq Nat \X Nat
  /\ lifecycleSeq \in Nat
  /\ claimLifecycleEvents \in
       [DOMAIN claimLifecycleEvents -> Seq(LifecycleEvent)]

\* Ids are positive and come from the counter of their kind.
IdsIssued ==
  \A kind \in Kinds : StorageForKind(kind) \subseteq 1 .. nextId[kind]

\* Every store holds records of its own shape under ids the engine issued:
\* what the annotations of Engine.__init__ declare, and _allocate_id keeps.
TypeOK ==
  /\ CounterTypes
  /\ CrudTypes
  /\ RuleTypes
  /\ GapStoreTypes
  /\ LifecycleTypes
  /\ IdsIssued
=============================================================================
