---------------------------- MODULE EngineState ----------------------------
(***************************************************************************)
(* The state of one ragcore Engine and the private seams every operation   *)
(* goes through (cluster C1 of ragcore/engine.py).  The operations are in  *)
(* Crud, Relations, Rules, Gaps, Lifecycle and HintEvidence, one module    *)
(* per mixin of ragcore/_engine; module Engine composes them.              *)
(*                                                                         *)
(* A Python dict is a function whose domain is the set of its keys.  A     *)
(* dict of sets, whose missing key reads as the empty set, is a set of     *)
(* pairs.  A call that raises or returns early leaves the Engine as it     *)
(* was: it is a step the action does not take.                             *)
(***************************************************************************)
EXTENDS Integers, Sequences, FiniteSets

CONSTANTS
  RuleIds, RuleVersions,  \* the rule identities callers use
  RulesRegistered,        \* the pairs callers register
  Maturities,             \* and the maturities they register them with
  GapTypes,               \* caller-domain integers, opaque to the engine
  EvidenceTypes,
  HintTypes,              \* the evidence types callers call hints
  Strengths,              \* the numbers callers pass as a strength, in tenths
  Scores,                 \* and as any other score
  CreationStatuses,       \* the statuses callers pass to add_claim
  StatDeltas,             \* the deltas callers pass to update_rule_stats
  NoScore,                \* Python's None where a ScoreValue is optional
  Bound,                  \* how many objects of each kind are created
  MaxContradictions,      \* how many contradictions are registered
  MaxLifecycleSeq,        \* how many status transitions are taken
  MaxRevision             \* how many state changes are made

Kinds == {"entity", "observation", "claim", "evidence", "relation", "gap"}

ClaimStatuses == {"candidate", "confirmed", "refuted", "disputed"}

\* ScoreValue admits the interval [0, 1]; the unit here is a tenth.
ScoreValue == 0 .. 10

RuleKeys == RuleIds \X RuleVersions

RuleMaturities == {"experimental", "stable", "deprecated"}

ASSUME BoundAssumption ==
  /\ Bound \in [Kinds -> Nat]
  /\ MaxContradictions \in Nat
  /\ MaxLifecycleSeq \in Nat
  /\ MaxRevision \in Nat

ASSUME InputAssumption ==
  /\ NoScore \notin ScoreValue
  /\ StatDeltas \subseteq Int
  /\ RulesRegistered \subseteq RuleKeys
  /\ Maturities \subseteq RuleMaturities
  /\ HintTypes \subseteq EvidenceTypes

VARIABLES
  nextId,
  entities, observations, claims, evidences, relations, gaps,
  ruleDefinitions, ruleStats,
  gapDedupIndex, claimGapRefs, gapResolutions,
  contradictions, resolvedContradictions,
  lifecycleSeq, claimLifecycleEvents,
  hintEvidenceTypes,
  stateToken, stateRevision

crudStores    == <<entities, observations, claims, evidences>>
gapStores     == <<gaps, gapDedupIndex, claimGapRefs, gapResolutions>>
ruleStores    == <<ruleDefinitions, ruleStats>>
contraStores  == <<contradictions, resolvedContradictions>>
historyStores == <<lifecycleSeq, claimLifecycleEvents>>

vars == <<nextId, crudStores, relations, gapStores, ruleStores, contraStores,
          historyStores, hintEvidenceTypes, stateToken, stateRevision>>

\* What a snapshot would hold: everything but the identity.
logicalState == <<nextId, crudStores, relations, gapStores, ruleStores,
                  contraStores, historyStores, hintEvidenceTypes>>

EmptyMap == [x \in {} |-> x]

Put(map, key, value) ==
  [x \in DOMAIN map \cup {key} |-> IF x = key THEN value ELSE map[x]]

Init ==
  /\ nextId = [kind \in Kinds |-> 0]
  /\ entities = {}
  /\ observations = EmptyMap
  /\ claims = EmptyMap
  /\ evidences = EmptyMap
  /\ relations = EmptyMap
  /\ gaps = EmptyMap
  /\ ruleDefinitions = EmptyMap
  /\ ruleStats = EmptyMap
  /\ gapDedupIndex = EmptyMap
  /\ claimGapRefs = {}
  /\ gapResolutions = EmptyMap
  /\ contradictions = {}
  /\ resolvedContradictions = {}
  /\ lifecycleSeq = 0
  /\ claimLifecycleEvents = EmptyMap
  /\ hintEvidenceTypes = {}
  /\ stateToken = 0
  /\ stateRevision = 0

----------------------------------------------------------------------------
\* The C1 seams.

NewId(kind) == nextId[kind] + 1

\* Faulty: hands out an id and forgets to store the counter.
AllocateIdUnstored(kind) == nextId[kind] < Bound[kind] /\ UNCHANGED nextId

AllocateId(kind) ==
  /\ nextId[kind] < Bound[kind]
  /\ nextId' = [nextId EXCEPT ![kind] = NewId(kind)]

AdvanceStateRevision ==
  /\ stateRevision < MaxRevision
  /\ stateRevision' = stateRevision + 1

StateIdentity == [token |-> stateToken, revision |-> stateRevision]

\* Faulty: looks an id up without regard to its kind.
StorageOfAnyKind(kind) ==
  entities \cup DOMAIN observations \cup DOMAIN claims \cup DOMAIN evidences

StorageForKind(kind) ==
  CASE kind = "entity"      -> entities
    [] kind = "observation" -> DOMAIN observations
    [] kind = "claim"       -> DOMAIN claims
    [] kind = "evidence"    -> DOMAIN evidences
    [] kind = "relation"    -> DOMAIN relations
    [] kind = "gap"         -> DOMAIN gaps
=============================================================================
