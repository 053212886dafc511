------------------------------ MODULE Snapshot ------------------------------
(***************************************************************************)
(* Saving and restoring an Engine (cluster C10, ragcore/_engine/snapshot,  *)
(* with ragcore/_engine/serialization).  A caller holds one document: one  *)
(* the engine encoded, or one that came from elsewhere.  from_snapshot     *)
(* migrates it, checks it and makes a new engine of it under a lineage of  *)
(* its own; the caller goes on with that engine.                           *)
(*                                                                         *)
(* Lists, keys and nested fields of a document are taken to have their     *)
(* types: what _collect_id_set and _validate_identity_collection check.    *)
(***************************************************************************)
EXTENDS Engine

CONSTANTS
  ForeignDocuments,  \* documents this engine did not write
  OtherStatuses,     \* what they have in the place of a status
  MaxRestores,       \* how many restores are made
  Nothing            \* no document, no identity

CurrentSchema == 2

VARIABLES
  document,  \* what the caller holds
  savedAt    \* the identity read together with it

heldVars == <<document, savedAt>>

snapshotVars == <<vars, heldVars>>

StateView ==
  [nextId                |-> nextId,
   lifecycleSeq          |-> lifecycleSeq,
   entities              |-> entities,
   observations          |-> observations,
   claims                |-> claims,
   evidences             |-> evidences,
   relations             |-> relations,
   gaps                  |-> gaps,
   ruleDefinitions       |-> ruleDefinitions,
   ruleStats             |-> ruleStats,
   gapDedupIndex         |-> gapDedupIndex,
   claimGapRefs          |-> claimGapRefs,
   gapResolutions        |-> gapResolutions,
   contradictions        |-> contradictions,
   resolvedContradictions |-> resolvedContradictions,
   claimLifecycleEvents  |-> claimLifecycleEvents,
   hintEvidenceTypes     |-> hintEvidenceTypes]

EncodeSnapshot == [schema |-> CurrentSchema, state |-> StateView]

\* Version 1 knew no hint types.
Migrate(doc) ==
  IF doc.schema = 1
  THEN [schema |-> CurrentSchema,
        state |-> [doc.state EXCEPT !.hintEvidenceTypes = {}]]
  ELSE doc

----------------------------------------------------------------------------
\* Admission: what _validate_snapshot_restore_integrity checks of the state s
\* of a document, section by section of the contract.

AdmitEvidences(s) ==
  \A e \in DOMAIN s.evidences : s.evidences[e].claim \in DOMAIN s.claims

\* Faulty: takes any evidence for a contradiction.
AdmitContradictingClaims(s) ==
  \A pair \in s.contradictions : pair[1] \in DOMAIN s.claims

AdmitContradictions(s) ==
  \A pair \in s.contradictions :
    pair[1] \in DOMAIN s.claims /\ pair[2] \in DOMAIN s.evidences

AdmitGapRefs(s) ==
  \A ref \in s.claimGapRefs : ref[1] \in DOMAIN s.claims /\ ref[2] \in DOMAIN s.gaps

AdmitResolutions(s) ==
  \A g \in DOMAIN s.gapResolutions :
    g \in DOMAIN s.gaps /\ s.gapResolutions[g] \in DOMAIN s.evidences

\* Faulty: checks that the target is an id, not that the gap is there.
AdmitAnyDedupTarget(s) ==
  \A key \in DOMAIN s.gapDedupIndex : s.gapDedupIndex[key] \in Nat

AdmitDedupTargets(s) ==
  \A key \in DOMAIN s.gapDedupIndex : s.gapDedupIndex[key] \in DOMAIN s.gaps

AdmitResolvedContradictions(s) == s.resolvedContradictions \subseteq s.contradictions

RestoredIds(s) ==
  [entity |-> s.entities, observation |-> DOMAIN s.observations,
   claim |-> DOMAIN s.claims, evidence |-> DOMAIN s.evidences,
   relation |-> DOMAIN s.relations, gap |-> DOMAIN s.gaps]

\* Faulty: a counter one too low lets the next object take a stored id.
AdmitNearlyCounters(s) ==
  \A kind \in Kinds : \A id \in RestoredIds(s)[kind] : id <= s.nextId[kind] + 1

\* Faulty: an engine whose last object is still there cannot be restored.
AdmitStrictCounters(s) ==
  \A kind \in Kinds : \A id \in RestoredIds(s)[kind] : id < s.nextId[kind]

\* A counter that is missing counts as zero.
AdmitCounters(s) ==
  \A kind \in Kinds : \A id \in RestoredIds(s)[kind] : id <= s.nextId[kind]

\* The constructor of ScoreValue refuses what is out of its interval.
AdmitScores(s) ==
  /\ \A c \in DOMAIN s.claims : s.claims[c].base \in ScoreValue
  /\ \A e \in DOMAIN s.evidences : s.evidences[e].strength \in ScoreValue
  /\ \A g \in DOMAIN s.gaps : s.gaps[g].severity \in ScoreValue
  /\ \A rule \in DOMAIN s.ruleStats :
       /\ s.ruleStats[rule].precision \in ScoreValue \cup {NoScore}
       /\ s.ruleStats[rule].falsePositiveRate \in ScoreValue \cup {NoScore}

AdmitStatuses(s) == \A c \in DOMAIN s.claims : s.claims[c].status \in ClaimStatuses

Intact(s) ==
  /\ AdmitEvidences(s)
  /\ AdmitContradictions(s)
  /\ AdmitGapRefs(s)
  /\ AdmitResolutions(s)
  /\ AdmitDedupTargets(s)
  /\ AdmitResolvedContradictions(s)
  /\ AdmitCounters(s)
  /\ AdmitScores(s)
  /\ AdmitStatuses(s)

Admitted(doc) == doc.schema \in {1, CurrentSchema} /\ Intact(Migrate(doc).state)

----------------------------------------------------------------------------
\* The types of the fields of a document: nothing here relates two fields.

MapTo(values, map) == map \in [DOMAIN map -> values]

AnyStatus == ClaimStatuses \cup OtherStatuses

OptionalNumber == Int \cup {NoScore}

Shaped(s) ==
  /\ s.nextId \in [Kinds -> Nat]
  /\ s.lifecycleSeq \in Nat
  /\ \A kind \in Kinds : RestoredIds(s)[kind] \subseteq Nat \ {0}
  /\ MapTo(Nat, s.observations)
  /\ MapTo([subject : Nat, rule : RuleKeys, base : Int, status : AnyStatus], s.claims)
  /\ MapTo([claim : Nat, type : EvidenceTypes, strength : Int], s.evidences)
  /\ MapTo([from : Reference, to : Reference], s.relations)
  /\ MapTo([claim : Nat, type : GapTypes, required : EvidenceTypes,
            severity : Int, rule : RuleIds], s.gaps)
  /\ DOMAIN s.ruleDefinitions \subseteq RuleKeys
  /\ MapTo(RuleMaturities, s.ruleDefinitions)
  /\ DOMAIN s.ruleStats \subseteq RuleKeys
  /\ MapTo([firing : Int, confirmedTrue : Int, confirmedFalse : Int,
            precision : OptionalNumber, falsePositiveRate : OptionalNumber],
           s.ruleStats)
  /\ DOMAIN s.gapDedupIndex \subseteq Nat \X RuleIds \X GapTypes \X EvidenceTypes
  /\ MapTo(Nat, s.gapDedupIndex)
  /\ s.claimGapRefs \subseteq Nat \X Nat
  /\ MapTo(Nat, s.gapResolutions)
  /\ s.contradictions \subseteq Nat \X Nat
  /\ s.resolvedContradictions \subseteq Nat \X Nat
  /\ MapTo(Seq(LifecycleEvent), s.claimLifecycleEvents)
  /\ s.hintEvidenceTypes \subseteq EvidenceTypes

ASSUME DocumentAssumption ==
  /\ MaxRestores \in Nat
  /\ Nothing \notin [token : Nat, revision : Nat]
  /\ \A doc \in ForeignDocuments : doc # Nothing /\ Shaped(doc.state)

----------------------------------------------------------------------------
\* Operations.

ToSnapshot ==
  /\ document' = EncodeSnapshot
  /\ savedAt' = StateIdentity
  /\ UNCHANGED vars

\* A document is of interest while it may still be restored.
Receive(doc) ==
  /\ stateToken < MaxRestores
  /\ document' = doc
  /\ savedAt' = Nothing
  /\ UNCHANGED vars

\* Faulty: starts the history over, and numbers its events from 1 again.
InstallSeqFromZero(s) == lifecycleSeq' = 0 /\ claimLifecycleEvents' = s.claimLifecycleEvents

InstallHistory(s) ==
  lifecycleSeq' = s.lifecycleSeq /\ claimLifecycleEvents' = s.claimLifecycleEvents

\* Faulty: leaves the index to fill itself again.
InstallGapsUnindexed(s) ==
  /\ gaps' = s.gaps
  /\ gapDedupIndex' = EmptyMap
  /\ claimGapRefs' = s.claimGapRefs
  /\ gapResolutions' = s.gapResolutions

InstallGaps(s) ==
  /\ gaps' = s.gaps
  /\ gapDedupIndex' = s.gapDedupIndex
  /\ claimGapRefs' = s.claimGapRefs
  /\ gapResolutions' = s.gapResolutions

Install(s) ==
  /\ nextId' = s.nextId
  /\ entities' = s.entities
  /\ observations' = s.observations
  /\ claims' = s.claims
  /\ evidences' = s.evidences
  /\ relations' = s.relations
  /\ InstallGaps(s)
  /\ ruleDefinitions' = s.ruleDefinitions
  /\ ruleStats' = s.ruleStats
  /\ contradictions' = s.contradictions
  /\ resolvedContradictions' = s.resolvedContradictions
  /\ InstallHistory(s)
  /\ hintEvidenceTypes' = s.hintEvidenceTypes

\* Faulty: goes on under the lineage it had.
SameLineage == stateToken' = stateToken /\ stateRevision' = 0

\* __init__ draws a token no engine had before.
FreshLineage == stateToken' = stateToken + 1 /\ stateRevision' = 0

FromSnapshot ==
  /\ document # Nothing
  /\ Admitted(document)
  /\ stateToken < MaxRestores
  /\ Install(Migrate(document).state)
  /\ FreshLineage
  /\ UNCHANGED heldVars

SnapshotInit == Init /\ document = Nothing /\ savedAt = Nothing

SnapshotNext ==
  \/ ToSnapshot
  \/ \E doc \in ForeignDocuments : Receive(doc)
  \/ FromSnapshot
  \/ Next /\ UNCHANGED heldVars

SnapshotSpec == SnapshotInit /\ [][SnapshotNext]_snapshotVars
=============================================================================
