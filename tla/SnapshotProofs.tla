--------------------------- MODULE SnapshotProofs ---------------------------
(***************************************************************************)
(* An engine that is saved and restored, from documents of any origin.     *)
(* What the code checks on restore is exactly what the operations keep, so *)
(* it holds ever after; and an identity names one state.                   *)
(***************************************************************************)
EXTENDS SnapshotProperties, EngineProofs

\* What is known of an identity that was read at an earlier moment.
SavedIdentityIsPast ==
  savedAt # Nothing =>
    /\ savedAt \in [token : Nat, revision : Nat]
    /\ savedAt.token <= stateToken
    /\ savedAt.token = stateToken =>
         /\ savedAt.revision <= stateRevision
         /\ savedAt.revision = stateRevision => document.state = StateView

\* The caller holds a document of the right types.
DocumentShaped == document # Nothing => Shaped(document.state)

\* The inductive invariant of saving and restoring.
SnapshotInv ==
  TypeOK /\ Intact(StateView) /\ DocumentShaped /\ SavedIdentityIsPast

\* Migration fills in one field.
LEMMA MigrateKeepsShape ==
  ASSUME NEW doc, Shaped(doc.state)
  PROVE  Shaped(Migrate(doc).state)
<1>1. CASE doc.schema = 1
  <2> DEFINE s == doc.state
             t == [s EXCEPT !.hintEvidenceTypes = {}]
  <2>1. Migrate(doc).state = t
    BY <1>1 DEF Migrate
  <2> QED
    BY <2>1 DEF Shaped, RestoredIds, MapTo
<1>2. CASE doc.schema # 1
  BY <1>2 DEF Migrate
<1> QED
  BY <1>1, <1>2

\* The types of a document and the checks on it give the types of an engine.
LEMMA ShapedIntactIsTyped ==
  ASSUME NEW s, Shaped(s), Intact(s), Install(s), FreshLineage, TypeOK
  PROVE  TypeOK'
<1> USE DEF Shaped, Intact, Install, MapTo
<1>1. CounterTypes'
  BY DEF CounterTypes, FreshLineage, TypeOK
<1>2. CrudTypes'
  <2>1. claims' \in [DOMAIN claims' -> ClaimRecord]
    BY DEF AdmitScores, AdmitStatuses, ClaimRecord
  <2>2. evidences' \in [DOMAIN evidences' -> EvidenceRecord]
    BY DEF AdmitScores, EvidenceRecord
  <2> QED
    BY <2>1, <2>2 DEF CrudTypes
<1>3. RuleTypes'
  <2>1. ruleStats' \in [DOMAIN ruleStats' -> RuleStatsRecord]
    BY DEF AdmitScores, RuleStatsRecord, OptionalNumber
  <2> QED
    BY <2>1 DEF RuleTypes
<1>4. GapStoreTypes'
  <2>1. gaps' \in [DOMAIN gaps' -> GapRecord]
    BY DEF AdmitScores, GapRecord, InstallGaps
  <2> QED
    BY <2>1 DEF GapStoreTypes, InstallGaps
<1>5. LifecycleTypes'
  BY DEF LifecycleTypes, InstallHistory
<1>6. IdsIssued'
  <2> SUFFICES ASSUME NEW kind \in Kinds
               PROVE  StorageForKind(kind)' \subseteq 1 .. nextId'[kind]
    BY DEF IdsIssued
  <2>1. RestoredIds(s)[kind] \subseteq 1 .. s.nextId[kind]
    BY DEF AdmitCounters
  <2>2. StorageForKind(kind)' = RestoredIds(s)[kind]
    BY DEF StorageForKind, RestoredIds, InstallGaps, Kinds
  <2> QED
    BY <2>1, <2>2
<1> QED
  BY <1>1, <1>2, <1>3, <1>4, <1>5, <1>6 DEF TypeOK

\* Installing a state makes it the state of the engine.
LEMMA InstallIsExact ==
  ASSUME NEW s, Intact(s), Install(s)
  PROVE  Intact(StateView)'
  BY DEF Install, InstallGaps, InstallHistory, StateView, Intact, AdmitEvidences,
     AdmitContradictions, AdmitGapRefs, AdmitResolutions, AdmitDedupTargets,
     AdmitResolvedContradictions, AdmitCounters, RestoredIds, AdmitScores,
     AdmitStatuses

----------------------------------------------------------------------------
\* The operations of the engine keep what admission checks.

LEMMA ReferencesStayIntact ==
  ASSUME TypeOK, TypeOK', Intact(StateView), RegisteredKept, AddedReferencesResolve
  PROVE  /\ AdmitEvidences(StateView)'
         /\ AdmitContradictions(StateView)'
         /\ AdmitGapRefs(StateView)'
         /\ AdmitResolutions(StateView)'
         /\ AdmitDedupTargets(StateView)'
<1> USE DEF Intact, StateView, RegisteredKept, Kept, AddedReferencesResolve, Added
<1>1. AdmitEvidences(StateView)'
  BY DEF AdmitEvidences
<1>2. AdmitContradictions(StateView)'
  BY DEF AdmitContradictions
<1>3. AdmitGapRefs(StateView)'
  BY DEF AdmitGapRefs
<1>4. AdmitResolutions(StateView)'
  BY DEF AdmitResolutions
<1>5. AdmitDedupTargets(StateView)'
  BY DEF AdmitDedupTargets
<1> QED
  BY <1>1, <1>2, <1>3, <1>4, <1>5

\* Counters, scores and statuses are part of the types.
LEMMA TypesAreAdmitted ==
  ASSUME TypeOK
  PROVE  /\ AdmitCounters(StateView)
         /\ AdmitScores(StateView)
         /\ AdmitStatuses(StateView)
<1>1. AdmitCounters(StateView)
  <2> SUFFICES ASSUME NEW kind \in Kinds, NEW id \in RestoredIds(StateView)[kind]
               PROVE  id <= nextId[kind]
    BY DEF AdmitCounters, StateView
  <2>1. StorageForKind(kind) \subseteq 1 .. nextId[kind] /\ nextId[kind] \in Nat
    BY DEF TypeOK, IdsIssued, CounterTypes
  <2>2. RestoredIds(StateView)[kind] = StorageForKind(kind)
    BY DEF RestoredIds, StateView, StorageForKind, Kinds
  <2> QED
    BY <2>1, <2>2
<1>2. AdmitScores(StateView)
  BY DEF AdmitScores, StateView, TypeOK, CrudTypes, RuleTypes, GapStoreTypes,
     ClaimRecord, EvidenceRecord, GapRecord, RuleStatsRecord
<1>3. AdmitStatuses(StateView)
  BY DEF AdmitStatuses, StateView, TypeOK, CrudTypes, ClaimRecord
<1> QED
  BY <1>1, <1>2, <1>3

\* So a state that would be admitted leads to states that would be.
LEMMA StepKeepsIntact ==
  ASSUME TypeOK, Intact(StateView), [Next]_vars
  PROVE  Intact(StateView)'
<1>1. TypeOK' /\ RegisteredKept
  BY TypeInductive, StepKeeps
<1>2. Sound
  BY DEF Sound, IndexTargetsExist, Intact, AdmitDedupTargets, StateView
<1>3. AddedReferencesResolve
  BY <1>2, StepAdds
<1>4. /\ AdmitEvidences(StateView)'
      /\ AdmitContradictions(StateView)'
      /\ AdmitGapRefs(StateView)'
      /\ AdmitResolutions(StateView)'
      /\ AdmitDedupTargets(StateView)'
  BY <1>1, <1>3, ReferencesStayIntact
<1>5. ResolvedWereContradictions
  BY DEF Intact, AdmitResolvedContradictions, ResolvedWereContradictions, StateView
<1>6. AdmitResolvedContradictions(StateView)'
  BY <1>5, ResolvedStayContradictions
     DEF AdmitResolvedContradictions, ResolvedWereContradictions, StateView
<1>7. (/\ AdmitCounters(StateView)
       /\ AdmitScores(StateView)
       /\ AdmitStatuses(StateView))'
  BY <1>1, TypesAreAdmitted, PTL
<1> QED
  BY <1>4, <1>6, <1>7 DEF Intact

----------------------------------------------------------------------------
LEMMA ViewUnchanged == UNCHANGED vars => UNCHANGED StateView
  BY DEF vars, StateView, crudStores, gapStores, ruleStores, contraStores,
     historyStores

\* A document the engine encodes has the shape the engine's types give it.
LEMMA OwnSnapshotShaped == ASSUME TypeOK PROVE Shaped(StateView)
<1>1. \A kind \in Kinds : RestoredIds(StateView)[kind] \subseteq Nat \ {0}
  <2> SUFFICES ASSUME NEW kind \in Kinds
               PROVE  RestoredIds(StateView)[kind] \subseteq Nat \ {0}
    OBVIOUS
  <2>1. StorageForKind(kind) \subseteq 1 .. nextId[kind] /\ nextId[kind] \in Nat
    BY DEF TypeOK, IdsIssued, CounterTypes
  <2>2. RestoredIds(StateView)[kind] = StorageForKind(kind)
    BY DEF RestoredIds, StateView, StorageForKind, Kinds
  <2> QED
    BY <2>1, <2>2
<1>2. MapTo([subject : Nat, rule : RuleKeys, base : Int, status : AnyStatus], claims)
  BY DEF MapTo, TypeOK, CrudTypes, ClaimRecord, AnyStatus, ScoreValue
<1>3. MapTo([claim : Nat, type : EvidenceTypes, strength : Int], evidences)
  BY DEF MapTo, TypeOK, CrudTypes, EvidenceRecord, ScoreValue
<1>4. MapTo([claim : Nat, type : GapTypes, required : EvidenceTypes,
             severity : Int, rule : RuleIds], gaps)
  BY DEF MapTo, TypeOK, GapStoreTypes, GapRecord, ScoreValue
<1>5. MapTo([firing : Int, confirmedTrue : Int, confirmedFalse : Int,
             precision : OptionalNumber, falsePositiveRate : OptionalNumber],
            ruleStats)
  BY DEF MapTo, TypeOK, RuleTypes, RuleStatsRecord, ScoreValue, OptionalNumber
<1> QED
  BY <1>1, <1>2, <1>3, <1>4, <1>5 DEF Shaped, StateView, MapTo, TypeOK,
     CounterTypes, CrudTypes, RuleTypes, GapStoreTypes, LifecycleTypes

LEMMA EngineStepKeeps ==
  ASSUME SnapshotInv, Next, UNCHANGED heldVars
  PROVE  SnapshotInv'
<1> USE DEF SnapshotInv
<1>1. TypeOK' /\ Intact(StateView)'
  BY TypeInductive, StepKeepsIntact
<1>2. DocumentShaped'
  BY DEF DocumentShaped, heldVars
<1>3. stateRevision \in Nat
  BY DEF TypeOK, CounterTypes
<1>4. SavedIdentityIsPast'
  BY <1>3, StepMovesRevision DEF SavedIdentityIsPast, heldVars
<1> QED
  BY <1>1, <1>2, <1>4

LEMMA ToSnapshotKeeps ==
  ASSUME SnapshotInv, ToSnapshot
  PROVE  SnapshotInv'
<1> USE DEF SnapshotInv
<1>1. UNCHANGED vars /\ UNCHANGED StateView
  BY ViewUnchanged DEF ToSnapshot
<1>2. TypeOK' /\ Intact(StateView)'
  BY <1>1, TypeInductive, StepKeepsIntact
<1>3. document'.state = StateView /\ savedAt' = StateIdentity
  BY DEF ToSnapshot, EncodeSnapshot
<1>4. DocumentShaped'
  BY <1>3, OwnSnapshotShaped DEF DocumentShaped
<1>5. SavedIdentityIsPast'
  BY <1>1, <1>3 DEF SavedIdentityIsPast, StateIdentity, vars, TypeOK, CounterTypes
<1> QED
  BY <1>2, <1>4, <1>5

LEMMA ReceiveKeeps ==
  ASSUME SnapshotInv, NEW doc \in ForeignDocuments, Receive(doc)
  PROVE  SnapshotInv'
<1> USE DEF SnapshotInv
<1>1. TypeOK' /\ Intact(StateView)'
  BY TypeInductive, StepKeepsIntact DEF Receive
<1>2. DocumentShaped' /\ SavedIdentityIsPast'
  BY DocumentAssumption DEF Receive, DocumentShaped, SavedIdentityIsPast
<1> QED
  BY <1>1, <1>2

LEMMA FromSnapshotKeeps ==
  ASSUME SnapshotInv, FromSnapshot
  PROVE  SnapshotInv'
<1> USE DEF SnapshotInv
<1>1. PICK s : s = Migrate(document).state
  OBVIOUS
<1>2. Shaped(s) /\ Intact(s) /\ Install(s) /\ FreshLineage
  BY <1>1, MigrateKeepsShape DEF FromSnapshot, Admitted, DocumentShaped
<1>3. TypeOK'
  BY <1>2, ShapedIntactIsTyped
<1>4. Intact(StateView)'
  BY <1>2, InstallIsExact
<1>5. DocumentShaped'
  BY DEF FromSnapshot, DocumentShaped, heldVars
<1>6. SavedIdentityIsPast'
  BY DEF FromSnapshot, FreshLineage, SavedIdentityIsPast, heldVars, TypeOK,
     CounterTypes
<1> QED
  BY <1>3, <1>4, <1>5, <1>6

LEMMA SnapshotInductive == SnapshotInv /\ [SnapshotNext]_snapshotVars => SnapshotInv'
<1> SUFFICES ASSUME SnapshotInv, [SnapshotNext]_snapshotVars
             PROVE  SnapshotInv'
  OBVIOUS
<1>1. CASE UNCHANGED snapshotVars
  <2>1. UNCHANGED vars /\ UNCHANGED StateView /\ UNCHANGED heldVars
    BY <1>1, ViewUnchanged DEF snapshotVars
  <2>2. TypeOK' /\ Intact(StateView)'
    BY <2>1, TypeInductive, StepKeepsIntact DEF SnapshotInv
  <2> QED
    BY <2>1, <2>2 DEF SnapshotInv, DocumentShaped, SavedIdentityIsPast, heldVars, vars
<1>2. CASE SnapshotNext
  BY <1>2, EngineStepKeeps, ToSnapshotKeeps, ReceiveKeeps, FromSnapshotKeeps
     DEF SnapshotNext
<1> QED
  BY <1>1, <1>2

LEMMA InitSnapshot == ASSUME SnapshotInit PROVE SnapshotInv
<1>1. TypeOK
  BY InitTypes DEF SnapshotInit
<1>2. DocumentShaped /\ SavedIdentityIsPast
  BY DEF SnapshotInit, DocumentShaped, SavedIdentityIsPast
<1>3. Intact(StateView)
  BY <1>1, TypesAreAdmitted DEF SnapshotInit, Init, EmptyMap, StateView, Intact,
     AdmitEvidences, AdmitContradictions, AdmitGapRefs, AdmitResolutions,
     AdmitDedupTargets, AdmitResolvedContradictions
<1> QED
  BY <1>1, <1>2, <1>3 DEF SnapshotInv

\* Any state the engine reaches, after any number of restores from documents
\* of any origin, passes the admission of its own from_snapshot.
THEOREM EngineAlwaysRestorable == SnapshotSpec => []AlwaysRestorable
<1>1. SnapshotInit => SnapshotInv
  BY InitSnapshot
<1>2. SnapshotInv => AlwaysRestorable
  BY DEF SnapshotInv, AlwaysRestorable
<1> QED
  BY <1>1, <1>2, SnapshotInductive, PTL DEF SnapshotSpec

\* No unguarded lookup of the engine misses, whatever was restored.
THEOREM LookupsAlwaysResolve == SnapshotSpec => []LookupsResolve
<1>1. SnapshotInit => SnapshotInv
  BY InitSnapshot
<1>2. SnapshotInv => LookupsResolve
  BY DEF SnapshotInv, LookupsResolve, Intact, StateView, AdmitEvidences,
     AdmitGapRefs, AdmitDedupTargets, AdmitContradictions
<1> QED
  BY <1>1, <1>2, SnapshotInductive, PTL DEF SnapshotSpec

\* Equal identities mean equal states, across any number of restores.
THEOREM IdentityAlwaysNamesState == SnapshotSpec => []IdentityNamesState
<1>1. SnapshotInit => SnapshotInv
  BY InitSnapshot
<1>2. SnapshotInv => IdentityNamesState
  BY DocumentAssumption DEF SnapshotInv, IdentityNamesState, SavedIdentityIsPast,
     StateIdentity, TypeOK, CounterTypes
<1> QED
  BY <1>1, <1>2, SnapshotInductive, PTL DEF SnapshotSpec

\* Between restores nothing registered is altered, restored objects included.
THEOREM RestoredAlwaysStands == SnapshotSpec => RestoredStands
<1>1. SnapshotInit => SnapshotInv
  BY InitSnapshot
<1>2. SnapshotInv /\ [SnapshotNext]_snapshotVars
        => [stateToken' = stateToken => RegisteredKept]_snapshotVars
  <2> SUFFICES ASSUME SnapshotInv, SnapshotNext, stateToken' = stateToken
               PROVE  RegisteredKept
    OBVIOUS
  <2>1. ~FromSnapshot
    BY DEF FromSnapshot, FreshLineage, SnapshotInv, TypeOK, CounterTypes
  <2>2. [Next]_vars
    BY <2>1 DEF SnapshotNext, ToSnapshot, Receive
  <2> QED
    BY <2>2, StepKeeps DEF SnapshotInv
<1> QED
  BY <1>1, <1>2, SnapshotInductive, PTL DEF SnapshotSpec, RestoredStands
----------------------------------------------------------------------------
\* What the admission does not check: the keys of the index, who shares a gap,
\* the histories.  It holds after a restore when the document was written by an
\* engine, this one or another.

\* The state in a document, seen as the state of an engine.
Saved(s) == INSTANCE EngineProperties WITH
  nextId <- s.nextId,
  lifecycleSeq <- s.lifecycleSeq,
  entities <- s.entities,
  observations <- s.observations,
  claims <- s.claims,
  evidences <- s.evidences,
  relations <- s.relations,
  gaps <- s.gaps,
  ruleDefinitions <- s.ruleDefinitions,
  ruleStats <- s.ruleStats,
  gapDedupIndex <- s.gapDedupIndex,
  claimGapRefs <- s.claimGapRefs,
  gapResolutions <- s.gapResolutions,
  contradictions <- s.contradictions,
  resolvedContradictions <- s.resolvedContradictions,
  claimLifecycleEvents <- s.claimLifecycleEvents,
  hintEvidenceTypes <- s.hintEvidenceTypes

Sensible(s) ==
  /\ Saved(s)!ReferencesResolve
  /\ Saved(s)!DedupIndexExact
  /\ Saved(s)!SharingWithinSubject
  /\ Saved(s)!HistoryIsPathToStatus
  /\ Saved(s)!DecisionsStayJustified

\* Documents from elsewhere were written by engines too.  (It speaks of no
\* variable, but through an instance, whose level is not seen to be constant;
\* hence the box in the theorems.)
EnginesWroteDocuments == \A doc \in ForeignDocuments : Sensible(doc.state)

LineageInv ==
  /\ SnapshotInv
  /\ HistoryInv
  /\ document # Nothing => Sensible(document.state)

\* Saving.
LEMMA SavedIsSensible == ASSUME HistoryInv PROVE Sensible(StateView)
<1> USE DEF HistoryInv, GapInv, ReferenceInv, StateView
<1>1. Saved(StateView)!ReferencesResolve
  BY DEF ReferencesResolve, SubjectOf, Resolves, Held, Saved!ReferencesResolve,
     Saved!SubjectOf, Saved!Resolves, Saved!Held
<1>2. Saved(StateView)!DedupIndexExact
  BY DEF DedupIndexExact, KeyOfGap, DedupKey, Saved!DedupIndexExact,
     Saved!KeyOfGap, Saved!DedupKey
<1>3. Saved(StateView)!SharingWithinSubject
  BY DEF SharingWithinSubject, SubjectOf, Saved!SharingWithinSubject,
     Saved!SubjectOf
<1>4. Saved(StateView)!HistoryIsPathToStatus
  BY DEF HistoryIsPathToStatus, LegalMoves, Saved!HistoryIsPathToStatus,
     Saved!LegalMoves
<1>5. Saved(StateView)!DecisionsStayJustified
  BY DEF DecisionsStayJustified, EventsOf, Justified, GapsForClaim,
     ContradictionsForClaim, SubjectOf, IsStrong, Saved!DecisionsStayJustified,
     Saved!EventsOf, Saved!Justified, Saved!GapsForClaim,
     Saved!ContradictionsForClaim, Saved!SubjectOf, Saved!IsStrong,
     RefutationStrengthThreshold, Saved!RefutationStrengthThreshold
<1> QED
  BY <1>1, <1>2, <1>3, <1>4, <1>5 DEF Sensible

\* Sense is a matter of the stores.
SameStores(s, t) ==
  /\ t.lifecycleSeq = s.lifecycleSeq
  /\ t.entities = s.entities
  /\ t.observations = s.observations
  /\ t.claims = s.claims
  /\ t.evidences = s.evidences
  /\ t.relations = s.relations
  /\ t.gaps = s.gaps
  /\ t.gapDedupIndex = s.gapDedupIndex
  /\ t.claimGapRefs = s.claimGapRefs
  /\ t.gapResolutions = s.gapResolutions
  /\ t.contradictions = s.contradictions
  /\ t.claimLifecycleEvents = s.claimLifecycleEvents

LEMMA SameStoresSameSense ==
  ASSUME NEW s, NEW t, SameStores(s, t), Sensible(s)
  PROVE  Sensible(t)
<1> USE DEF SameStores, Sensible
<1>1. Saved(t)!ReferencesResolve
  BY DEF Saved!ReferencesResolve, Saved!SubjectOf, Saved!Resolves, Saved!Held
<1>2. Saved(t)!DedupIndexExact
  BY DEF Saved!DedupIndexExact, Saved!KeyOfGap, Saved!DedupKey
<1>3. Saved(t)!SharingWithinSubject
  BY DEF Saved!SharingWithinSubject, Saved!SubjectOf
<1>4. Saved(t)!HistoryIsPathToStatus
  BY DEF Saved!HistoryIsPathToStatus, Saved!LegalMoves
<1>5. Saved(t)!DecisionsStayJustified
  <2>1. \A c, event : Saved(s)!Justified(c, event) => Saved(t)!Justified(c, event)
    BY DEF Saved!Justified, Saved!GapsForClaim, Saved!ContradictionsForClaim,
       Saved!SubjectOf, Saved!IsStrong, Saved!RefutationStrengthThreshold
  <2> QED
    BY <2>1 DEF Saved!DecisionsStayJustified, Saved!EventsOf
<1> QED
  BY <1>1, <1>2, <1>3, <1>4, <1>5

\* Migrating changes another field.
LEMMA MigratedIsSensible ==
  ASSUME NEW doc, Sensible(doc.state)
  PROVE  Sensible(Migrate(doc).state)
<1>1. CASE doc.schema = 1
  <2>1. Migrate(doc).state = [doc.state EXCEPT !.hintEvidenceTypes = {}]
    BY <1>1 DEF Migrate
  <2>2. SameStores(doc.state, [doc.state EXCEPT !.hintEvidenceTypes = {}])
    BY DEF SameStores
  <2> QED
    BY <2>1, <2>2, SameStoresSameSense
<1>2. CASE doc.schema # 1
  BY <1>2 DEF Migrate
<1> QED
  BY <1>1, <1>2

\* Restoring.
LEMMA RestoredIsSensible ==
  ASSUME NEW s, Sensible(s), Install(s), TypeOK'
  PROVE  HistoryInv'
<1> USE DEF Sensible, Install, InstallGaps, InstallHistory
<1>1. ReferencesResolve'
  BY DEF ReferencesResolve, SubjectOf, Resolves, Held, Saved!ReferencesResolve,
     Saved!SubjectOf, Saved!Resolves, Saved!Held
<1>2. DedupIndexExact'
  BY DEF DedupIndexExact, KeyOfGap, DedupKey, Saved!DedupIndexExact,
     Saved!KeyOfGap, Saved!DedupKey
<1>3. SharingWithinSubject'
  BY DEF SharingWithinSubject, SubjectOf, Saved!SharingWithinSubject,
     Saved!SubjectOf
<1>4. HistoryIsPathToStatus'
  BY DEF HistoryIsPathToStatus, LegalMoves, Saved!HistoryIsPathToStatus,
     Saved!LegalMoves
<1>5. DecisionsStayJustified'
  <2>1. \A c, event : Saved(s)!Justified(c, event) => Justified(c, event)'
    BY DEF Justified, GapsForClaim, ContradictionsForClaim, SubjectOf, IsStrong,
       RefutationStrengthThreshold, Saved!Justified, Saved!GapsForClaim,
       Saved!ContradictionsForClaim, Saved!SubjectOf, Saved!IsStrong,
       Saved!RefutationStrengthThreshold
  <2>2. \A c : Saved(s)!EventsOf(c) = EventsOf(c)'
    BY DEF EventsOf, Saved!EventsOf
  <2> QED
    BY <2>1, <2>2 DEF DecisionsStayJustified, Saved!DecisionsStayJustified
<1>6. IndexTargetsExist'
  BY <1>2 DEF DedupIndexExact, IndexTargetsExist
<1> QED
  BY <1>1, <1>2, <1>3, <1>4, <1>5, <1>6 DEF HistoryInv, GapInv, ReferenceInv


LEMMA LineageInductive ==
  ASSUME EnginesWroteDocuments, LineageInv, [SnapshotNext]_snapshotVars
  PROVE  LineageInv'
<1> USE DEF LineageInv
<1>1. SnapshotInv' /\ TypeOK'
  BY SnapshotInductive DEF SnapshotInv
<1>2. CASE [Next]_vars /\ UNCHANGED heldVars
  BY <1>1, <1>2, HistoryInductive DEF heldVars
<1>3. CASE ToSnapshot
  <2>1. HistoryInv'
    BY <1>3, HistoryInductive DEF ToSnapshot
  <2>2. document'.state = StateView
    BY <1>3 DEF ToSnapshot, EncodeSnapshot
  <2> QED
    BY <1>1, <2>1, <2>2, SavedIsSensible
<1>4. ASSUME NEW doc \in ForeignDocuments, Receive(doc)
      PROVE  LineageInv'
  <2>1. HistoryInv'
    BY <1>4, HistoryInductive DEF Receive
  <2>2. document' = doc
    BY <1>4 DEF Receive
  <2> QED
    BY <1>1, <2>1, <2>2 DEF EnginesWroteDocuments
<1>5. CASE FromSnapshot
  <2>1. PICK s : s = Migrate(document).state
    OBVIOUS
  <2>2. Install(s) /\ document # Nothing /\ UNCHANGED document
    BY <1>5, <2>1 DEF FromSnapshot, heldVars
  <2>3. Sensible(s)
    BY <2>1, <2>2, MigratedIsSensible
  <2>4. HistoryInv'
    BY <1>1, <2>2, <2>3, RestoredIsSensible
  <2> QED
    BY <1>1, <2>2, <2>4
<1> QED
  BY <1>2, <1>3, <1>4, <1>5 DEF SnapshotNext, snapshotVars

LEMMA InitLineage == SnapshotInit => LineageInv
  BY InitSnapshot, InitHistory DEF SnapshotInit, LineageInv

\* Across any number of saves and restores, of documents that engines wrote,
\* the history of a claim leads by legal moves to its status, the events of a
\* restored engine after those it brought.
THEOREM HistoryGoesOnAcrossRestores ==
  SnapshotSpec /\ []EnginesWroteDocuments => []HistoryIsPathToStatus
<1>1. LineageInv => HistoryIsPathToStatus
  BY DEF LineageInv, HistoryInv
<1>2. EnginesWroteDocuments /\ LineageInv /\ [SnapshotNext]_snapshotVars
        => LineageInv'
  BY LineageInductive
<1> QED
  BY <1>1, <1>2, InitLineage, PTL DEF SnapshotSpec

\* And a restored index finds the gaps that were restored: the engine does not
\* ask again for what was asked for before.
THEOREM DedupIndexGoesOnAcrossRestores ==
  SnapshotSpec /\ []EnginesWroteDocuments => []DedupIndexExact
<1>1. LineageInv => DedupIndexExact
  BY DEF LineageInv, HistoryInv, GapInv
<1>2. EnginesWroteDocuments /\ LineageInv /\ [SnapshotNext]_snapshotVars
        => LineageInv'
  BY LineageInductive
<1> QED
  BY <1>1, <1>2, InitLineage, PTL DEF SnapshotSpec

=============================================================================
