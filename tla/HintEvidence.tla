--------------------------- MODULE HintEvidence ---------------------------
(***************************************************************************)
(* The set of evidence types the caller calls hints                        *)
(* (ragcore/_engine/hint_evidence.py).  A call whose argument is not an    *)
(* iterable of ints raises before it changes anything.                     *)
(***************************************************************************)
EXTENDS EngineState

\* Faulty: a change of the set is not a change of state.
SetHintEvidenceTypesQuietly(types) ==
  /\ types # hintEvidenceTypes
  /\ hintEvidenceTypes' = types
  /\ UNCHANGED <<nextId, crudStores, relations, gapStores, ruleStores,
                 contraStores, historyStores, stateToken, stateRevision>>

SetHintEvidenceTypes(types) ==
  /\ types # hintEvidenceTypes
  /\ hintEvidenceTypes' = types
  /\ AdvanceStateRevision
  /\ UNCHANGED <<nextId, crudStores, relations, gapStores, ruleStores,
                 contraStores, historyStores, stateToken>>

RegisterHintEvidenceTypes(types) ==
  SetHintEvidenceTypes(hintEvidenceTypes \cup types)

UnregisterHintEvidenceTypes(types) ==
  SetHintEvidenceTypes(hintEvidenceTypes \ types)

ClearHintEvidenceTypes == SetHintEvidenceTypes({})
=============================================================================
