------------------------------- MODULE Crud -------------------------------
(***************************************************************************)
(* Creation of entities, observations, claims and evidences (cluster C2,   *)
(* ragcore/_engine/crud.py).  Fields the engine only carries (types,       *)
(* flags, reason codes, raw references) are left out of the records.       *)
(***************************************************************************)
EXTENDS EngineState

AddEntity ==
  /\ AllocateId("entity")
  /\ entities' = entities \cup {NewId("entity")}
  /\ AdvanceStateRevision
  /\ UNCHANGED <<observations, claims, evidences, relations, gapStores,
                 ruleStores, contraStores, historyStores, hintEvidenceTypes,
                 stateToken>>

AddObservation(entity) ==
  /\ entity \in entities
  /\ AllocateId("observation")
  /\ observations' = Put(observations, NewId("observation"), entity)
  /\ AdvanceStateRevision
  /\ UNCHANGED <<entities, claims, evidences, relations, gapStores,
                 ruleStores, contraStores, historyStores, hintEvidenceTypes,
                 stateToken>>

\* The rule pair is advisory: nothing asks for it to be registered.
AddClaim(subject, rule, base, status) ==
  /\ subject \in entities
  /\ status \in ClaimStatuses
  /\ base \in ScoreValue
  /\ AllocateId("claim")
  /\ claims' = Put(claims, NewId("claim"),
                   [subject |-> subject, rule |-> rule, base |-> base,
                    status |-> status])
  /\ AdvanceStateRevision
  /\ UNCHANGED <<entities, observations, evidences, relations, gapStores,
                 ruleStores, contraStores, historyStores, hintEvidenceTypes,
                 stateToken>>

AddEvidence(claim, type, strength) ==
  /\ claim \in DOMAIN claims
  /\ strength \in ScoreValue
  /\ AllocateId("evidence")
  /\ evidences' = Put(evidences, NewId("evidence"),
                      [claim |-> claim, type |-> type, strength |-> strength])
  /\ AdvanceStateRevision
  /\ UNCHANGED <<entities, observations, claims, relations, gapStores,
                 ruleStores, contraStores, historyStores, hintEvidenceTypes,
                 stateToken>>

EvidencesForClaim(claim) ==
  {e \in DOMAIN evidences : evidences[e].claim = claim}
=============================================================================
