----------------------------- MODULE Relations -----------------------------
(***************************************************************************)
(* Links between two objects of any kind (cluster C3,                      *)
(* ragcore/_engine/relations.py).  An id means nothing without its kind.   *)
(***************************************************************************)
EXTENDS EngineState

Reference == [kind : Kinds, id : Nat]

AddRelation(from, to) ==
  /\ from.id \in StorageForKind(from.kind)
  /\ to.id \in StorageForKind(to.kind)
  /\ AllocateId("relation")
  /\ relations' = Put(relations, NewId("relation"), [from |-> from, to |-> to])
  /\ AdvanceStateRevision
  /\ UNCHANGED <<crudStores, gapStores, ruleStores, contraStores,
                 historyStores, hintEvidenceTypes, stateToken>>
=============================================================================
