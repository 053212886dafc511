-------------------------------- MODULE Gaps --------------------------------
(***************************************************************************)
(* Gaps: what evidence a claim still lacks (cluster C4,                    *)
(* ragcore/_engine/gaps.py).  Claims about the same subject share a gap,   *)
(* and the first matching evidence closes it for all of them.              *)
(***************************************************************************)
EXTENDS EngineState

\* Faulty: forgets whom the gap is about.
DedupKeyWithoutSubject(claim, rule, type, required) ==
  <<1, rule, type, required>>

DedupKey(claim, rule, type, required) ==
  <<claims[claim].subject, rule, type, required>>

GapsForClaim(claim) == {g \in DOMAIN gaps : <<claim, g>> \in claimGapRefs}

\* Faulty: the new gap is not indexed.
NewGapUnindexed(claim, type, required, severity, rule) ==
  /\ AllocateId("gap")
  /\ gaps' = Put(gaps, NewId("gap"),
                 [claim |-> claim, type |-> type, required |-> required,
                  severity |-> severity, rule |-> rule])
  /\ claimGapRefs' = claimGapRefs \cup {<<claim, NewId("gap")>>}
  /\ UNCHANGED gapDedupIndex

NewGap(claim, type, required, severity, rule) ==
  /\ AllocateId("gap")
  /\ gaps' = Put(gaps, NewId("gap"),
                 [claim |-> claim, type |-> type, required |-> required,
                  severity |-> severity, rule |-> rule])
  /\ gapDedupIndex' = Put(gapDedupIndex, DedupKey(claim, rule, type, required),
                          NewId("gap"))
  /\ claimGapRefs' = claimGapRefs \cup {<<claim, NewId("gap")>>}

\* Faulty: a hit that adds no reference still counts as a change.
ShareGapAgain(claim, gap) ==
  /\ claimGapRefs' = claimGapRefs \cup {<<claim, gap>>}
  /\ UNCHANGED <<nextId, gaps, gapDedupIndex>>

\* A gap found in the index keeps its claim and severity.
ShareGap(claim, gap) ==
  /\ <<claim, gap>> \notin claimGapRefs
  /\ claimGapRefs' = claimGapRefs \cup {<<claim, gap>>}
  /\ UNCHANGED <<nextId, gaps, gapDedupIndex>>

AddGap(claim, type, required, severity, rule) ==
  /\ claim \in DOMAIN claims
  /\ severity \in ScoreValue
  /\ LET key == DedupKey(claim, rule, type, required)
     IN  IF key \in DOMAIN gapDedupIndex
         THEN ShareGap(claim, gapDedupIndex[key])
         ELSE NewGap(claim, type, required, severity, rule)
  /\ AdvanceStateRevision
  /\ UNCHANGED <<crudStores, relations, gapResolutions, ruleStores,
                 contraStores, historyStores, hintEvidenceTypes, stateToken>>

\* Faulty: closes again what an earlier evidence closed.
GapsMatchedBy(evidence) ==
  {g \in GapsForClaim(evidences[evidence].claim) :
     gaps[g].required = evidences[evidence].type}

\* The gaps of the evidence's own claim that it closes now.
GapsClosedBy(evidence) ==
  {g \in GapsForClaim(evidences[evidence].claim) :
     /\ gaps[g].required = evidences[evidence].type
     /\ g \notin DOMAIN gapResolutions}

ResolveGapsForEvidence(evidence) ==
  /\ evidence \in DOMAIN evidences
  /\ GapsClosedBy(evidence) # {}
  /\ gapResolutions' =
       [g \in DOMAIN gapResolutions \cup GapsClosedBy(evidence) |->
          IF g \in GapsClosedBy(evidence) THEN evidence
                                          ELSE gapResolutions[g]]
  /\ AdvanceStateRevision
  /\ UNCHANGED <<nextId, crudStores, relations, gaps, gapDedupIndex,
                 claimGapRefs, ruleStores, contraStores, historyStores,
                 hintEvidenceTypes, stateToken>>
=============================================================================
