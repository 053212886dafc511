---------------------------- MODULE MCConfidence ----------------------------
(***************************************************************************)
(* An instance of ConfidenceProperties for TLC.  It starts from an engine  *)
(* that was asked for one entity, two claims about it and two evidences of *)
(* the first, so that the calls MaxRevision leaves bear on confidence.     *)
(***************************************************************************)
EXTENDS ConfidenceProperties, FiniteSetsExt

Counts(e, c, v, g) ==
  [kind \in Kinds |->
     CASE kind = "entity" -> e [] kind = "claim" -> c
       [] kind = "evidence" -> v [] kind = "gap" -> g [] OTHER -> 0]

ConfidenceBound == Counts(1, 2, 3, 1)

LogType == CHOOSE type \in EvidenceTypes : TRUE

FirstVersion == {rule \in RuleKeys : rule[2] = CHOOSE v \in RuleVersions : TRUE}

ClaimOf(rule, status) ==
  [subject |-> 1, rule |-> rule, base |-> 5, status |-> status]

EvidenceOf(strength) == [claim |-> 1, type |-> LogType, strength |-> strength]

\* Init after add_entity, two calls of add_claim and two of add_evidence.
TwoClaimsInit ==
  /\ nextId = [kind \in Kinds |-> CASE kind = "entity" -> 1
                                    [] kind \in {"claim", "evidence"} -> 2
                                    [] OTHER -> 0]
  /\ entities = {1}
  /\ \E first \in FirstVersion, second \in RuleKeys, status \in CreationStatuses :
       claims = <<ClaimOf(first, status), ClaimOf(second, "confirmed")>>
  /\ stateRevision = 5
  /\ observations = EmptyMap
  /\ evidences = <<EvidenceOf(Max(Strengths)), EvidenceOf(Min(Strengths))>>
  /\ relations = EmptyMap
  /\ gaps = EmptyMap
  /\ ruleDefinitions = EmptyMap
  /\ ruleStats = EmptyMap
  /\ gapDedupIndex = EmptyMap
  /\ claimGapRefs = {}
  /\ gapResolutions = EmptyMap
  /\ contradictions = {}
  /\ resolvedContradictions = {}
  /\ lifecycleSeq = 0
  /\ claimLifecycleEvents = EmptyMap
  /\ hintEvidenceTypes = {}
  /\ stateToken = 0
  /\ kept = NoTrace

TwoClaimsSpec == TwoClaimsInit /\ [][ConfidenceNext]_confidenceVars
=============================================================================
