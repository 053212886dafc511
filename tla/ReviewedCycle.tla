--------------------------- MODULE ReviewedCycle ---------------------------
(***************************************************************************)
(* One reviewed call of the engine, as the consumers under                 *)
(* examples/operation make it: a candidate is materialised, the operator   *)
(* decides on it, the decision is revalidated against the engine's         *)
(* identity at Stage 5.5 and again at Stage 6, and the call is made        *)
(* between two reads of the identity that the receipt keeps.               *)
(*                                                                         *)
(* Every read of the engine is a step.  Other callers of the same engine   *)
(* may act between any two of them; the consumer takes no lock.            *)
(***************************************************************************)
EXTENDS PacketCapture

CONSTANTS
  NoCycle,
  AskedGapType,       \* gap_type and required_evidence_type of the consumer
  AskedEvidenceType,
  MaxOtherCalls       \* how many changes other callers make

AskedStrength == 6
AskedSeverity == 5
AskedConfidence == 8

\* The consumer's rule_id 0 is a rule id like another, and so are its types.
ASSUME ConsumerAssumption ==
  /\ AskedGapType \in GapTypes
  /\ AskedEvidenceType \in EvidenceTypes
  /\ \E rule \in RuleKeys : rule[1] = NoRule
  /\ \E rule \in RuleKeys : rule[1] # NoRule

VARIABLES
  cycle,   \* NoCycle, or the cycle under way
  others   \* how many changes other callers have made

cycleVars == <<vars, capture, cycle, others>>

\* rule_id and rule_version 0 of the consumer's claims and gaps.
SentinelRule == CHOOSE rule \in RuleKeys : rule[1] = NoRule

----------------------------------------------------------------------------
\* The call itself.

GapKey(call) ==
  DedupKey(call.claim, NoRule, AskedGapType, AskedEvidenceType)

\* add_gap returns the gap the index has, or the one it makes.
ReturnedGap(call) ==
  IF GapKey(call) \in DOMAIN gapDedupIndex THEN gapDedupIndex[GapKey(call)]
                                           ELSE NewId("gap")

\* Whether the call finds anything to change.
Changes(call) ==
  CASE call.method = "add_gap" -> <<call.claim, ReturnedGap(call)>> \notin claimGapRefs
    [] call.method = "resolve_gaps_for_evidence" -> GapsClosedBy(call.evidence) # {}
    [] call.method = "confirm_claim_if_ready" -> ReadyToConfirm(call.claim)
    [] call.method = "update_rule_stats" -> call.firing # 0
    [] OTHER -> TRUE

\* What the call returns.
Result(call) ==
  CASE call.method = "add_entity"   -> NewId("entity")
    [] call.method = "add_claim"    -> NewId("claim")
    [] call.method = "add_evidence" -> NewId("evidence")
    [] call.method = "add_gap"      -> ReturnedGap(call)
    [] call.method = "resolve_gaps_for_evidence" -> GapsClosedBy(call.evidence)
    [] call.method = "confirm_claim_if_ready"    -> ReadyToConfirm(call.claim)
    [] call.method = "update_rule_stats"         -> "None"

Perform(call) ==
  \/ call.method = "add_entity" /\ AddEntity
  \/ call.method = "add_claim"
     /\ AddClaim(call.subject, SentinelRule, AskedConfidence, "candidate")
  \/ call.method = "add_gap"
     /\ AddGap(call.claim, AskedGapType, AskedEvidenceType, AskedSeverity, NoRule)
  \/ call.method = "add_evidence"
     /\ AddEvidence(call.claim, AskedEvidenceType, AskedStrength)
  \/ call.method = "resolve_gaps_for_evidence"
     /\ ResolveGapsForEvidence(call.evidence)
  \/ call.method = "confirm_claim_if_ready" /\ ConfirmClaimIfReady(call.claim)
  \/ call.method = "update_rule_stats"
     /\ UpdateRuleStats(call.rule, call.firing, 0, 0, NoScore, NoScore)
  \/ ~Changes(call) /\ UNCHANGED vars

----------------------------------------------------------------------------
\* The stages.

AtStage(stage) == cycle # NoCycle /\ cycle.stage = stage

Materialize(call) ==
  /\ cycle = NoCycle
  /\ cycle' = [call |-> call, stage |-> "decide", materialized |-> stateRevision]
  /\ UNCHANGED <<vars, capture, others>>

\* The identity is read before the operator is asked; anything but approval
\* ends the cycle at the review gate.  The statistics example only approves.
Decide(disposition) ==
  /\ AtStage("decide")
  /\ cycle.call.method = "update_rule_stats" => disposition = "approved"
  /\ cycle' = [call |-> cycle.call, decision |-> StateIdentity,
               stage |-> IF disposition = "approved" THEN "stage_5_5"
                                                     ELSE "operator_review"]
  /\ UNCHANGED <<vars, capture, others>>

\* Faulty: does nothing about a decision that is no longer eligible.
RevalidateEligible(stage, next, rejected) ==
  /\ AtStage(stage)
  /\ cycle.decision = StateIdentity
  /\ cycle' = [cycle EXCEPT !.stage = next]
  /\ UNCHANGED <<vars, capture, others>>

\* A decision stays eligible while the engine's identity is the one it was
\* made at; otherwise the cycle ends at this gate.
Revalidate(stage, next, rejected) ==
  /\ AtStage(stage)
  /\ cycle' = [cycle EXCEPT
                 !.stage = IF cycle.decision = StateIdentity THEN next ELSE rejected]
  /\ UNCHANGED <<vars, capture, others>>

Stage55 == Revalidate("stage_5_5", "stage_6", "stage_5_5_materialization")

\* The attempt on a rule known not to be registered makes no call, and its
\* second revalidation stops nothing.
Suppressed == cycle.call.method = "update_rule_stats" /\ ~cycle.call.known

Stage6 ==
  Revalidate("stage_6", "before",
             IF Suppressed THEN "before" ELSE "stage_6_invocation")

\* othersBefore is not the consumer's: it tells a disturbed call from an
\* undisturbed one.
ReadIdentityBefore ==
  /\ AtStage("before")
  /\ cycle' = [call |-> cycle.call, decision |-> cycle.decision,
               before |-> StateIdentity, othersBefore |-> others,
               stage |-> IF cycle.call.method = "update_rule_stats"
                         THEN "pre_read" ELSE "invoke"]
  /\ UNCHANGED <<vars, capture, others>>

\* The attempt is rejected after this read, whether or not it raises.
PreReadStats ==
  /\ AtStage("pre_read")
  /\ cycle' = IF Suppressed THEN [cycle EXCEPT !.stage = "rejected"]
              ELSE Put([cycle EXCEPT !.stage = "invoke"], "statsBefore",
                       ruleStats[cycle.call.rule])
  /\ UNCHANGED <<vars, capture, others>>

\* invokedAt is not the consumer's either: it is what nobody read.
Invoke ==
  /\ AtStage("invoke")
  /\ Perform(cycle.call)
  /\ cycle' = Put(Put([cycle EXCEPT !.stage = "after"],
                      "result", Result(cycle.call)),
                  "invokedAt", StateIdentity)
  /\ UNCHANGED <<capture, others>>

\* Faulty: computes the identity after the call instead of reading it.
ComputeIdentityAfter ==
  /\ AtStage("after")
  /\ cycle' = Put([cycle EXCEPT !.stage = IF "statsBefore" \in DOMAIN cycle
                                          THEN "post_read" ELSE "receipt"],
                  "after", [cycle.before EXCEPT !.revision = @ + 1])
  /\ UNCHANGED <<vars, capture, others>>

ReadIdentityAfter ==
  /\ AtStage("after")
  /\ cycle' = Put([cycle EXCEPT !.stage = IF "statsBefore" \in DOMAIN cycle
                                          THEN "post_read" ELSE "receipt"],
                  "after", StateIdentity)
  /\ UNCHANGED <<vars, capture, others>>

\* The effect is told from the two reads, not from the None returned.
PostReadStats ==
  /\ AtStage("post_read")
  /\ cycle' = [cycle EXCEPT
                 !.stage = "receipt",
                 !.result = IF ruleStats[cycle.call.rule] = cycle.statsBefore
                            THEN "NO_VALUE_CHANGE" ELSE "VALUE_CHANGED"]
  /\ UNCHANGED <<vars, capture, others>>

\* Any other caller of the engine.
OtherCall ==
  /\ others < MaxOtherCalls
  /\ Next
  /\ others' = others + 1
  /\ UNCHANGED <<capture, cycle>>

CycleStep ==
  \/ \E disposition \in {"approved", "rejected"} : Decide(disposition)
  \/ Stage55
  \/ Stage6
  \/ ReadIdentityBefore
  \/ PreReadStats
  \/ Invoke
  \/ ReadIdentityAfter
  \/ PostReadStats

EndedAtGate ==
  cycle # NoCycle /\ cycle.stage \in {"operator_review", "stage_5_5_materialization",
                                      "stage_6_invocation", "rejected"}
=============================================================================
