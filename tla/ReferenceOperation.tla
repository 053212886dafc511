------------------------- MODULE ReferenceOperation -------------------------
(***************************************************************************)
(* The two consumers under examples/operation that drive an engine through *)
(* reviewed calls.  "reference" is the complete reference operation: lane  *)
(* A makes an entity, a claim about it and a gap the claim waits on, lane  *)
(* B reads a packet and a trace, lane C brings evidence, closes the gap    *)
(* with it and confirms the claim, and a final block reads the outcome.    *)
(* "stats" and "unknown" are the reviewed update of a rule's statistics,   *)
(* of a rule that was registered and of one that was not.                  *)
(*                                                                         *)
(* The validators of lanes A and B are in PacketValidator and              *)
(* ProposalReview; here lane A's verdict is a free choice, and lane B only *)
(* records those of its own.                                               *)
(***************************************************************************)
EXTENDS ReviewedCycle

VARIABLE op  \* the operation under way, or its report

operationVars == <<vars, capture, cycle, others, op>>

Procedures == {"reference", "stats", "unknown"}

\* The rule the statistics procedures are about.
ReviewedRule == CHOOSE rule \in RuleKeys : rule[1] # NoRule

OperationInit ==
  /\ CaptureInit
  /\ cycle = NoCycle
  /\ others = 0
  /\ \E procedure \in Procedures :
       op = [procedure |-> procedure, status |-> "running", at |-> "start",
             receipts |-> <<>>, final |-> EmptyMap]

Running == op.status = "running"

Position == Len(op.receipts)

\* Faulty: the ids are those last handed out, not those returned.
LatestIds ==
  [entity_id |-> nextId["entity"], claim_id |-> nextId["claim"],
   gap_id |-> nextId["gap"], evidence_id |-> nextId["evidence"]]

\* The ids the cycles so far returned.
ProducedIds ==
  [entity_id   |-> IF Position >= 1 THEN op.receipts[1].result ELSE 0,
   claim_id    |-> IF Position >= 2 THEN op.receipts[2].result ELSE 0,
   gap_id      |-> IF Position >= 3 THEN op.receipts[3].result ELSE 0,
   evidence_id |-> IF Position >= 4 THEN op.receipts[4].result ELSE 0]

\* The six cycles of lanes A and C, with the ids that earlier ones returned.
Cycles ==
  LET id == ProducedIds
  IN  << [method |-> "add_entity"],
         [method |-> "add_claim", subject |-> id.entity_id],
         [method |-> "add_gap", claim |-> id.claim_id],
         [method |-> "add_evidence", claim |-> id.claim_id],
         [method |-> "resolve_gaps_for_evidence", evidence |-> id.evidence_id],
         [method |-> "confirm_claim_if_ready", claim |-> id.claim_id] >>

\* An update that counts one firing, and one that gives nothing but defaults.
StatsCalls ==
  {[method |-> "update_rule_stats", rule |-> ReviewedRule, firing |-> n,
    known |-> op.procedure = "stats"] : n \in {0, 1}}

----------------------------------------------------------------------------

Report(status, at) == op' = [op EXCEPT !.status = status, !.at = at]

\* Lane A begins with the role assignment: any violation ends the operation.
ValidateRoles ==
  /\ Running /\ op.procedure = "reference" /\ op.at = "start"
  /\ \/ op' = [op EXCEPT !.at = "lane_a"]
     \/ Report("TERMINATED_AT_AUTHORITY_GATE", "lane_a.role_validation")
  /\ UNCHANGED cycleVars

\* _successful_case registers its rule itself, unreviewed; register_rule
\* raises if another caller did.
PrepareStats ==
  /\ Running /\ op.procedure # "reference" /\ op.at = "start"
  /\ \/ /\ op.procedure = "stats"
        /\ RegisterRule(ReviewedRule, "stable")
        /\ op' = [op EXCEPT !.at = "lane_a"]
     \/ /\ op.procedure = "stats" /\ ReviewedRule \in DOMAIN ruleDefinitions
        /\ Report("RAISED", "register_rule")
        /\ UNCHANGED vars
     \/ /\ op.procedure = "unknown"
        /\ op' = [op EXCEPT !.at = "lane_a"]
        /\ UNCHANGED vars
  /\ UNCHANGED <<capture, cycle, others>>

BeginCycle ==
  /\ Running /\ op.at \in {"lane_a", "lane_c"}
  /\ IF op.procedure = "reference"
     THEN /\ Position < IF op.at = "lane_a" THEN 3 ELSE 6
          /\ Materialize(Cycles[Position + 1])
     ELSE Position = 0 /\ \E call \in StatsCalls : Materialize(call)
  /\ UNCHANGED op

EndCycle ==
  /\ AtStage("receipt")
  /\ op' = [op EXCEPT !.receipts = Append(@, cycle)]
  /\ cycle' = NoCycle
  /\ UNCHANGED <<vars, capture, others>>

\* A cycle that ended at a gate ends the operation there; the statistics
\* example fails instead, unless the attempt was to be rejected.
Terminate ==
  /\ EndedAtGate
  /\ Report(CASE op.procedure = "reference" -> "TERMINATED_AT_AUTHORITY_GATE"
              [] cycle.stage = "rejected" -> "REPORTED"
              [] OTHER -> "RAISED",
            cycle.stage)
  /\ cycle' = NoCycle
  /\ UNCHANGED <<vars, capture, others>>

BeginLaneB ==
  /\ Running /\ op.procedure = "reference" /\ op.at = "lane_a"
  /\ Position = 3 /\ cycle = NoCycle
  /\ BeginCapture(ProducedIds.claim_id)
  /\ op' = [op EXCEPT !.at = "lane_b"]
  /\ UNCHANGED <<cycle, others>>

ReadLaneB == Reading /\ UNCHANGED <<cycle, others, op>>

EndLaneB ==
  /\ Running /\ op.at = "lane_b"
  /\ Discard
  /\ op' = [op EXCEPT !.at = "lane_c"]
  /\ UNCHANGED <<cycle, others>>

\* Faulty: the identity is read first and vouches for what follows it.
IdentityFirst == <<"final_engine_identity", "claim_status", "gap_resolution">>

FinalOrder == <<"claim_status", "gap_resolution", "final_engine_identity">>

FinalAnswer(field) ==
  CASE field = "claim_status" -> claims[ProducedIds.claim_id].status
    [] field = "gap_resolution" ->
         IF ProducedIds.gap_id \in DOMAIN gapResolutions
         THEN gapResolutions[ProducedIds.gap_id] ELSE 0
    [] field = "final_engine_identity" -> StateIdentity

\* The final block reads what the outcome is, one call after another.
ReadFinal ==
  /\ Running /\ op.at = "lane_c" /\ Position = 6 /\ cycle = NoCycle
  /\ LET done == Cardinality(DOMAIN op.final)
     IN  /\ done < Len(FinalOrder)
         /\ op' = [op EXCEPT !.final = Put(@, FinalOrder[done + 1],
                                           FinalAnswer(FinalOrder[done + 1]))]
  /\ UNCHANGED cycleVars

Finish ==
  /\ Running /\ cycle = NoCycle
  /\ IF op.procedure = "reference" THEN DOMAIN op.final = {FinalOrder[i] : i \in 1 .. 3}
                                   ELSE Position = 1
  /\ Report(IF op.procedure = "reference" THEN "COMPLETE_REFERENCE_OPERATION"
                                           ELSE "REPORTED", "end")
  /\ UNCHANGED cycleVars

OperationStep ==
  \/ ValidateRoles
  \/ PrepareStats
  \/ BeginCycle
  \/ CycleStep /\ UNCHANGED op
  \/ EndCycle
  \/ Terminate
  \/ BeginLaneB
  \/ ReadLaneB
  \/ EndLaneB
  \/ ReadFinal
  \/ Finish

OperationNext == OperationStep \/ (OtherCall /\ UNCHANGED op)

OperationSpec == OperationInit /\ [][OperationNext]_operationVars

\* The consumer's own steps go on; the other callers owe nothing.
FairOperationSpec == OperationSpec /\ WF_operationVars(OperationStep)
=============================================================================
