-------------------- MODULE ReferenceOperationProperties --------------------
(***************************************************************************)
(* What the report of a reviewed operation is worth when the consumer is   *)
(* not the only caller of its engine.                                      *)
(***************************************************************************)
EXTENDS ReferenceOperation

Receipts == {op.receipts[k] : k \in 1 .. Position}

ById == {"add_entity", "add_claim", "add_evidence"}

\* The call's own answer says that it changed the engine.
SaysChanged(receipt) ==
  \/ receipt.call.method \in ById
  \/ receipt.call.method = "resolve_gaps_for_evidence" /\ receipt.result # {}
  \/ receipt.call.method = "confirm_claim_if_ready" /\ receipt.result

\* Stage 6 and the call are separate: another caller may come between them
\* and a stale decision may be carried out.  The receipt tells: when the
\* identity before is the one decided at, the identity after is the next one
\* and the answer says that the call made a change, then the call met exactly
\* the state the decision was made at.
ReceiptTellsIfReviewed ==
  \A receipt \in Receipts :
    /\ receipt.before = receipt.decision
    /\ receipt.after = [receipt.before EXCEPT !.revision = @ + 1]
    /\ SaysChanged(receipt)
    => receipt.invokedAt = receipt.decision

\* Each receipt begins where the one before it ended, moves the revision by
\* one and reports a change of its own; the final identity is the last one's.
UnbrokenChain ==
  /\ op.receipts[1].before.revision = 0
  /\ \A k \in 1 .. 6 :
       /\ op.receipts[k].after.revision = op.receipts[k].before.revision + 1
       /\ k < 6 => op.receipts[k + 1].before = op.receipts[k].after
  /\ SaysChanged(op.receipts[5])
  /\ SaysChanged(op.receipts[6])
  /\ op.final["final_engine_identity"] = op.receipts[6].after

CompleteReference ==
  op.procedure = "reference" /\ op.status = "COMPLETE_REFERENCE_OPERATION"

\* An unbroken chain of receipts proves the outcome: the claim is confirmed
\* and its gap is closed by the operation's own evidence.  Without the answers
\* of the last two calls it would not: another caller's change can hide behind
\* a call that found nothing to do.  (Behind add_gap it still can, when the
\* other caller made the very same gap; the outcome is then the same.)
UnbrokenReceiptsProveOutcome ==
  CompleteReference /\ UnbrokenChain =>
    /\ op.final["claim_status"] = "confirmed"
    /\ op.final["gap_resolution"] = ProducedIds.evidence_id

\* However other callers interfered, a completed operation hangs together: its
\* claim is about its entity and waits on its gap, its evidence is of its
\* claim, and the gap is closed, by evidence about the same entity.
CompletedOperationFits ==
  CompleteReference =>
    LET id == ProducedIds
    IN  /\ claims[id.claim_id].subject = id.entity_id
        /\ <<id.claim_id, id.gap_id>> \in claimGapRefs
        /\ evidences[id.evidence_id].claim = id.claim_id
        /\ op.final["gap_resolution"] \in DOMAIN evidences
        /\ claims[evidences[op.final["gap_resolution"]].claim].subject = id.entity_id

\* The receipt of an update of statistics that nobody disturbed: it reports a
\* change of the values exactly when the identity moved.
EffectMatchesIdentity ==
  \A receipt \in Receipts :
    receipt.call.method = "update_rule_stats" /\ receipt.othersBefore = others =>
      (receipt.result = "VALUE_CHANGED") = (receipt.after # receipt.before)

\* The operation ends, completed, stopped at a gate or failed: a decision that
\* went stale is never waited for or asked for again.
OperationReports == <>(op.status # "running")
=============================================================================
