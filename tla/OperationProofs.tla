-------------------------- MODULE OperationProofs ---------------------------
(***************************************************************************)
(* What the receipt of a reviewed call says of the engine.  No call leaves *)
(* the identity (StepMovesRevision).                                       *)
(***************************************************************************)
EXTENDS ReferenceOperationProperties, EngineProofs, SequenceTheorems,
        FiniteSetTheorems

\* The stages before the first identity is read, before the call, after it.
Decided == {"stage_5_5", "stage_6", "before"}

Bracketed == {"pre_read", "invoke"}

Closed == {"post_read", "receipt"}

\* An identity of this engine.
IsIdentity(x) ==
  /\ x = [token |-> x.token, revision |-> x.revision]
  /\ x.token = stateToken
  /\ x.revision \in Nat

\* The call was made no earlier than the first identity was read and, when it
\* says that it changed the engine, the second identity shows it.
InOrder(r) ==
  /\ IsIdentity(r.before) /\ IsIdentity(r.invokedAt) /\ IsIdentity(r.after)
  /\ r.before.revision <= r.invokedAt.revision
  /\ SaysChanged(r) => r.invokedAt.revision + 1 <= r.after.revision

\* What the cycle under way has recorded, stage by stage.
CycleInv ==
  cycle # NoCycle =>
    /\ cycle.stage \in Decided => {"call", "stage"} \subseteq DOMAIN cycle
    /\ cycle.stage \in Bracketed =>
         /\ {"call", "stage", "before"} \subseteq DOMAIN cycle
         /\ IsIdentity(cycle.before)
         /\ cycle.before.revision <= stateRevision
         /\ cycle.stage = "pre_read" \/ "statsBefore" \in DOMAIN cycle =>
              cycle.call.method = "update_rule_stats"
    /\ cycle.stage = "after" =>
         /\ {"call", "stage", "before", "result", "invokedAt"} \subseteq DOMAIN cycle
         /\ IsIdentity(cycle.before) /\ IsIdentity(cycle.invokedAt)
         /\ cycle.before.revision <= cycle.invokedAt.revision
         /\ cycle.invokedAt.revision <= stateRevision
         /\ SaysChanged(cycle) => cycle.invokedAt.revision + 1 <= stateRevision
         /\ "statsBefore" \in DOMAIN cycle => cycle.call.method = "update_rule_stats"
    /\ cycle.stage \in Closed =>
         /\ {"call", "stage", "before", "result", "invokedAt", "after"}
              \subseteq DOMAIN cycle
         /\ InOrder(cycle)
         /\ cycle.stage = "post_read" => cycle.call.method = "update_rule_stats"

\* Every receipt was closed in order.
ReceiptInv ==
  /\ "receipts" \in DOMAIN op
  /\ op.receipts \in Seq(Receipts)
  /\ \A receipt \in Receipts : InOrder(receipt)

\* The inductive invariant of the identities in a receipt.
OperationInv == stateRevision \in Nat /\ CycleInv /\ ReceiptInv

\* No step of the operation, or of another caller, takes the identity back.
LEMMA PerformMoves ==
  ASSUME NEW call, Perform(call)
  PROVE  /\ stateToken' = stateToken
         /\ stateRevision' = stateRevision \/ stateRevision' = stateRevision + 1
         /\ Changes(call) => stateRevision' = stateRevision + 1
  BY DEF Perform, AddEntity, AddClaim, AddGap, AddEvidence, ResolveGapsForEvidence,
     ConfirmClaimIfReady, Transit, UpdateRuleStats, AdvanceStateRevision, vars

LEMMA OperationMoves ==
  ASSUME [OperationNext]_operationVars
  PROVE  /\ stateToken' = stateToken
         /\ stateRevision' = stateRevision \/ stateRevision' = stateRevision + 1
<1> USE DEF vars, cycleVars, operationVars
<1>1. CASE UNCHANGED vars
  BY <1>1
<1>2. CASE PrepareStats
  BY <1>2 DEF PrepareStats, RegisterRule, AdvanceStateRevision
<1>3. CASE CycleStep
  <2>1. Invoke => \E call : Perform(call)
    BY DEF Invoke
  <2> QED
    BY <1>1, <1>3, <2>1, PerformMoves
       DEF CycleStep, Decide, Stage55, Stage6, Revalidate, ReadIdentityBefore,
           PreReadStats, ReadIdentityAfter, PostReadStats
<1>4. CASE OtherCall
  BY <1>4, StepMovesRevision DEF OtherCall
<1>5. OperationNext => UNCHANGED vars \/ PrepareStats \/ CycleStep \/ OtherCall
  BY DEF OperationNext, OperationStep, ValidateRoles, BeginCycle, Materialize,
     EndCycle, Terminate, BeginLaneB, BeginCapture, ReadLaneB, Reading, ReadNext,
     CheckGap, EndLaneB, Discard, ReadFinal, Finish
<1> QED
  BY <1>1, <1>2, <1>3, <1>4, <1>5

\* While the consumer waits, what its cycle has read stays in order.
LEMMA WaitKeepsCycle ==
  ASSUME OperationInv, [OperationNext]_operationVars, UNCHANGED cycle
  PROVE  CycleInv'
  BY OperationMoves DEF OperationInv, CycleInv, InOrder, IsIdentity, SaysChanged

LEMMA StatsSayNothing ==
  ASSUME NEW r, r.call.method = "update_rule_stats"
  PROVE  ~SaysChanged(r)
  BY DEF SaysChanged, ById

LEMMA DecideKeepsCycle ==
  ASSUME NEW disposition, Decide(disposition)
  PROVE  CycleInv'
<1>1. /\ cycle'.stage \in {"stage_5_5", "operator_review"}
      /\ {"call", "stage"} \subseteq DOMAIN cycle'
  BY DEF Decide
<1> QED
  BY <1>1 DEF CycleInv, Decided, Bracketed, Closed

LEMMA RevalidateKeepsCycle ==
  ASSUME CycleInv, Stage55 \/ Stage6
  PROVE  CycleInv'
<1>1. /\ cycle # NoCycle
      /\ cycle.stage \in Decided
      /\ \E stage \in {"stage_6", "before", "stage_5_5_materialization",
                       "stage_6_invocation"} :
           cycle' = [cycle EXCEPT !.stage = stage]
  BY DEF Stage55, Stage6, Revalidate, AtStage, Decided
<1>2. {"call", "stage"} \subseteq DOMAIN cycle
  BY <1>1 DEF CycleInv
<1>3. /\ cycle'.stage \in {"stage_6", "before", "stage_5_5_materialization",
                           "stage_6_invocation"}
      /\ DOMAIN cycle' = DOMAIN cycle
  BY <1>1, <1>2
<1> QED
  BY <1>2, <1>3 DEF CycleInv, Decided, Bracketed, Closed

LEMMA ReadBeforeKeepsCycle ==
  ASSUME OperationInv, ReadIdentityBefore
  PROVE  CycleInv'
<1>1. /\ DOMAIN cycle' = {"call", "decision", "before", "othersBefore", "stage"}
      /\ cycle'.before = StateIdentity
      /\ cycle'.stage = IF cycle'.call.method = "update_rule_stats" THEN "pre_read"
                                                                    ELSE "invoke"
  BY DEF ReadIdentityBefore
<1>2. UNCHANGED stateToken /\ UNCHANGED stateRevision
  BY DEF ReadIdentityBefore, vars
<1> QED
  BY <1>1, <1>2 DEF CycleInv, Decided, Bracketed, Closed, IsIdentity, StateIdentity,
     OperationInv

LEMMA PreReadKeepsCycle ==
  ASSUME OperationInv, PreReadStats
  PROVE  CycleInv'
<1>1. /\ cycle # NoCycle
      /\ cycle.stage = "pre_read"
  BY DEF PreReadStats, AtStage
<1>2. /\ {"call", "stage", "before"} \subseteq DOMAIN cycle
      /\ IsIdentity(cycle.before)
      /\ cycle.before.revision <= stateRevision
      /\ cycle.call.method = "update_rule_stats"
  BY <1>1 DEF OperationInv, CycleInv, Bracketed
<1>3. UNCHANGED stateToken /\ UNCHANGED stateRevision
  BY DEF PreReadStats, vars
<1>4. CASE Suppressed
  <2>1. cycle'.stage = "rejected"
    BY <1>2, <1>4 DEF PreReadStats
  <2> QED
    BY <2>1 DEF CycleInv, Decided, Bracketed, Closed
<1>5. CASE ~Suppressed
  <2>1. PICK stats :
          cycle' = Put([cycle EXCEPT !.stage = "invoke"], "statsBefore", stats)
    BY <1>5 DEF PreReadStats
  <2>2. /\ cycle'.stage = "invoke"
        /\ cycle'.before = cycle.before
        /\ cycle'.call = cycle.call
        /\ {"call", "stage", "before"} \subseteq DOMAIN cycle'
    BY <1>2, <2>1 DEF Put
  <2> QED
    BY <1>2, <1>3, <2>2 DEF CycleInv, Decided, Bracketed, Closed, IsIdentity
<1> QED
  BY <1>4, <1>5

\* A call that says it changed the engine did.
LEMMA SayingIsChanging ==
  ASSUME NEW call, SaysChanged([call |-> call, result |-> Result(call)])
  PROVE  Changes(call)
  BY DEF SaysChanged, ById, Result, Changes

LEMMA InvokeKeepsCycle ==
  ASSUME OperationInv, Invoke
  PROVE  CycleInv'
<1>1. /\ cycle # NoCycle
      /\ cycle.stage = "invoke"
  BY DEF Invoke, AtStage
<1>2. /\ {"call", "stage", "before"} \subseteq DOMAIN cycle
      /\ IsIdentity(cycle.before)
      /\ cycle.before.revision <= stateRevision
      /\ "statsBefore" \in DOMAIN cycle => cycle.call.method = "update_rule_stats"
  BY <1>1 DEF OperationInv, CycleInv, Bracketed
<1>3. PICK call, result : call = cycle.call /\ result = Result(call)
  OBVIOUS
<1>4. /\ stateToken' = stateToken
      /\ stateRevision' = stateRevision \/ stateRevision' = stateRevision + 1
      /\ Changes(call) => stateRevision' = stateRevision + 1
  BY <1>3, PerformMoves DEF Invoke
<1>5. cycle' = Put(Put([cycle EXCEPT !.stage = "after"], "result", result),
                   "invokedAt", StateIdentity)
  BY <1>3 DEF Invoke
<1>6. /\ cycle'.stage = "after"
      /\ cycle'.before = cycle.before
      /\ cycle'.call = call
      /\ cycle'.result = result
      /\ cycle'.invokedAt = StateIdentity
      /\ {"call", "stage", "before", "result", "invokedAt"} \subseteq DOMAIN cycle'
      /\ "statsBefore" \in DOMAIN cycle' => "statsBefore" \in DOMAIN cycle
  BY <1>2, <1>3, <1>5 DEF Put
<1>7. SaysChanged(cycle)' => Changes(call)
  <2>1. SaysChanged(cycle)' => SaysChanged([call |-> call, result |-> result])
    BY <1>6 DEF SaysChanged
  <2> QED
    BY <1>3, <2>1, SayingIsChanging
<1>8. /\ IsIdentity(cycle.before)'
      /\ IsIdentity(cycle.invokedAt)'
      /\ cycle'.before.revision <= cycle'.invokedAt.revision
      /\ cycle'.invokedAt.revision <= stateRevision'
      /\ SaysChanged(cycle)' => cycle'.invokedAt.revision + 1 <= stateRevision'
  BY <1>2, <1>4, <1>6, <1>7 DEF IsIdentity, StateIdentity, OperationInv
<1> QED
  BY <1>2, <1>3, <1>6, <1>8 DEF CycleInv, Decided, Bracketed, Closed

LEMMA ReadAfterKeepsCycle ==
  ASSUME OperationInv, ReadIdentityAfter
  PROVE  CycleInv'
<1>1. /\ cycle # NoCycle
      /\ cycle.stage = "after"
  BY DEF ReadIdentityAfter, AtStage
<1>2. /\ {"call", "stage", "before", "result", "invokedAt"} \subseteq DOMAIN cycle
      /\ IsIdentity(cycle.before) /\ IsIdentity(cycle.invokedAt)
      /\ cycle.before.revision <= cycle.invokedAt.revision
      /\ SaysChanged(cycle) => cycle.invokedAt.revision + 1 <= stateRevision
      /\ "statsBefore" \in DOMAIN cycle => cycle.call.method = "update_rule_stats"
  BY <1>1 DEF OperationInv, CycleInv
<1>3. UNCHANGED stateToken /\ UNCHANGED stateRevision
  BY DEF ReadIdentityAfter, vars
<1>4. PICK stage : stage = IF "statsBefore" \in DOMAIN cycle THEN "post_read"
                                                             ELSE "receipt"
  OBVIOUS
<1>5. cycle' = Put([cycle EXCEPT !.stage = stage], "after", StateIdentity)
  BY <1>4 DEF ReadIdentityAfter
<1>6. /\ cycle'.stage = stage
      /\ cycle'.call = cycle.call
      /\ cycle'.result = cycle.result
      /\ cycle'.before = cycle.before
      /\ cycle'.invokedAt = cycle.invokedAt
      /\ cycle'.after = StateIdentity
      /\ {"call", "stage", "before", "result", "invokedAt", "after"}
           \subseteq DOMAIN cycle'
  BY <1>2, <1>5 DEF Put
<1>7. SaysChanged(cycle)' => SaysChanged(cycle)
  BY <1>6 DEF SaysChanged
<1>8. InOrder(cycle)'
  BY <1>2, <1>3, <1>6, <1>7 DEF InOrder, IsIdentity, StateIdentity, OperationInv
<1> QED
  BY <1>2, <1>4, <1>6, <1>8 DEF CycleInv, Decided, Bracketed, Closed

LEMMA PostReadKeepsCycle ==
  ASSUME OperationInv, PostReadStats
  PROVE  CycleInv'
<1>1. /\ cycle # NoCycle
      /\ cycle.stage = "post_read"
  BY DEF PostReadStats, AtStage
<1>2. /\ {"call", "stage", "before", "result", "invokedAt", "after"}
           \subseteq DOMAIN cycle
      /\ InOrder(cycle)
      /\ cycle.call.method = "update_rule_stats"
  BY <1>1 DEF OperationInv, CycleInv, Closed
<1>3. UNCHANGED stateToken
  BY DEF PostReadStats, vars
<1>4. /\ cycle'.stage = "receipt"
      /\ cycle'.call = cycle.call
      /\ cycle'.before = cycle.before
      /\ cycle'.invokedAt = cycle.invokedAt
      /\ cycle'.after = cycle.after
      /\ DOMAIN cycle' = DOMAIN cycle
  BY <1>2 DEF PostReadStats
<1>5. ~SaysChanged(cycle')
  BY <1>2, <1>4, StatsSayNothing
<1>6. InOrder(cycle)'
  BY <1>2, <1>3, <1>4, <1>5 DEF InOrder, IsIdentity, SaysChanged
<1> QED
  BY <1>2, <1>4, <1>6 DEF CycleInv, Decided, Bracketed, Closed

LEMMA AppendReceipt ==
  ASSUME NEW r, NEW c, NEW s, r \in Seq({r[k] : k \in 1 .. Len(r)}), s = Append(r, c)
  PROVE  /\ {s[k] : k \in 1 .. Len(s)} = {r[k] : k \in 1 .. Len(r)} \cup {c}
         /\ s \in Seq({s[k] : k \in 1 .. Len(s)})
<1> DEFINE old == {r[k] : k \in 1 .. Len(r)}
           all == old \cup {c}
<1>1. r \in Seq(all) /\ c \in all
  OBVIOUS
<1>2. /\ s \in Seq(all)
      /\ Len(s) = Len(r) + 1
      /\ Len(r) \in Nat
      /\ s[Len(s)] = c
      /\ \A k \in 1 .. Len(r) : s[k] = r[k]
  BY <1>1
<1>3. {s[k] : k \in 1 .. Len(s)} = all
  BY <1>2
<1> QED
  BY <1>2, <1>3

LEMMA EndCycleKeepsReceipts ==
  ASSUME OperationInv, EndCycle
  PROVE  ReceiptInv'
<1>1. /\ cycle # NoCycle
      /\ cycle.stage = "receipt"
  BY DEF EndCycle, AtStage
<1>2. InOrder(cycle) /\ UNCHANGED stateToken
  BY <1>1 DEF OperationInv, CycleInv, Closed, EndCycle, vars
<1>3. PICK c : c = cycle
  OBVIOUS
<1>4. /\ "receipts" \in DOMAIN op'
      /\ op'.receipts = Append(op.receipts, c)
  BY <1>3 DEF EndCycle, OperationInv, ReceiptInv
<1>5. PICK r, t : r = op.receipts /\ t = op'.receipts
  OBVIOUS
<1>6. Receipts' = Receipts \cup {c} /\ op'.receipts \in Seq(Receipts')
  <2>1. Receipts = {r[k] : k \in 1 .. Len(r)} /\ Receipts' = {t[k] : k \in 1 .. Len(t)}
    BY <1>5 DEF Receipts, Position
  <2>2. r \in Seq({r[k] : k \in 1 .. Len(r)}) /\ t = Append(r, c)
    BY <1>4, <1>5, <2>1 DEF OperationInv, ReceiptInv
  <2>3. /\ {t[k] : k \in 1 .. Len(t)} = {r[k] : k \in 1 .. Len(r)} \cup {c}
        /\ t \in Seq({t[k] : k \in 1 .. Len(t)})
    BY <2>2, AppendReceipt
  <2> QED
    BY <1>5, <2>1, <2>3
<1>7. \A receipt \in Receipts \cup {c} : InOrder(receipt)'
  BY <1>2, <1>3 DEF OperationInv, ReceiptInv, InOrder, IsIdentity, SaysChanged
<1> QED
  BY <1>4, <1>6, <1>7 DEF ReceiptInv

LEMMA OtherStepsKeepReceipts ==
  ASSUME OperationInv, [OperationNext]_operationVars, "receipts" \in DOMAIN op',
         op'.receipts = op.receipts
  PROVE  ReceiptInv'
<1>1. Receipts' = Receipts
  BY DEF Receipts, Position
<1>2. \A receipt \in Receipts : InOrder(receipt)'
  BY OperationMoves DEF OperationInv, ReceiptInv, InOrder, IsIdentity, SaysChanged
<1> QED
  BY <1>1, <1>2 DEF OperationInv, ReceiptInv

LEMMA CycleStepKeeps ==
  ASSUME OperationInv, CycleStep
  PROVE  CycleInv'
  BY DecideKeepsCycle, RevalidateKeepsCycle, ReadBeforeKeepsCycle,
     PreReadKeepsCycle, InvokeKeepsCycle, ReadAfterKeepsCycle, PostReadKeepsCycle
     DEF CycleStep, OperationInv

LEMMA OperationStepKeeps ==
  ASSUME OperationInv, OperationStep
  PROVE  CycleInv' /\ ReceiptInv'
<1>1. "receipts" \in DOMAIN op /\ [OperationNext]_operationVars
  BY DEF OperationInv, ReceiptInv, OperationNext
<1>2. CASE EndCycle
  <2>1. CycleInv'
    BY <1>2 DEF EndCycle, CycleInv
  <2> QED
    BY <1>2, <2>1, EndCycleKeepsReceipts
<1>3. CASE CycleStep /\ UNCHANGED op
  BY <1>1, <1>3, CycleStepKeeps, OtherStepsKeepReceipts
<1>4. CASE BeginCycle
  <2>1. PICK call : Materialize(call) /\ UNCHANGED op
    BY <1>4 DEF BeginCycle
  <2>2. cycle'.stage = "decide"
    BY <2>1 DEF Materialize
  <2>3. CycleInv'
    BY <2>2 DEF CycleInv, Decided, Bracketed, Closed
  <2> QED
    BY <1>1, <2>1, <2>3, OtherStepsKeepReceipts
<1>5. CASE Terminate
  <2>1. CycleInv'
    BY <1>5 DEF Terminate, CycleInv
  <2>2. "receipts" \in DOMAIN op' /\ op'.receipts = op.receipts
    BY <1>1, <1>5 DEF Terminate, Report
  <2> QED
    BY <1>1, <2>1, <2>2, OtherStepsKeepReceipts
<1>6. ASSUME ValidateRoles \/ PrepareStats \/ BeginLaneB \/ ReadLaneB \/ EndLaneB
               \/ ReadFinal \/ Finish
      PROVE  CycleInv' /\ ReceiptInv'
  <2>1. UNCHANGED cycle
    BY <1>6 DEF ValidateRoles, PrepareStats, BeginLaneB, ReadLaneB, EndLaneB,
       ReadFinal, Finish, cycleVars
  <2>2. "receipts" \in DOMAIN op' /\ op'.receipts = op.receipts
    BY <1>1, <1>6 DEF ValidateRoles, PrepareStats, BeginLaneB, ReadLaneB, EndLaneB,
       ReadFinal, Finish, Report
  <2> QED
    BY <1>1, <2>1, <2>2, WaitKeepsCycle, OtherStepsKeepReceipts
<1> QED
  BY <1>2, <1>3, <1>4, <1>5, <1>6 DEF OperationStep

LEMMA OperationInductive == OperationInv /\ [OperationNext]_operationVars => OperationInv'
<1> SUFFICES ASSUME OperationInv, [OperationNext]_operationVars
             PROVE  OperationInv'
  OBVIOUS
<1>1. stateRevision' \in Nat
  BY OperationMoves DEF OperationInv
<1>2. CASE OperationStep
  BY <1>1, <1>2, OperationStepKeeps DEF OperationInv
<1>3. CASE UNCHANGED <<cycle, op>>
  BY <1>1, <1>3, WaitKeepsCycle, OtherStepsKeepReceipts DEF OperationInv, ReceiptInv
<1> QED
  BY <1>2, <1>3 DEF OperationNext, OtherCall, operationVars, cycleVars

\* Whoever else calls the engine, and whatever they do between any two steps of
\* the consumer, a receipt whose identities meet proves that the call was made
\* on the very state that was reviewed.
THEOREM ReceiptAlwaysTellsIfReviewed == OperationSpec => []ReceiptTellsIfReviewed
<1>1. OperationInit => OperationInv
  BY DEF OperationInit, CaptureInit, Init, OperationInv, CycleInv, ReceiptInv,
     Receipts, Position
<1>2. OperationInv => ReceiptTellsIfReviewed
  <2> SUFFICES ASSUME OperationInv, NEW receipt \in Receipts,
                      receipt.before = receipt.decision,
                      receipt.after = [receipt.before EXCEPT !.revision = @ + 1],
                      SaysChanged(receipt)
               PROVE  receipt.invokedAt = receipt.decision
    BY DEF ReceiptTellsIfReviewed
  <2>1. InOrder(receipt)
    BY DEF OperationInv, ReceiptInv
  <2>2. receipt.after.revision = receipt.before.revision + 1
    BY <2>1 DEF InOrder, IsIdentity
  <2>3. receipt.invokedAt.revision = receipt.before.revision
    BY <2>1, <2>2 DEF InOrder, IsIdentity
  <2> QED
    BY <2>1, <2>3 DEF InOrder, IsIdentity
<1> QED
  BY <1>1, <1>2, OperationInductive, PTL DEF OperationSpec

----------------------------------------------------------------------------
\* The effect of an update of statistics that nobody disturbed.

IsStats(c) == c.call.method = "update_rule_stats"

StatsNow == ruleStats[cycle.call.rule]

EffectShown(r) == (r.result = "VALUE_CHANGED") = (r.after # r.before)

\* What a cycle knows of the engine while nobody else has called it since the
\* identity before was read: first that nothing moved, then that the values
\* and the identity moved together.
EffectSoFar ==
  /\ cycle.stage \in Bracketed => StateIdentity = cycle.before
  /\ IsStats(cycle) =>
       /\ cycle.stage = "invoke" => StatsNow = cycle.statsBefore
       /\ cycle.stage = "after" =>
            (StatsNow = cycle.statsBefore) = (StateIdentity = cycle.before)
       /\ cycle.stage = "post_read" =>
            (StatsNow = cycle.statsBefore) = (cycle.after = cycle.before)
       /\ cycle.stage = "receipt" => EffectShown(cycle)

InBracket == Bracketed \cup {"after"} \cup Closed

\* The same of a cycle while the counter of other calls stands.
EffectOfCycle ==
  cycle # NoCycle =>
    /\ op.at \in {"lane_a", "lane_c"}
    /\ cycle.stage \in Decided => {"call", "stage"} \subseteq DOMAIN cycle
    /\ cycle.stage \in InBracket =>
         /\ {"call", "stage", "before", "othersBefore"} \subseteq DOMAIN cycle
         /\ cycle.othersBefore \in Nat
         /\ cycle.othersBefore <= others
         /\ IsStats(cycle) /\ cycle.stage # "pre_read" => "statsBefore" \in DOMAIN cycle
         /\ cycle.stage \in Closed => {"result", "after"} \subseteq DOMAIN cycle
         /\ cycle.stage = "after" => "result" \in DOMAIN cycle
         /\ cycle.othersBefore = others => EffectSoFar

\* And of its receipt.
EffectOfReceipt(r) ==
  /\ r.othersBefore \in Nat
  /\ r.othersBefore <= others
  /\ IsStats(r) /\ r.othersBefore = others => EffectShown(r)

\* The inductive invariant of the effect.
EffectInv ==
  /\ others \in Nat
  /\ stateRevision \in Nat
  /\ DOMAIN op = {"procedure", "status", "at", "receipts", "final"}
  /\ op.receipts \in Seq(Receipts)
  /\ EffectOfCycle
  /\ \A receipt \in Receipts : EffectOfReceipt(receipt)

\* While nobody calls the engine, a cycle that waits knows what it knew.
LEMMA RestKeepsEffect ==
  ASSUME EffectOfCycle, UNCHANGED <<vars, cycle, others>>,
         op'.at = op.at \/ op'.at \in {"lane_a", "lane_c"}
  PROVE  EffectOfCycle'
<1>1. UNCHANGED StateIdentity /\ UNCHANGED ruleStats
  BY DEF vars, ruleStores, StateIdentity
<1>2. cycle # NoCycle /\ cycle.stage \in InBracket =>
        (EffectSoFar => EffectSoFar')
  BY <1>1 DEF EffectSoFar, StatsNow, IsStats, EffectShown
<1> QED
  BY <1>1, <1>2 DEF EffectOfCycle, IsStats

\* Once another caller has acted, a cycle claims nothing any more.
LEMMA OtherCallKeepsEffect ==
  ASSUME EffectInv, OtherCall, UNCHANGED op
  PROVE  EffectInv'
<1>1. /\ others' = others + 1 /\ UNCHANGED cycle /\ Next
      /\ Receipts' = Receipts
  BY DEF OtherCall, Receipts, Position
<1>2. stateRevision' \in Nat
  BY <1>1, StepMovesRevision DEF EffectInv
<1>3. EffectOfCycle'
  BY <1>1 DEF EffectInv, EffectOfCycle, IsStats
<1>4. \A receipt \in Receipts : EffectOfReceipt(receipt)'
  BY <1>1 DEF EffectInv, EffectOfReceipt, IsStats
<1> QED
  BY <1>1, <1>2, <1>3, <1>4 DEF EffectInv

LEMMA DecidingKeepsEffect ==
  ASSUME EffectInv, UNCHANGED op,
         Stage55 \/ Stage6 \/ \E disposition \in {"approved", "rejected"} : Decide(disposition)
  PROVE  EffectOfCycle'
<1>1. /\ cycle # NoCycle
      /\ cycle'.stage \in {"stage_5_5", "operator_review", "stage_6", "before",
                           "stage_5_5_materialization", "stage_6_invocation"}
      /\ {"call", "stage"} \subseteq DOMAIN cycle'
  <2>1. ASSUME NEW disposition, Decide(disposition)
        PROVE  /\ cycle # NoCycle
               /\ cycle'.stage \in {"stage_5_5", "operator_review"}
               /\ {"call", "stage"} \subseteq DOMAIN cycle'
    BY <2>1 DEF Decide, AtStage
  <2>2. ASSUME Stage55 \/ Stage6
        PROVE  /\ cycle # NoCycle
               /\ cycle'.stage \in {"stage_6", "before", "stage_5_5_materialization",
                                    "stage_6_invocation"}
               /\ {"call", "stage"} \subseteq DOMAIN cycle'
    <3>1. /\ cycle # NoCycle
          /\ cycle.stage \in Decided
          /\ \E stage \in {"stage_6", "before", "stage_5_5_materialization",
                           "stage_6_invocation"} :
               cycle' = [cycle EXCEPT !.stage = stage]
      BY <2>2 DEF Stage55, Stage6, Revalidate, AtStage, Decided
    <3>2. {"call", "stage"} \subseteq DOMAIN cycle
      BY <3>1 DEF EffectInv, EffectOfCycle
    <3> QED
      BY <3>1, <3>2
  <2> QED
    BY <2>1, <2>2
<1> QED
  BY <1>1 DEF EffectInv, EffectOfCycle, InBracket, Bracketed, Closed

LEMMA ReadBeforeKeepsEffect ==
  ASSUME EffectInv, UNCHANGED op, ReadIdentityBefore
  PROVE  EffectOfCycle'
<1>1. /\ DOMAIN cycle' = {"call", "decision", "before", "othersBefore", "stage"}
      /\ cycle'.before = StateIdentity
      /\ cycle'.othersBefore = others
      /\ cycle'.stage = IF IsStats(cycle)' THEN "pre_read" ELSE "invoke"
  BY DEF ReadIdentityBefore, IsStats
<1>2. UNCHANGED StateIdentity /\ UNCHANGED others /\ cycle # NoCycle
  BY DEF ReadIdentityBefore, vars, StateIdentity, AtStage
<1> QED
  BY <1>1, <1>2 DEF EffectInv, EffectOfCycle, EffectSoFar, InBracket, Bracketed,
     Closed, Decided

LEMMA PreReadKeepsEffect ==
  ASSUME EffectInv, UNCHANGED op, PreReadStats
  PROVE  EffectOfCycle'
<1>1. /\ cycle # NoCycle
      /\ cycle.stage = "pre_read"
  BY DEF PreReadStats, AtStage
<1>2. /\ {"call", "stage", "before", "othersBefore"} \subseteq DOMAIN cycle
      /\ cycle.othersBefore \in Nat
      /\ cycle.othersBefore <= others
      /\ cycle.othersBefore = others => StateIdentity = cycle.before
      /\ op.at \in {"lane_a", "lane_c"}
  BY <1>1 DEF EffectInv, EffectOfCycle, EffectSoFar, InBracket, Bracketed
<1>3. UNCHANGED StateIdentity /\ UNCHANGED others /\ UNCHANGED ruleStats
  BY DEF PreReadStats, vars, StateIdentity, ruleStores
<1>4. CASE Suppressed
  <2>1. cycle'.stage = "rejected"
    BY <1>2, <1>4 DEF PreReadStats
  <2> QED
    BY <1>2, <2>1 DEF EffectOfCycle, InBracket, Bracketed, Closed, Decided
<1>5. CASE ~Suppressed
  <2>1. PICK stats : stats = StatsNow
    OBVIOUS
  <2>2. cycle' = Put([cycle EXCEPT !.stage = "invoke"], "statsBefore", stats)
    BY <1>5, <2>1 DEF PreReadStats, StatsNow
  <2>3. /\ cycle'.stage = "invoke"
        /\ cycle'.before = cycle.before
        /\ cycle'.call = cycle.call
        /\ cycle'.othersBefore = cycle.othersBefore
        /\ cycle'.statsBefore = stats
        /\ {"call", "stage", "before", "othersBefore", "statsBefore"}
             \subseteq DOMAIN cycle'
    BY <1>2, <2>2 DEF Put
  <2>4. StatsNow' = stats
    BY <1>3, <2>1, <2>3 DEF StatsNow
  <2> QED
    BY <1>2, <1>3, <2>3, <2>4 DEF EffectOfCycle, EffectSoFar, InBracket, Bracketed,
       Closed, Decided
<1> QED
  BY <1>4, <1>5

\* An update that is made writes other values and moves the identity.
LEMMA InvokeKeepsEffect ==
  ASSUME EffectInv, UNCHANGED op, Invoke
  PROVE  EffectOfCycle'
<1>1. /\ cycle # NoCycle
      /\ cycle.stage = "invoke"
  BY DEF Invoke, AtStage
<1>2. /\ {"call", "stage", "before", "othersBefore"} \subseteq DOMAIN cycle
      /\ cycle.othersBefore \in Nat
      /\ cycle.othersBefore <= others
      /\ IsStats(cycle) => "statsBefore" \in DOMAIN cycle
      /\ cycle.othersBefore = others =>
           /\ StateIdentity = cycle.before
           /\ IsStats(cycle) => StatsNow = cycle.statsBefore
      /\ op.at \in {"lane_a", "lane_c"}
  BY <1>1 DEF EffectInv, EffectOfCycle, EffectSoFar, InBracket, Bracketed
<1>3. PICK call, result, now : call = cycle.call /\ result = Result(call)
                               /\ now = StateIdentity
  OBVIOUS
<1>4. cycle' = Put(Put([cycle EXCEPT !.stage = "after"], "result", result),
                   "invokedAt", now)
  BY <1>3 DEF Invoke
<1>5. /\ cycle'.stage = "after"
      /\ cycle'.before = cycle.before
      /\ cycle'.call = call
      /\ cycle'.othersBefore = cycle.othersBefore
      /\ {"call", "stage", "before", "othersBefore", "result"} \subseteq DOMAIN cycle'
      /\ "statsBefore" \in DOMAIN cycle =>
           "statsBefore" \in DOMAIN cycle' /\ cycle'.statsBefore = cycle.statsBefore
  BY <1>2, <1>3, <1>4 DEF Put
<1>6. UNCHANGED others
  BY DEF Invoke
<1>7. ASSUME IsStats(cycle), cycle.othersBefore = others
      PROVE  (StatsNow' = cycle.statsBefore) = (StateIdentity' = cycle.before)
  <2>1. call.method = "update_rule_stats" /\ Perform(call)
    BY <1>3, <1>7 DEF Invoke, IsStats
  <2>2. StatsNow = ruleStats[call.rule] /\ StatsNow' = ruleStats'[call.rule]
    BY <1>3, <1>5 DEF StatsNow
  <2>3. CASE UNCHANGED vars
    <3>1. UNCHANGED ruleStats /\ UNCHANGED StateIdentity
      BY <2>3 DEF vars, ruleStores, StateIdentity
    <3> QED
      BY <1>2, <1>7, <2>2, <3>1
  <2>4. CASE UpdateRuleStats(call.rule, call.firing, 0, 0, NoScore, NoScore)
    <3>1. \E new : new # ruleStats[call.rule] /\ ruleStats' = Put(ruleStats, call.rule, new)
      BY <2>4 DEF UpdateRuleStats
    <3>2. ruleStats'[call.rule] # ruleStats[call.rule]
      BY <3>1 DEF Put
    <3>3. stateRevision' = stateRevision + 1 /\ stateRevision \in Nat
      BY <2>4 DEF UpdateRuleStats, AdvanceStateRevision, EffectInv
    <3>4. StateIdentity' # StateIdentity
      BY <3>3 DEF StateIdentity
    <3> QED
      BY <1>2, <1>7, <2>2, <3>2, <3>4
  <2> QED
    BY <2>1, <2>3, <2>4 DEF Perform
<1>8. IsStats(cycle)' <=> IsStats(cycle)
  BY <1>3, <1>5 DEF IsStats
<1>9. cycle'.othersBefore = others' => EffectSoFar'
  BY <1>2, <1>5, <1>6, <1>7, <1>8 DEF EffectSoFar, Bracketed
<1> QED
  BY <1>2, <1>5, <1>6, <1>8, <1>9 DEF EffectOfCycle, InBracket, Bracketed, Closed,
     Decided

LEMMA ReadAfterKeepsEffect ==
  ASSUME EffectInv, UNCHANGED op, ReadIdentityAfter
  PROVE  EffectOfCycle'
<1>1. /\ cycle # NoCycle
      /\ cycle.stage = "after"
  BY DEF ReadIdentityAfter, AtStage
<1>2. /\ {"call", "stage", "before", "othersBefore", "result"} \subseteq DOMAIN cycle
      /\ cycle.othersBefore \in Nat
      /\ cycle.othersBefore <= others
      /\ IsStats(cycle) => "statsBefore" \in DOMAIN cycle
      /\ cycle.othersBefore = others /\ IsStats(cycle) =>
           (StatsNow = cycle.statsBefore) = (StateIdentity = cycle.before)
      /\ op.at \in {"lane_a", "lane_c"}
  BY <1>1 DEF EffectInv, EffectOfCycle, EffectSoFar, InBracket, Bracketed
<1>3. UNCHANGED others /\ UNCHANGED ruleStats
  BY DEF ReadIdentityAfter, vars, ruleStores
<1>4. PICK stage, now : /\ stage = IF "statsBefore" \in DOMAIN cycle THEN "post_read"
                                                                    ELSE "receipt"
                        /\ now = StateIdentity
  OBVIOUS
<1>5. cycle' = Put([cycle EXCEPT !.stage = stage], "after", now)
  BY <1>4 DEF ReadIdentityAfter
<1>6. /\ cycle'.stage = stage
      /\ cycle'.call = cycle.call
      /\ cycle'.before = cycle.before
      /\ cycle'.othersBefore = cycle.othersBefore
      /\ cycle'.after = now
      /\ {"call", "stage", "before", "othersBefore", "result", "after"}
           \subseteq DOMAIN cycle'
      /\ "statsBefore" \in DOMAIN cycle =>
           "statsBefore" \in DOMAIN cycle' /\ cycle'.statsBefore = cycle.statsBefore
  BY <1>2, <1>5 DEF Put
<1>7. /\ IsStats(cycle)' <=> IsStats(cycle)
      /\ StatsNow' = StatsNow
  BY <1>3, <1>6 DEF IsStats, StatsNow
<1>8. cycle'.othersBefore = others' => EffectSoFar'
  BY <1>2, <1>3, <1>4, <1>6, <1>7 DEF EffectSoFar, Bracketed
<1> QED
  BY <1>2, <1>3, <1>4, <1>6, <1>7, <1>8 DEF EffectOfCycle, InBracket, Bracketed,
     Closed, Decided

LEMMA PostReadKeepsEffect ==
  ASSUME EffectInv, UNCHANGED op, PostReadStats
  PROVE  EffectOfCycle'
<1>1. /\ cycle # NoCycle
      /\ cycle.stage = "post_read"
  BY DEF PostReadStats, AtStage
<1>2. /\ {"call", "stage", "before", "othersBefore", "result", "after"}
           \subseteq DOMAIN cycle
      /\ cycle.othersBefore \in Nat
      /\ cycle.othersBefore <= others
      /\ IsStats(cycle) => "statsBefore" \in DOMAIN cycle
      /\ cycle.othersBefore = others /\ IsStats(cycle) =>
           (StatsNow = cycle.statsBefore) = (cycle.after = cycle.before)
      /\ op.at \in {"lane_a", "lane_c"}
  BY <1>1 DEF EffectInv, EffectOfCycle, EffectSoFar, InBracket, Closed
<1>3. UNCHANGED others
  BY DEF PostReadStats
<1>4. cycle' = [cycle EXCEPT !.stage = "receipt",
                             !.result = IF StatsNow = cycle.statsBefore
                                        THEN "NO_VALUE_CHANGE" ELSE "VALUE_CHANGED"]
  BY DEF PostReadStats, StatsNow
<1>5. /\ cycle'.stage = "receipt"
      /\ cycle'.call = cycle.call
      /\ cycle'.before = cycle.before
      /\ cycle'.after = cycle.after
      /\ cycle'.othersBefore = cycle.othersBefore
      /\ DOMAIN cycle' = DOMAIN cycle
      /\ cycle'.result = IF StatsNow = cycle.statsBefore
                         THEN "NO_VALUE_CHANGE" ELSE "VALUE_CHANGED"
  BY <1>2, <1>4
<1>6. IsStats(cycle)' <=> IsStats(cycle)
  BY <1>5 DEF IsStats
<1>7. cycle'.othersBefore = others' => EffectSoFar'
  BY <1>2, <1>3, <1>5, <1>6 DEF EffectSoFar, EffectShown, Bracketed
<1> QED
  BY <1>2, <1>3, <1>5, <1>6, <1>7 DEF EffectOfCycle, InBracket, Bracketed, Closed,
     Decided

LEMMA EndCycleKeepsEffect ==
  ASSUME EffectInv, EndCycle
  PROVE  EffectInv'
<1>1. PICK c : c = cycle
  OBVIOUS
<1>2. /\ c # NoCycle /\ c.stage = "receipt"
      /\ cycle' = NoCycle
      /\ op' = [op EXCEPT !.receipts = Append(@, c)]
      /\ UNCHANGED others /\ UNCHANGED stateRevision
  BY <1>1 DEF EndCycle, AtStage, vars
<1>3. EffectOfReceipt(c)
  BY <1>1, <1>2 DEF EffectInv, EffectOfCycle, EffectSoFar, EffectOfReceipt,
     InBracket, Closed
<1>4. PICK r, t : r = op.receipts /\ t = op'.receipts
  OBVIOUS
<1>5. DOMAIN op' = DOMAIN op /\ t = Append(r, c)
  BY <1>2, <1>4 DEF EffectInv
<1>6. Receipts = {r[k] : k \in 1 .. Len(r)} /\ Receipts' = {t[k] : k \in 1 .. Len(t)}
  BY <1>4 DEF Receipts, Position
<1>7. r \in Seq({r[k] : k \in 1 .. Len(r)})
  BY <1>4, <1>6 DEF EffectInv
<1>8. Receipts' = Receipts \cup {c} /\ op'.receipts \in Seq(Receipts')
  BY <1>4, <1>5, <1>6, <1>7, AppendReceipt
<1>9. \A receipt \in Receipts' : EffectOfReceipt(receipt)'
  BY <1>2, <1>3, <1>8 DEF EffectInv, EffectOfReceipt, IsStats
<1>10. EffectOfCycle'
  BY <1>2 DEF EffectOfCycle
<1> QED
  BY <1>2, <1>5, <1>8, <1>9, <1>10 DEF EffectInv

\* The steps that add no receipt.
LEMMA ReceiptsKeepEffect ==
  ASSUME EffectInv, [OperationNext]_operationVars, UNCHANGED others,
         DOMAIN op' = DOMAIN op, op'.receipts = op.receipts, EffectOfCycle'
  PROVE  EffectInv'
<1>1. stateRevision' \in Nat
  BY OperationMoves DEF EffectInv
<1>2. Receipts' = Receipts
  BY DEF Receipts, Position
<1> QED
  BY <1>1, <1>2 DEF EffectInv, EffectOfReceipt, IsStats

LEMMA EffectInductive == EffectInv /\ [OperationNext]_operationVars => EffectInv'
<1> SUFFICES ASSUME EffectInv, [OperationNext]_operationVars
             PROVE  EffectInv'
  OBVIOUS
<1> USE DEF vars, cycleVars, operationVars
<1>1. CASE UNCHANGED operationVars
  <2>1. EffectOfCycle'
    BY <1>1, RestKeepsEffect DEF EffectInv
  <2> QED
    BY <1>1, <2>1, ReceiptsKeepEffect
<1>2. CASE OtherCall /\ UNCHANGED op
  BY <1>2, OtherCallKeepsEffect
<1>3. CASE EndCycle
  BY <1>3, EndCycleKeepsEffect
<1>4. CASE CycleStep /\ UNCHANGED op
  <2>1. UNCHANGED others
    BY <1>4 DEF CycleStep, Decide, Stage55, Stage6, Revalidate, ReadIdentityBefore,
       PreReadStats, Invoke, ReadIdentityAfter, PostReadStats
  <2>2. EffectOfCycle'
    BY <1>4, DecidingKeepsEffect, ReadBeforeKeepsEffect, PreReadKeepsEffect,
       InvokeKeepsEffect, ReadAfterKeepsEffect, PostReadKeepsEffect DEF CycleStep
  <2> QED
    BY <1>4, <2>1, <2>2, ReceiptsKeepEffect
<1>5. CASE BeginCycle
  <2>1. PICK call : Materialize(call) /\ UNCHANGED op
    BY <1>5 DEF BeginCycle
  <2>2. cycle'.stage = "decide" /\ op'.at \in {"lane_a", "lane_c"} /\ UNCHANGED others
    BY <1>5, <2>1 DEF Materialize, BeginCycle
  <2>3. EffectOfCycle'
    BY <2>2 DEF EffectOfCycle, InBracket, Bracketed, Closed, Decided
  <2> QED
    BY <2>1, <2>2, <2>3, ReceiptsKeepEffect
<1>6. CASE Terminate
  <2>1. EffectOfCycle' /\ UNCHANGED others
    BY <1>6 DEF Terminate, EffectOfCycle
  <2>2. DOMAIN op' = DOMAIN op /\ op'.receipts = op.receipts
    BY <1>6 DEF Terminate, Report, EffectInv
  <2> QED
    BY <2>1, <2>2, ReceiptsKeepEffect
<1>7. ASSUME ValidateRoles \/ PrepareStats \/ BeginLaneB \/ ReadLaneB \/ EndLaneB
               \/ ReadFinal \/ Finish
      PROVE  EffectInv'
  <2>1. UNCHANGED cycle /\ UNCHANGED others
    BY <1>7 DEF ValidateRoles, PrepareStats, BeginLaneB, ReadLaneB, EndLaneB,
       ReadFinal, Finish
  <2>2. DOMAIN op' = DOMAIN op /\ op'.receipts = op.receipts
    BY <1>7 DEF ValidateRoles, PrepareStats, BeginLaneB, ReadLaneB, EndLaneB,
       ReadFinal, Finish, Report, EffectInv
  <2>3. cycle # NoCycle => UNCHANGED vars /\ op'.at = op.at
    BY <1>7 DEF ValidateRoles, PrepareStats, BeginLaneB, ReadLaneB, Reading,
       ReadNext, CheckGap, EndLaneB, ReadFinal, Finish, EffectInv, EffectOfCycle
  <2>4. EffectOfCycle'
    <3>1. CASE cycle # NoCycle
      BY <2>1, <2>3, <3>1, RestKeepsEffect DEF EffectInv
    <3>2. CASE cycle = NoCycle
      BY <2>1, <3>2 DEF EffectOfCycle
    <3> QED
      BY <3>1, <3>2
  <2> QED
    BY <2>1, <2>2, <2>4, ReceiptsKeepEffect
<1> QED
  BY <1>1, <1>2, <1>3, <1>4, <1>5, <1>6, <1>7 DEF OperationNext, OperationStep

\* The receipt of an update of statistics that nobody disturbed tells a change
\* of the values from the identities as from the values.
THEOREM EffectAlwaysMatchesIdentity == OperationSpec => []EffectMatchesIdentity
<1>1. OperationInit => EffectInv
  BY DEF OperationInit, CaptureInit, Init, EffectInv, EffectOfCycle, Receipts,
     Position
<1>2. EffectInv => EffectMatchesIdentity
  BY DEF EffectInv, EffectOfReceipt, EffectMatchesIdentity, IsStats, EffectShown
<1> QED
  BY <1>1, <1>2, EffectInductive, PTL DEF OperationSpec

----------------------------------------------------------------------------
(***************************************************************************)
(* What the operation is worth.  Its calls are calls of the Engine, so the *)
(* invariants of the stores hold here too, whoever else calls; no step     *)
(* withdraws what the operation made.                                      *)
(***************************************************************************)

\* How many ids of the operation's kinds were issued.
IdsCounted == nextId["entity"] + nextId["claim"] + nextId["gap"] + nextId["evidence"]

\* Each id and the first closing of a gap took a revision of its own.
RevisionCounts ==
  /\ IdsCounted <= stateRevision
  /\ gapResolutions # EmptyMap => IdsCounted + 1 <= stateRevision

\* The rules the operation names are of the declared types.
LEMMA ConsumerRules ==
  /\ SentinelRule \in RuleKeys /\ SentinelRule[1] = NoRule /\ NoRule \in RuleIds
  /\ ReviewedRule \in RuleKeys
<1>1. SentinelRule \in RuleKeys /\ SentinelRule[1] = NoRule
  BY ConsumerAssumption DEF SentinelRule
<1>2. ReviewedRule \in RuleKeys
  BY ConsumerAssumption DEF ReviewedRule
<1>3. NoRule \in RuleIds
  BY <1>1 DEF RuleKeys
<1> QED
  BY <1>1, <1>2, <1>3

\* A step that issues an id, and one that issues none, moved the revision for it.
LEMMA CountIssued ==
  ASSUME RevisionCounts, NEW kind \in Kinds, AllocateId(kind),
         UNCHANGED gapResolutions, stateRevision \in Nat,
         stateRevision' = stateRevision + 1, nextId \in [Kinds -> Nat]
  PROVE  RevisionCounts'
  BY DEF RevisionCounts, IdsCounted, Kinds, AllocateId, NewId

\* The first closing of a gap moved the revision and issued no id.
LEMMA CountClosed ==
  ASSUME RevisionCounts, UNCHANGED nextId, stateRevision \in Nat,
         stateRevision' = stateRevision + 1, nextId \in [Kinds -> Nat]
  PROVE  RevisionCounts'
  BY DEF RevisionCounts, IdsCounted, Kinds

\* Any call that changes something moves the revision once.
LEMMA TypedCallMovesRevision ==
  ASSUME TypedCall
  PROVE  stateToken' = stateToken /\ stateRevision' = stateRevision + 1
<1> USE DEF AdvanceStateRevision
<1>1. CASE AddEntity
  BY <1>1 DEF AddEntity
<1>2. ASSUME NEW subject, NEW rule, NEW base, NEW status,
             AddClaim(subject, rule, base, status)
      PROVE  stateToken' = stateToken /\ stateRevision' = stateRevision + 1
  BY <1>2 DEF AddClaim
<1>3. ASSUME NEW claim, NEW type, NEW strength, AddEvidence(claim, type, strength)
      PROVE  stateToken' = stateToken /\ stateRevision' = stateRevision + 1
  BY <1>3 DEF AddEvidence
<1>4. ASSUME NEW rule, NEW maturity, RegisterRule(rule, maturity)
      PROVE  stateToken' = stateToken /\ stateRevision' = stateRevision + 1
  BY <1>4 DEF RegisterRule
<1>5. ASSUME NEW rule, NEW fired, NEW true, NEW false, NEW precision, NEW rate,
             UpdateRuleStats(rule, fired, true, false, precision, rate)
      PROVE  stateToken' = stateToken /\ stateRevision' = stateRevision + 1
  BY <1>5 DEF UpdateRuleStats
<1>6. ASSUME NEW claim, NEW type, NEW required, NEW severity, NEW rule,
             AddGap(claim, type, required, severity, rule)
      PROVE  stateToken' = stateToken /\ stateRevision' = stateRevision + 1
  BY <1>6 DEF AddGap
<1>7. ASSUME NEW evidence, ResolveGapsForEvidence(evidence)
      PROVE  stateToken' = stateToken /\ stateRevision' = stateRevision + 1
  BY <1>7 DEF ResolveGapsForEvidence
<1>8. ASSUME NEW claim, NEW to, NEW transition, Transit(claim, to, transition)
      PROVE  stateToken' = stateToken /\ stateRevision' = stateRevision + 1
  BY <1>8 DEF Transit
<1> QED
  BY <1>1, <1>2, <1>3, <1>4, <1>5, <1>6, <1>7, <1>8 DEF TypedCall

\* A call of the Engine, of the consumer's or of another caller's.
EngineCall == TypedCall \/ Next

\* So the ids never outrun the revision.
LEMMA CallKeepsCount ==
  ASSUME TypeOK, RevisionCounts, EngineCall
  PROVE  RevisionCounts'
<1> USE DEF gapStores, AdvanceStateRevision
<1>1. nextId \in [Kinds -> Nat] /\ stateRevision \in Nat
  BY DEF TypeOK, CounterTypes
<1>2. \/ \E kind \in Kinds : AllocateId(kind) /\ UNCHANGED gapResolutions
      \/ UNCHANGED nextId
  <2> USE DEF Kinds
  <2>1. CrudStep => \E kind \in Kinds : AllocateId(kind) /\ UNCHANGED gapResolutions
    BY DEF CrudStep, AddEntity, AddObservation, AddClaim, AddEvidence
  <2>2. RelationStep => \E kind \in Kinds : AllocateId(kind) /\ UNCHANGED gapResolutions
    BY DEF RelationStep, AddRelation
  <2>3. ASSUME NEW claim, NEW type, NEW required, NEW severity, NEW rule,
               AddGap(claim, type, required, severity, rule)
        PROVE  (\E kind \in Kinds : AllocateId(kind) /\ UNCHANGED gapResolutions)
               \/ UNCHANGED nextId
    BY <2>3 DEF AddGap, NewGap, ShareGap
  <2>4. RuleStep \/ ContradictionStep \/ HintStep => UNCHANGED nextId
    BY DEF RuleStep, RegisterRule, UpdateRuleStats, ContradictionStep,
       RegisterContradiction, RegisterContradictionResolution, HintStep,
       RegisterHintEvidenceTypes, UnregisterHintEvidenceTypes,
       ClearHintEvidenceTypes, SetHintEvidenceTypes
  <2>5. TransitionStep => UNCHANGED nextId
    BY TransitionStepIsTransit DEF Transit
  <2>6. GapStep => (\E kind \in Kinds : AllocateId(kind) /\ UNCHANGED gapResolutions)
                   \/ UNCHANGED nextId
    BY <2>3 DEF GapStep, ResolveGapsForEvidence
  <2>7. ASSUME TypedCall
        PROVE  (\E kind \in Kinds : AllocateId(kind) /\ UNCHANGED gapResolutions)
               \/ UNCHANGED nextId
    <3>1. CASE AddEntity
      BY <2>1, <3>1 DEF CrudStep
    <3>2. ASSUME NEW subject, NEW rule, NEW base, NEW status,
                 AddClaim(subject, rule, base, status)
          PROVE  AllocateId("claim") /\ UNCHANGED gapResolutions
      BY <3>2 DEF AddClaim
    <3>3. ASSUME NEW claim, NEW type, NEW strength, AddEvidence(claim, type, strength)
          PROVE  AllocateId("evidence") /\ UNCHANGED gapResolutions
      BY <3>3 DEF AddEvidence
    <3>4. ASSUME NEW rule, NEW maturity, RegisterRule(rule, maturity)
          PROVE  UNCHANGED nextId
      BY <3>4 DEF RegisterRule
    <3>5. ASSUME NEW rule, NEW fired, NEW true, NEW false, NEW precision, NEW rate,
                 UpdateRuleStats(rule, fired, true, false, precision, rate)
          PROVE  UNCHANGED nextId
      BY <3>5 DEF UpdateRuleStats
    <3>6. ASSUME NEW evidence, ResolveGapsForEvidence(evidence)
          PROVE  UNCHANGED nextId
      BY <3>6 DEF ResolveGapsForEvidence
    <3>7. ASSUME NEW claim, NEW to, NEW transition, Transit(claim, to, transition)
          PROVE  UNCHANGED nextId
      BY <3>7 DEF Transit
    <3> QED
      BY <2>3, <2>7, <3>1, <3>2, <3>3, <3>4, <3>5, <3>6, <3>7 DEF TypedCall
  <2> QED
    BY <2>1, <2>2, <2>4, <2>5, <2>6, <2>7 DEF EngineCall, Next
<1>3. stateRevision' = stateRevision + 1
  BY TypedCallMovesRevision, StepMovesRevision DEF EngineCall
<1> QED
  BY <1>1, <1>2, <1>3, CountIssued, CountClosed

\* What the k-th cycle of the reference operation answered.
Id(k) == op.receipts[k].result

\* The k-th call of the reference operation, on the answers of those before.
ReferenceCall(k, call) ==
  /\ k = 1 => call = [method |-> "add_entity"]
  /\ k = 2 => call = [method |-> "add_claim", subject |-> Id(1)]
  /\ k = 3 => call = [method |-> "add_gap", claim |-> Id(2)]
  /\ k = 4 => call = [method |-> "add_evidence", claim |-> Id(2)]
  /\ k = 5 => call = [method |-> "resolve_gaps_for_evidence", evidence |-> Id(4)]
  /\ k = 6 => call = [method |-> "confirm_claim_if_ready", claim |-> Id(2)]

\* What the k-th call has made, and nobody takes back.  A resolving call at
\* revision 4 is preceded by nothing but the operation's own four ids, so it
\* is the one that closes the gap.
Stands(k, r) ==
  /\ k = 1 => r.result \in entities
  /\ k = 2 => r.result \in DOMAIN claims /\ claims[r.result].subject = Id(1)
  /\ k = 3 => /\ <<Id(2), r.result>> \in claimGapRefs
              /\ gaps[r.result].required = AskedEvidenceType
  /\ k = 4 => /\ r.result \in DOMAIN evidences
              /\ evidences[r.result].claim = Id(2)
              /\ evidences[r.result].type = AskedEvidenceType
  /\ k = 5 => /\ Id(3) \in DOMAIN gapResolutions
              /\ r.invokedAt.revision = 4 => gapResolutions[Id(3)] = Id(4)
  /\ k = 6 => r.call.method = "confirm_claim_if_ready"
  /\ k = 6 /\ r.result =>
       /\ r.invokedAt.revision + 1 <= stateRevision
       /\ stateRevision = r.invokedAt.revision + 1 =>
            claims[Id(2)].status = "confirmed"

\* The cycle under way makes the call of its place and may rely on it.
CallFits ==
  cycle # NoCycle =>
    /\ {"call", "stage"} \subseteq DOMAIN cycle
    /\ IF op.procedure = "reference"
       THEN /\ Position < 6
            /\ ReferenceCall(Position + 1, cycle.call)
            /\ cycle.stage \in {"after", "receipt"} => Stands(Position + 1, cycle)
       ELSE cycle.call \in StatsCalls

\* The final reads, in their order, against what the receipts say.
FinalFits ==
  /\ \E n \in 0 .. 3 : DOMAIN op.final = {FinalOrder[i] : i \in 1 .. n}
  /\ DOMAIN op.final # {} => Position = 6
  /\ "gap_resolution" \in DOMAIN op.final =>
       op.final["gap_resolution"] = gapResolutions[Id(3)]
  /\ "claim_status" \in DOMAIN op.final /\ Id(6) =>
       op.final["claim_status"] = "confirmed"
         \/ op.receipts[6].invokedAt.revision + 1 < stateRevision
  /\ "final_engine_identity" \in DOMAIN op.final /\ Id(6) =>
       op.final["claim_status"] = "confirmed"
         \/ op.receipts[6].invokedAt.revision + 1
              < op.final["final_engine_identity"].revision
  /\ op.status = "COMPLETE_REFERENCE_OPERATION" =>
       DOMAIN op.final = {FinalOrder[i] : i \in 1 .. 3}

\* Every receipt closed so far stands.
ReceiptsFit ==
  op.procedure = "reference" =>
    /\ Position \in 0 .. 6
    /\ \A k \in 1 .. Position : Stands(k, op.receipts[k])
    /\ FinalFits

\* The inductive invariant of the outcome.
OutcomeInv ==
  /\ OperationInv /\ GapInv /\ RevisionCounts
  /\ {"procedure", "status", "receipts", "final"} \subseteq DOMAIN op
  /\ CallFits
  /\ ReceiptsFit

----------------------------------------------------------------------------
\* A call of the consumer is a call of the Engine with arguments of its types.
LEMMA PerformIsCall ==
  ASSUME NEW call, Perform(call),
         call.method = "update_rule_stats" => call \in StatsCalls
  PROVE  UNCHANGED vars \/ EngineCall
<1> USE ConsumerRules
<1>1. CASE AddEntity
  BY <1>1 DEF EngineCall, TypedCall
<1>2. CASE AddClaim(call.subject, SentinelRule, AskedConfidence, "candidate")
  BY <1>2 DEF EngineCall, TypedCall
<1>3. CASE AddGap(call.claim, AskedGapType, AskedEvidenceType, AskedSeverity, NoRule)
  BY <1>3, ConsumerAssumption DEF EngineCall, TypedCall
<1>4. CASE AddEvidence(call.claim, AskedEvidenceType, AskedStrength)
  BY <1>4, ConsumerAssumption DEF EngineCall, TypedCall
<1>5. CASE ResolveGapsForEvidence(call.evidence)
  BY <1>5 DEF EngineCall, TypedCall
<1>6. CASE ConfirmClaimIfReady(call.claim)
  <2>1. /\ call.claim \in DOMAIN claims
        /\ Transit(call.claim, "confirmed", "confirm_if_ready")
    BY <1>6 DEF ConfirmClaimIfReady, ReadyToConfirm, HasStatus
  <2>2. "confirmed" \in ClaimStatuses /\ "confirm_if_ready" \in Transitions
    BY DEF ClaimStatuses, Transitions
  <2> QED
    BY <2>1, <2>2 DEF EngineCall, TypedCall
<1>7. CASE /\ call.method = "update_rule_stats"
           /\ UpdateRuleStats(call.rule, call.firing, 0, 0, NoScore, NoScore)
  <2>1. call.rule \in RuleKeys /\ call.firing \in Int
    BY <1>7 DEF StatsCalls
  <2>2. PICK zero \in Int : zero = 0
    OBVIOUS
  <2>3. UpdateRuleStats(call.rule, call.firing, zero, zero, NoScore, NoScore)
    BY <1>7, <2>2
  <2> QED
    BY <2>1, <2>3, Zenon DEF EngineCall, TypedCall
<1> QED
  BY <1>1, <1>2, <1>3, <1>4, <1>5, <1>6, <1>7 DEF Perform

LEMMA OperationCalls ==
  ASSUME CallFits, [OperationNext]_operationVars, "procedure" \in DOMAIN op,
         op.procedure = "reference" => Position \in 0 .. 6
  PROVE  UNCHANGED vars \/ EngineCall
<1> USE DEF vars, cycleVars, operationVars
<1>1. CASE PrepareStats
  BY <1>1, ConsumerRules DEF PrepareStats, EngineCall, TypedCall, RuleMaturities
<1>2. CASE Invoke
  <2>1. cycle # NoCycle /\ Perform(cycle.call)
    BY <1>2 DEF Invoke, AtStage
  <2>2. op.procedure = "reference" => cycle.call.method # "update_rule_stats"
    BY <2>1 DEF CallFits, ReferenceCall
  <2> QED
    BY <2>1, <2>2, PerformIsCall DEF CallFits
<1>3. CASE OtherCall
  BY <1>3 DEF OtherCall, EngineCall
<1>4. OperationNext => UNCHANGED vars \/ PrepareStats \/ Invoke \/ OtherCall
  BY DEF OperationNext, OperationStep, ValidateRoles, BeginCycle, Materialize,
     CycleStep, Decide, Stage55, Stage6, Revalidate, ReadIdentityBefore, PreReadStats,
     ReadIdentityAfter, PostReadStats,
     EndCycle, Terminate, BeginLaneB, BeginCapture, ReadLaneB, Reading, ReadNext,
     CheckGap, EndLaneB, Discard, ReadFinal, Finish
<1> QED
  BY <1>1, <1>2, <1>3, <1>4

\* Whoever calls, the stores stay sound and nothing is withdrawn; and what the
\* identity does not show has not happened.
LEMMA CallKeepsStores ==
  ASSUME GapInv, RevisionCounts, UNCHANGED vars \/ EngineCall
  PROVE  /\ GapInv' /\ RevisionCounts' /\ RegisteredKept
         /\ stateRevision \in Nat /\ stateRevision' \in Nat
         /\ UNCHANGED vars \/ stateRevision' = stateRevision + 1
<1>1. TypeOK
  BY DEF GapInv, ReferenceInv
<1>2. GapInv' /\ RegisteredKept
  <2>1. CASE TypedCall
    BY <2>1, TypedCallKeepsGaps
  <2>2. CASE [Next]_vars
    BY <1>1, <2>2, GapInductive, StepKeeps
  <2> QED
    BY <2>1, <2>2 DEF EngineCall
<1>3. RevisionCounts'
  <2>1. UNCHANGED vars => RevisionCounts'
    BY DEF vars, gapStores, RevisionCounts, IdsCounted
  <2> QED
    BY <1>1, <2>1, CallKeepsCount
<1>4. EngineCall => stateRevision' = stateRevision + 1
  BY TypedCallMovesRevision, StepMovesRevision DEF EngineCall
<1>5. stateRevision \in Nat /\ stateRevision' \in Nat
  BY <1>1, <1>2 DEF GapInv, ReferenceInv, TypeOK, CounterTypes
<1> QED
  BY <1>2, <1>3, <1>4, <1>5

LEMMA StandsStill ==
  ASSUME GapInv, RevisionCounts, UNCHANGED vars \/ EngineCall, NEW k \in 1 .. 6,
         NEW r, \A j \in 1 .. (k - 1) : Id(j)' = Id(j),
         k = 6 => r.invokedAt.revision \in Nat, Stands(k, r)
  PROVE  Stands(k, r)'
<1>1. /\ RegisteredKept
      /\ stateRevision \in Nat /\ stateRevision' \in Nat
      /\ UNCHANGED vars \/ stateRevision' = stateRevision + 1
  BY CallKeepsStores
<1>2. TypeOK /\ ReferencesResolve
  BY DEF GapInv, ReferenceInv
<1> USE DEF Stands
<1>4. CASE k = 1
  BY <1>1, <1>4 DEF RegisteredKept
<1>5. CASE k = 2
  <2>1. Id(1)' = Id(1) /\ r.result \in DOMAIN claims
    BY <1>5
  <2>2. r.result \in DOMAIN claims' /\ claims'[r.result].subject = claims[r.result].subject
    BY <1>1, <1>2, <2>1, SubjectsKept DEF SubjectOf
  <2> QED
    BY <1>5, <2>1, <2>2
<1>6. CASE k = 3
  <2>1. /\ Id(2)' = Id(2)
        /\ <<Id(2), r.result>> \in claimGapRefs
        /\ gaps[r.result].required = AskedEvidenceType
    BY <1>6
  <2>2. r.result \in DOMAIN gaps
    BY <1>2, <2>1 DEF ReferencesResolve
  <2>3. gaps'[r.result] = gaps[r.result] /\ <<Id(2), r.result>> \in claimGapRefs'
    BY <1>1, <2>1, <2>2 DEF RegisteredKept, Kept
  <2> QED
    BY <1>6, <2>1, <2>3
<1>7. CASE k = 4
  <2>1. Id(2)' = Id(2) /\ r.result \in DOMAIN evidences
    BY <1>7
  <2>2. r.result \in DOMAIN evidences' /\ evidences'[r.result] = evidences[r.result]
    BY <1>1, <2>1 DEF RegisteredKept, Kept
  <2> QED
    BY <1>7, <2>1, <2>2
<1>8. CASE k = 5
  <2>1. Id(3)' = Id(3) /\ Id(4)' = Id(4) /\ Id(3) \in DOMAIN gapResolutions
    BY <1>8
  <2>2. Id(3) \in DOMAIN gapResolutions' /\ gapResolutions'[Id(3)] = gapResolutions[Id(3)]
    BY <1>1, <2>1 DEF RegisteredKept, Kept
  <2> QED
    BY <1>8, <2>1, <2>2
<1>9. CASE k = 6
  <2>1. Id(2)' = Id(2)
    BY <1>9
  <2>2. ASSUME r.result
        PROVE  /\ r.invokedAt.revision + 1 <= stateRevision'
               /\ stateRevision' = r.invokedAt.revision + 1 =>
                    claims'[Id(2)].status = "confirmed"
    <3>1. /\ r.invokedAt.revision + 1 <= stateRevision
          /\ stateRevision = r.invokedAt.revision + 1 =>
               claims[Id(2)].status = "confirmed"
      BY <1>9, <2>2
    <3>2. CASE UNCHANGED vars
      <4>1. claims' = claims /\ stateRevision' = stateRevision
        BY <3>2 DEF vars, crudStores
      <4> QED
        BY <3>1, <4>1
    <3>3. CASE stateRevision' = stateRevision + 1
      <4>1. r.invokedAt.revision \in Nat
        BY <1>9
      <4> QED
        BY <1>1, <3>1, <3>3, <4>1
    <3> QED
      BY <1>1, <3>2, <3>3
  <2> QED
    BY <1>9, <2>1, <2>2
<1> QED
  BY <1>4, <1>5, <1>6, <1>7, <1>8, <1>9

\* What each call of the operation makes, if it is made.
LEMMA InvokeStands ==
  ASSUME OutcomeInv, op.procedure = "reference", UNCHANGED op, Invoke,
         NEW r, r.call = cycle.call, r.result = Result(cycle.call),
         r.invokedAt = StateIdentity
  PROVE  Stands(Position + 1, r)'
<1>1. PICK k \in 1 .. 6 : k = Position + 1
  BY DEF OutcomeInv, ReceiptsFit, CallFits, Invoke, AtStage
<1>2. Position' = Position /\ \A j \in 1 .. 6 : Id(j)' = Id(j)
  BY DEF Position, Id
<1>3. PICK call : call = cycle.call
  OBVIOUS
<1>4. ReferenceCall(k, call) /\ Perform(call) /\ r.result = Result(call)
  BY <1>1, <1>3 DEF OutcomeInv, CallFits, Invoke, AtStage
<1>5. \A j \in 1 .. (k - 1) : Stands(j, op.receipts[j])
  BY <1>1 DEF OutcomeInv, ReceiptsFit
<1>6. TypeOK /\ ReferencesResolve /\ GapInv /\ RevisionCounts
  BY DEF OutcomeInv, GapInv, ReferenceInv
<1>7. nextId \in [Kinds -> Nat] /\ stateRevision \in Nat
  BY <1>6 DEF TypeOK, CounterTypes
<1>8. CASE k = 1
  <2>1. AddEntity /\ r.result = NewId("entity")
    <3>1. call.method = "add_entity"
      BY <1>4, <1>8 DEF ReferenceCall
    <3> QED
      BY <1>4, <3>1 DEF Perform, Result, Changes
  <2>2. r.result \in entities'
    BY <2>1 DEF AddEntity
  <2> QED
    BY <1>1, <1>2, <1>8, <2>2 DEF Stands
<1>9. CASE k = 2
  <2>1. /\ AddClaim(Id(1), SentinelRule, AskedConfidence, "candidate")
        /\ r.result = NewId("claim")
    <3>1. call.method = "add_claim" /\ call.subject = Id(1)
      BY <1>4, <1>9 DEF ReferenceCall
    <3> QED
      BY <1>4, <3>1 DEF Perform, Result, Changes
  <2>2. r.result \in DOMAIN claims' /\ claims'[r.result].subject = Id(1)
    BY <2>1 DEF AddClaim, Put
  <2> QED
    BY <1>1, <1>2, <1>9, <2>2 DEF Stands

<1>10. CASE k = 3
  <2>1. PICK claim, g : claim = Id(2) /\ g = r.result
    OBVIOUS
  <2>2. PICK key : key = GapKey(call)
    OBVIOUS
  <2>3. /\ call.method = "add_gap" /\ call.claim = claim
        /\ key = DedupKey(claim, NoRule, AskedGapType, AskedEvidenceType)
        /\ g = IF key \in DOMAIN gapDedupIndex THEN gapDedupIndex[key] ELSE NewId("gap")
    BY <1>4, <1>10, <2>1, <2>2 DEF ReferenceCall, Result, ReturnedGap, GapKey
  <2>4. \/ AddGap(claim, AskedGapType, AskedEvidenceType, AskedSeverity, NoRule)
        \/ <<claim, g>> \in claimGapRefs /\ UNCHANGED vars
    BY <1>4, <2>2, <2>3 DEF Perform, Changes, ReturnedGap, GapKey
  <2>5. CASE key \in DOMAIN gapDedupIndex
    <3>1. g \in DOMAIN gaps /\ KeyOfGap(g) = key
      BY <1>6, <2>3, <2>5 DEF GapInv, DedupIndexExact
    <3>2. gaps[g].required = AskedEvidenceType
      BY <2>3, <3>1 DEF KeyOfGap, DedupKey
    <3>3. <<claim, g>> \in claimGapRefs' /\ gaps' = gaps
      BY <2>3, <2>4, <2>5 DEF AddGap, ShareGap, vars, gapStores
    <3> QED
      BY <1>1, <1>2, <1>10, <2>1, <3>2, <3>3 DEF Stands
  <2>6. CASE key \notin DOMAIN gapDedupIndex
    <3>1. g = NewId("gap") /\ g \notin DOMAIN gaps
      BY <1>6, <2>3, <2>6, NewIdFresh DEF Kinds, StorageForKind
    <3>2. <<claim, g>> \notin claimGapRefs
      BY <1>6, <3>1 DEF ReferencesResolve
    <3>3. NewGap(claim, AskedGapType, AskedEvidenceType, AskedSeverity, NoRule)
      BY <2>3, <2>4, <2>6, <3>2 DEF AddGap
    <3>4. <<claim, g>> \in claimGapRefs' /\ gaps'[g].required = AskedEvidenceType
      BY <3>1, <3>3 DEF NewGap, Put
    <3> QED
      BY <1>1, <1>2, <1>10, <2>1, <3>4 DEF Stands
  <2> QED
    BY <2>5, <2>6
<1>11. CASE k = 4
  <2>1. AddEvidence(Id(2), AskedEvidenceType, AskedStrength) /\ r.result = NewId("evidence")
    <3>1. call.method = "add_evidence" /\ call.claim = Id(2)
      BY <1>4, <1>11 DEF ReferenceCall
    <3> QED
      BY <1>4, <3>1 DEF Perform, Result, Changes
  <2>2. /\ r.result \in DOMAIN evidences'
        /\ evidences'[r.result].claim = Id(2)
        /\ evidences'[r.result].type = AskedEvidenceType
    BY <2>1 DEF AddEvidence, Put
  <2> QED
    BY <1>1, <1>2, <1>11, <2>2 DEF Stands
<1>12. CASE k = 5
  <2>1. PICK evidence, g : evidence = Id(4) /\ g = Id(3)
    OBVIOUS
  <2>2. /\ Id(1) \in entities
        /\ Id(2) \in DOMAIN claims
        /\ <<Id(2), g>> \in claimGapRefs /\ gaps[g].required = AskedEvidenceType
        /\ evidence \in DOMAIN evidences
        /\ evidences[evidence].claim = Id(2)
        /\ evidences[evidence].type = AskedEvidenceType
    BY <1>5, <1>12, <2>1 DEF Stands, Id
  <2>3. g \in DOMAIN gaps
    BY <1>6, <2>2 DEF ReferencesResolve
  <2>4. g \notin DOMAIN gapResolutions => g \in GapsClosedBy(evidence)
    BY <2>2, <2>3 DEF GapsClosedBy, GapsForClaim
  <2>5. \/ ResolveGapsForEvidence(evidence)
        \/ GapsClosedBy(evidence) = {} /\ UNCHANGED vars
    BY <1>4, <1>12, <2>1 DEF ReferenceCall, Perform, Changes
  <2>6. /\ g \in DOMAIN gapResolutions'
        /\ g \notin DOMAIN gapResolutions => gapResolutions'[g] = evidence
    BY <2>4, <2>5 DEF ResolveGapsForEvidence, vars, gapStores
  <2>7. stateRevision = 4 => g \notin DOMAIN gapResolutions
    <3>1. /\ nextId["entity"] >= 1 /\ nextId["claim"] >= 1
          /\ nextId["gap"] >= 1 /\ nextId["evidence"] >= 1
      BY <1>6, <1>7, <2>2, <2>3 DEF TypeOK, IdsIssued, StorageForKind, Kinds
    <3>2. IdsCounted >= 4
      BY <1>7, <3>1 DEF IdsCounted, Kinds
    <3>3. stateRevision = 4 => gapResolutions = EmptyMap
      BY <1>6, <1>7, <3>2 DEF RevisionCounts, IdsCounted, Kinds
    <3> QED
      BY <3>3 DEF EmptyMap
  <2>8. r.invokedAt.revision = stateRevision
    BY DEF StateIdentity
  <2> QED
    BY <1>1, <1>2, <1>12, <2>1, <2>6, <2>7, <2>8 DEF Stands
<1>13. CASE k = 6
  <2>1. PICK claim : claim = Id(2)
    OBVIOUS
  <2>2. call.method = "confirm_claim_if_ready" /\ call.claim = claim
    BY <1>4, <1>13, <2>1 DEF ReferenceCall
  <2>3. r.result = ReadyToConfirm(claim)
    BY <1>4, <2>2 DEF Result
  <2>4. ConfirmClaimIfReady(claim) \/ ~ReadyToConfirm(claim)
    BY <1>4, <2>2 DEF Perform, Changes
  <2>5. ASSUME ConfirmClaimIfReady(claim)
        PROVE  claims'[claim].status = "confirmed" /\ stateRevision' = stateRevision + 1
    <3>1. claim \in DOMAIN claims /\ Transit(claim, "confirmed", "confirm_if_ready")
      BY <2>5 DEF ConfirmClaimIfReady, ReadyToConfirm, HasStatus
    <3>2. "status" \in DOMAIN claims[claim]
      BY <1>6, <3>1 DEF TypeOK, CrudTypes, ClaimRecord
    <3> QED
      BY <3>1, <3>2 DEF Transit, AdvanceStateRevision
  <2>6. r.invokedAt.revision = stateRevision
    BY DEF StateIdentity
  <2>7. r.result => /\ r.invokedAt.revision + 1 <= stateRevision'
                    /\ claims'[claim].status = "confirmed"
    BY <1>7, <2>3, <2>4, <2>5, <2>6
  <2> QED
    BY <1>1, <1>2, <1>3, <1>13, <2>1, <2>2, <2>7 DEF Stands
<1> QED
  BY <1>8, <1>9, <1>10, <1>11, <1>12, <1>13

\* What the receipts and the final block say stands while nobody adds to them.
LEMMA ReceiptsStandStill ==
  ASSUME OutcomeInv, [OperationNext]_operationVars, op.procedure = "reference",
         NEW k \in 1 .. Position, op'.receipts[k] = op.receipts[k],
         \A j \in 1 .. (k - 1) : Id(j)' = Id(j)
  PROVE  Stands(k, op.receipts[k])'
<1>1. PICK r : r = op.receipts[k]
  OBVIOUS
<1>2. k \in 1 .. 6 /\ Stands(k, r)
  BY <1>1 DEF OutcomeInv, ReceiptsFit
<1>3. InOrder(r)
  BY <1>1 DEF OutcomeInv, OperationInv, ReceiptInv, Receipts
<1>4. r.invokedAt.revision \in Nat
  BY <1>3 DEF InOrder, IsIdentity
<1>5. UNCHANGED vars \/ EngineCall
  BY OperationCalls DEF OutcomeInv, ReceiptsFit
<1>6. Stands(k, r)'
  BY <1>2, <1>4, <1>5, StandsStill DEF OutcomeInv
<1> QED
  BY <1>1, <1>6

LEMMA FinalStands ==
  ASSUME OutcomeInv, [OperationNext]_operationVars, op.procedure = "reference",
         op'.receipts = op.receipts, op'.final = op.final,
         op'.status = op.status
           \/ (op'.status = "COMPLETE_REFERENCE_OPERATION" =>
                 DOMAIN op.final = {FinalOrder[i] : i \in 1 .. 3})
  PROVE  FinalFits'
<1>1. /\ RegisteredKept
      /\ stateRevision \in Nat /\ stateRevision' \in Nat
      /\ stateRevision <= stateRevision'
  <2>1. UNCHANGED vars \/ EngineCall
    BY OperationCalls DEF OutcomeInv, ReceiptsFit
  <2>2. /\ RegisteredKept
        /\ stateRevision \in Nat /\ stateRevision' \in Nat
        /\ UNCHANGED vars \/ stateRevision' = stateRevision + 1
    BY <2>1, CallKeepsStores DEF OutcomeInv
  <2> QED
    BY <2>2 DEF vars
<1>2. Position' = Position /\ \A j \in 1 .. 6 : Id(j)' = Id(j)
  BY DEF Position, Id
<1>3. FinalFits
  BY DEF OutcomeInv, ReceiptsFit
<1>4. Position = 6 => Id(3) \in DOMAIN gapResolutions
  BY DEF OutcomeInv, ReceiptsFit, Stands
<1>5. Position = 6 => gapResolutions'[Id(3)] = gapResolutions[Id(3)]
  BY <1>1, <1>4 DEF RegisteredKept, Kept
<1>6. Position = 6 => op.receipts[6].invokedAt.revision \in Nat
  <2>1. Position = 6 => op.receipts[6] \in Receipts
    BY DEF Receipts
  <2>2. \A receipt \in Receipts : receipt.invokedAt.revision \in Nat
    BY DEF OutcomeInv, OperationInv, ReceiptInv, InOrder, IsIdentity
  <2> QED
    BY <2>1, <2>2
<1>7. DOMAIN op.final # {} => Position = 6
  BY <1>3 DEF FinalFits
<1>8. /\ \E n \in 0 .. 3 : DOMAIN op'.final = {FinalOrder[i] : i \in 1 .. n}
      /\ op'.status = "COMPLETE_REFERENCE_OPERATION" =>
           DOMAIN op'.final = {FinalOrder[i] : i \in 1 .. 3}
  BY <1>3 DEF FinalFits
<1>9. "gap_resolution" \in DOMAIN op'.final =>
        op'.final["gap_resolution"] = gapResolutions'[Id(3)']
  BY <1>2, <1>3, <1>5, <1>7 DEF FinalFits
<1>10. "claim_status" \in DOMAIN op'.final /\ Id(6)' =>
         op'.final["claim_status"] = "confirmed"
           \/ op'.receipts[6].invokedAt.revision + 1 < stateRevision'
  BY <1>1, <1>2, <1>3, <1>6, <1>7 DEF FinalFits
<1>11. "final_engine_identity" \in DOMAIN op'.final /\ Id(6)' =>
         op'.final["claim_status"] = "confirmed"
           \/ op'.receipts[6].invokedAt.revision + 1
                < op'.final["final_engine_identity"].revision
  BY <1>2, <1>3 DEF FinalFits
<1> QED
  BY <1>2, <1>7, <1>8, <1>9, <1>10, <1>11 DEF FinalFits, FinalOrder

\* A step that adds no receipt and reads no outcome.
LEMMA OtherStepsKeepFit ==
  ASSUME OutcomeInv, [OperationNext]_operationVars,
         op'.receipts = op.receipts, op'.procedure = op.procedure,
         op'.final = op.final,
         op'.status = op.status
           \/ (op'.status = "COMPLETE_REFERENCE_OPERATION" /\ op.procedure = "reference"
                => DOMAIN op.final = {FinalOrder[i] : i \in 1 .. 3})
  PROVE  ReceiptsFit'
<1> SUFFICES ASSUME op.procedure = "reference"
             PROVE  ReceiptsFit'
  BY DEF ReceiptsFit
<1>1. Position' = Position /\ \A j : Id(j)' = Id(j)
  BY DEF Position, Id
<1>2. \A k \in 1 .. Position : Stands(k, op.receipts[k])'
  BY <1>1, ReceiptsStandStill
<1> QED
  BY <1>1, <1>2, FinalStands DEF OutcomeInv, ReceiptsFit

LEMMA WaitKeepsCall ==
  ASSUME OutcomeInv, [OperationNext]_operationVars, UNCHANGED cycle,
         op'.receipts = op.receipts, op'.procedure = op.procedure
  PROVE  CallFits'
<1> SUFFICES ASSUME cycle # NoCycle
             PROVE  CallFits'
  BY DEF CallFits
<1>1. /\ Position' = Position
      /\ \A j : Id(j)' = Id(j)
      /\ StatsCalls' = StatsCalls
  BY DEF Position, Id, StatsCalls
<1>2. ASSUME op.procedure = "reference", cycle.stage \in {"after", "receipt"}
      PROVE  Stands(Position + 1, cycle)'
  <2>1. PICK r : r = cycle
    OBVIOUS
  <2>2. PICK k \in 1 .. 6 : k = Position + 1
    BY <1>2 DEF OutcomeInv, ReceiptsFit, CallFits
  <2>3. Stands(k, r)
    BY <1>2, <2>1, <2>2 DEF OutcomeInv, CallFits
  <2>4. r.invokedAt.revision \in Nat
    BY <1>2, <2>1 DEF OutcomeInv, OperationInv, CycleInv, Closed, InOrder, IsIdentity
  <2>5. UNCHANGED vars \/ EngineCall
    BY OperationCalls DEF OutcomeInv, ReceiptsFit
  <2>6. Stands(k, r)'
    BY <1>1, <2>3, <2>4, <2>5, StandsStill DEF OutcomeInv
  <2> QED
    BY <1>1, <2>1, <2>2, <2>6
<1>3. op.procedure = "reference" => ReferenceCall(Position + 1, cycle.call)'
  BY <1>1 DEF OutcomeInv, CallFits, ReferenceCall
<1> QED
  BY <1>1, <1>2, <1>3 DEF OutcomeInv, CallFits

LEMMA BeginFits ==
  ASSUME OutcomeInv, BeginCycle
  PROVE  CallFits'
<1>1. UNCHANGED op
  BY DEF BeginCycle
<1>2. /\ Position' = Position
      /\ \A j : Id(j)' = Id(j)
      /\ StatsCalls' = StatsCalls
  BY <1>1 DEF Position, Id, StatsCalls
<1>3. PICK call : Materialize(call) /\ IF op.procedure = "reference"
                                       THEN Position < 6 /\ call = Cycles[Position + 1]
                                       ELSE call \in StatsCalls
  <2>1. CASE op.procedure = "reference"
    <3>1. Position \in 0 .. 6
      BY <2>1 DEF OutcomeInv, ReceiptsFit
    <3>2. Materialize(Cycles[Position + 1])
      BY <2>1 DEF BeginCycle
    <3>3. Position < IF op.at = "lane_a" THEN 3 ELSE 6
      BY <2>1 DEF BeginCycle
    <3>4. Position < 6
      BY <3>1, <3>3
    <3> QED
      BY <2>1, <3>2, <3>4
  <2>2. CASE op.procedure # "reference"
    BY <2>2 DEF BeginCycle
  <2> QED
    BY <2>1, <2>2
<1>4. /\ cycle'.call = call
      /\ cycle'.stage = "decide"
      /\ {"call", "stage"} \subseteq DOMAIN cycle'
  BY <1>3 DEF Materialize
<1>5. ASSUME op.procedure = "reference"
      PROVE  ReferenceCall(Position + 1, call)
  <2>1. PICK k \in 1 .. 6 : k = Position + 1
    BY <1>3, <1>5 DEF OutcomeInv, ReceiptsFit
  <2>2. call = Cycles[k]
    BY <1>3, <1>5, <2>1
  <2>3. /\ k >= 2 => ProducedIds.entity_id = Id(1)
        /\ k >= 3 => ProducedIds.claim_id = Id(2)
        /\ k >= 5 => ProducedIds.evidence_id = Id(4)
    BY <1>3, <1>5, <2>1 DEF ProducedIds, Id, OutcomeInv, ReceiptsFit
  <2>4. ReferenceCall(k, call)
    BY <2>2, <2>3 DEF Cycles, ReferenceCall
  <2> QED
    BY <2>1, <2>4
<1>6. op.procedure = "reference" => ReferenceCall(Position + 1, cycle.call)'
  BY <1>2, <1>4, <1>5 DEF ReferenceCall
<1> QED
  BY <1>1, <1>2, <1>3, <1>4, <1>6 DEF CallFits

LEMMA CycleStepFits ==
  ASSUME OutcomeInv, CycleStep, UNCHANGED op
  PROVE  CallFits'
<1>1. /\ Position' = Position
      /\ \A j : Id(j)' = Id(j)
      /\ StatsCalls' = StatsCalls
  BY DEF Position, Id, StatsCalls
<1>2. cycle # NoCycle
  BY DEF CycleStep, Decide, Stage55, Stage6, Revalidate, ReadIdentityBefore,
     PreReadStats, Invoke, ReadIdentityAfter, PostReadStats, AtStage
<1>3. PICK c, stats, result, stage, now :
        /\ c = cycle /\ stats = ruleStats[cycle.call.rule]
        /\ result = Result(cycle.call) /\ now = StateIdentity
        /\ stage = IF "statsBefore" \in DOMAIN cycle THEN "post_read" ELSE "receipt"
  OBVIOUS
<1>4. {"call", "stage"} \subseteq DOMAIN c
  BY <1>2, <1>3 DEF OutcomeInv, CallFits
<1>5. ASSUME op.procedure = "reference"
      PROVE  c.call.method # "update_rule_stats" /\ Position + 1 \in 1 .. 6
  BY <1>2, <1>3, <1>5 DEF OutcomeInv, CallFits, ReceiptsFit, ReferenceCall
<1>6. ASSUME cycle'.call = c.call, {"call", "stage"} \subseteq DOMAIN cycle',
             op.procedure = "reference" /\ cycle'.stage \in {"after", "receipt"} =>
               Stands(Position + 1, cycle)'
      PROVE  CallFits'
  <2>1. op.procedure = "reference" => ReferenceCall(Position + 1, cycle.call)'
    BY <1>1, <1>2, <1>3, <1>6 DEF OutcomeInv, CallFits, ReferenceCall
  <2>2. op.procedure # "reference" => cycle'.call \in StatsCalls'
    BY <1>1, <1>2, <1>3, <1>6 DEF OutcomeInv, CallFits
  <2>3. op.procedure = "reference" => Position' < 6
    BY <1>1, <1>2 DEF OutcomeInv, CallFits
  <2> QED
    BY <1>1, <1>6, <2>1, <2>2, <2>3 DEF CallFits
<1>7. ASSUME NEW disposition, Decide(disposition)
      PROVE  CallFits'
  <2>1. /\ cycle'.call = c.call
        /\ {"call", "stage"} \subseteq DOMAIN cycle'
        /\ cycle'.stage \notin {"after", "receipt"}
    BY <1>3, <1>7 DEF Decide
  <2> QED
    BY <1>6, <2>1
<1>8. CASE Stage55 \/ Stage6
  <2>1. PICK next \in {"stage_6", "before", "stage_5_5_materialization",
                       "stage_6_invocation"} : cycle' = [c EXCEPT !.stage = next]
    BY <1>3, <1>8 DEF Stage55, Stage6, Revalidate
  <2>2. /\ cycle'.call = c.call
        /\ {"call", "stage"} \subseteq DOMAIN cycle'
        /\ cycle'.stage \notin {"after", "receipt"}
    BY <1>4, <2>1
  <2> QED
    BY <1>6, <2>2
<1>9. CASE ReadIdentityBefore
  <2>1. /\ cycle'.call = c.call
        /\ {"call", "stage"} \subseteq DOMAIN cycle'
        /\ cycle'.stage \notin {"after", "receipt"}
    BY <1>3, <1>9 DEF ReadIdentityBefore
  <2> QED
    BY <1>6, <2>1
<1>10. CASE PreReadStats
  <2>1. \/ cycle' = [c EXCEPT !.stage = "rejected"]
        \/ cycle' = Put([c EXCEPT !.stage = "invoke"], "statsBefore", stats)
    BY <1>3, <1>10 DEF PreReadStats
  <2>2. /\ cycle'.call = c.call
        /\ {"call", "stage"} \subseteq DOMAIN cycle'
        /\ cycle'.stage \notin {"after", "receipt"}
    BY <1>4, <2>1 DEF Put
  <2> QED
    BY <1>6, <2>2
<1>11. CASE Invoke
  <2>1. cycle' = Put(Put([c EXCEPT !.stage = "after"], "result", result),
                     "invokedAt", now)
    BY <1>3, <1>11 DEF Invoke
  <2>2. /\ cycle'.call = c.call
        /\ {"call", "stage"} \subseteq DOMAIN cycle'
        /\ cycle'.result = result
        /\ cycle'.invokedAt = now
    BY <1>4, <2>1 DEF Put
  <2>3. PICK r : r = cycle'
    OBVIOUS
  <2>4. op.procedure = "reference" => Stands(Position + 1, r)'
    BY <1>3, <1>11, <2>2, <2>3, InvokeStands
  <2> QED
    BY <1>6, <2>2, <2>3, <2>4
<1>12. CASE ReadIdentityAfter
  <2>1. cycle' = Put([c EXCEPT !.stage = stage], "after", now) /\ c.stage = "after"
    BY <1>3, <1>12 DEF ReadIdentityAfter, AtStage
  <2>2. {"result", "invokedAt"} \subseteq DOMAIN c
    BY <1>2, <1>3, <2>1 DEF OutcomeInv, OperationInv, CycleInv
  <2>3. /\ cycle'.call = c.call
        /\ {"call", "stage"} \subseteq DOMAIN cycle'
        /\ cycle'.result = c.result
        /\ cycle'.invokedAt = c.invokedAt
    BY <1>4, <2>1, <2>2 DEF Put
  <2>4. op.procedure = "reference" => Stands(Position + 1, c)
    BY <1>2, <1>3, <2>1 DEF OutcomeInv, CallFits
  <2>5. UNCHANGED <<entities, claims, evidences, gaps, claimGapRefs, gapResolutions,
                    stateRevision>>
    BY <1>12 DEF ReadIdentityAfter, vars, crudStores, gapStores
  <2>6. op.procedure = "reference" => Stands(Position + 1, cycle)'
    BY <1>1, <2>3, <2>4, <2>5 DEF Stands
  <2> QED
    BY <1>6, <2>3, <2>6
<1>13. CASE PostReadStats
  <2>1. /\ c.stage = "post_read"
        /\ c.call.method = "update_rule_stats"
    BY <1>2, <1>3, <1>13 DEF PostReadStats, AtStage, OutcomeInv, OperationInv,
       CycleInv, Closed
  <2>2. /\ cycle'.call = c.call
        /\ {"call", "stage"} \subseteq DOMAIN cycle'
    BY <1>3, <1>4, <1>13 DEF PostReadStats
  <2> QED
    BY <1>5, <1>6, <2>1, <2>2
<1> QED
  BY <1>7, <1>8, <1>9, <1>10, <1>11, <1>12, <1>13 DEF CycleStep

LEMMA EndCycleFits ==
  ASSUME OutcomeInv, EndCycle
  PROVE  ReceiptsFit'
<1>1. PICK c, receipts, p : c = cycle /\ receipts = op.receipts /\ p = Position
  OBVIOUS
<1>2. /\ cycle # NoCycle /\ c.stage = "receipt"
      /\ op' = [op EXCEPT !.receipts = Append(receipts, c)]
      /\ [OperationNext]_operationVars
  BY <1>1 DEF EndCycle, AtStage, OperationNext, OperationStep
<1>3. /\ op'.receipts = Append(receipts, c)
      /\ op'.procedure = op.procedure
      /\ op'.final = op.final
      /\ op'.status = op.status
  BY <1>2 DEF OutcomeInv
<1> SUFFICES ASSUME op.procedure = "reference"
             PROVE  ReceiptsFit'
  BY <1>3 DEF ReceiptsFit
<1>4. /\ receipts \in Seq(Receipts) /\ p = Len(receipts) /\ p \in 0 .. 5
  BY <1>1, <1>2 DEF OutcomeInv, OperationInv, ReceiptInv, Position, ReceiptsFit, CallFits
<1>5. /\ Position' = p + 1
      /\ \A j \in 1 .. p : op'.receipts[j] = receipts[j]
      /\ op'.receipts[p + 1] = c
  <2>1. receipts \in Seq(Receipts \cup {c}) /\ c \in Receipts \cup {c}
    BY <1>4
  <2> QED
    BY <1>3, <1>4, <2>1 DEF Position
<1>6. \A j \in 1 .. p : Id(j)' = Id(j)
  BY <1>1, <1>5 DEF Id
<1>7. \A k \in 1 .. p : Stands(k, op.receipts[k])'
  <2> TAKE k \in 1 .. p
  <2>1. /\ k \in 1 .. Position
        /\ op'.receipts[k] = op.receipts[k]
        /\ \A j \in 1 .. (k - 1) : Id(j)' = Id(j)
    BY <1>1, <1>4, <1>5, <1>6
  <2> QED
    BY <1>2, <2>1, ReceiptsStandStill
<1>8. Stands(p + 1, c)'
  <2>1. p + 1 \in 1 .. 6 /\ Stands(p + 1, c)
    BY <1>1, <1>2, <1>4 DEF OutcomeInv, CallFits
  <2>2. c.invokedAt.revision \in Nat
    BY <1>1, <1>2 DEF OutcomeInv, OperationInv, CycleInv, Closed, InOrder, IsIdentity
  <2>3. UNCHANGED vars \/ EngineCall
    BY <1>2, OperationCalls DEF OutcomeInv, ReceiptsFit
  <2>4. \A j \in 1 .. ((p + 1) - 1) : Id(j)' = Id(j)
    BY <1>4, <1>6
  <2> QED
    BY <2>1, <2>2, <2>3, <2>4, StandsStill DEF OutcomeInv
<1>9. \A k \in 1 .. Position' : Stands(k, op.receipts[k])'
  <2> TAKE k \in 1 .. Position'
  <2>1. CASE k \in 1 .. p
    BY <1>7, <2>1
  <2>2. CASE k = p + 1
    BY <1>5, <1>8, <2>2
  <2> QED
    BY <1>4, <1>5, <2>1, <2>2
<1>10. FinalFits'
  <2>1. FinalFits
    BY DEF OutcomeInv, ReceiptsFit
  <2>2. Position # 6
    <3>1. p \in 0 .. 5 /\ p = Position
      BY <1>1, <1>4
    <3> QED
      BY <3>1
  <2>3. DOMAIN op.final = {}
    BY <2>1, <2>2 DEF FinalFits
  <2> QED
    BY <1>3, <2>1, <2>3 DEF FinalFits, FinalOrder
<1>11. Position' \in 0 .. 6
  <2>1. p \in 0 .. 5 /\ Position' = p + 1
    BY <1>4, <1>5
  <2> QED
    BY <2>1
<1> QED
  BY <1>9, <1>10, <1>11 DEF ReceiptsFit

LEMMA FinalCount ==
  ASSUME NEW n \in 0 .. 3
  PROVE  Cardinality({FinalOrder[i] : i \in 1 .. n}) = n
<1>1. /\ Cardinality({}) = 0
      /\ Cardinality({"claim_status"}) = 1
      /\ Cardinality({"claim_status", "gap_resolution"}) = 2
      /\ Cardinality({"claim_status", "gap_resolution", "final_engine_identity"}) = 3
  <2>1. IsFiniteSet({}) /\ Cardinality({}) = 0
    BY FS_EmptySet
  <2>2. /\ IsFiniteSet({} \cup {"claim_status"})
        /\ Cardinality({} \cup {"claim_status"}) = 1
    BY <2>1, FS_AddElement
  <2>3. {"claim_status"} = {} \cup {"claim_status"}
    OBVIOUS
  <2>4. /\ IsFiniteSet({"claim_status"} \cup {"gap_resolution"})
        /\ Cardinality({"claim_status"} \cup {"gap_resolution"}) = 2
    BY <2>2, <2>3, FS_AddElement
  <2>5. {"claim_status", "gap_resolution"} = {"claim_status"} \cup {"gap_resolution"}
    OBVIOUS
  <2>6. Cardinality({"claim_status", "gap_resolution"} \cup {"final_engine_identity"}) = 3
    BY <2>4, <2>5, FS_AddElement
  <2>7. {"claim_status", "gap_resolution", "final_engine_identity"}
          = {"claim_status", "gap_resolution"} \cup {"final_engine_identity"}
    OBVIOUS
  <2> QED
    BY <2>1, <2>2, <2>3, <2>4, <2>5, <2>6, <2>7
<1>2. /\ n = 0 => {FinalOrder[i] : i \in 1 .. n} = {}
      /\ n = 1 => {FinalOrder[i] : i \in 1 .. n} = {"claim_status"}
      /\ n = 2 => {FinalOrder[i] : i \in 1 .. n} = {"claim_status", "gap_resolution"}
      /\ n = 3 => {FinalOrder[i] : i \in 1 .. n}
                    = {"claim_status", "gap_resolution", "final_engine_identity"}
  BY DEF FinalOrder
<1> QED
  BY <1>1, <1>2

\* The identity is read last, so it is no older than the answers before it.
LEMMA ReadFinalFits ==
  ASSUME OutcomeInv, ReadFinal
  PROVE  ReceiptsFit'
<1> SUFFICES ASSUME op.procedure = "reference"
             PROVE  ReceiptsFit'
  BY DEF ReceiptsFit, ReadFinal, OutcomeInv
<1>1. FinalFits /\ Position = 6 /\ [OperationNext]_operationVars
  BY DEF OutcomeInv, ReceiptsFit, ReadFinal, OperationNext, OperationStep
<1>2. PICK n \in 0 .. 3 : DOMAIN op.final = {FinalOrder[i] : i \in 1 .. n}
  BY <1>1 DEF FinalFits
<1>3. PICK final, answer : final = op.final /\ answer = FinalAnswer(FinalOrder[n + 1])
  OBVIOUS
<1>4. /\ n < 3
      /\ op' = [op EXCEPT !.final = Put(final, FinalOrder[n + 1], answer)]
      /\ UNCHANGED vars
  BY <1>2, <1>3, FinalCount DEF ReadFinal, FinalOrder, cycleVars
<1>5. /\ op'.final = Put(final, FinalOrder[n + 1], answer)
      /\ op'.receipts = op.receipts
      /\ op'.procedure = op.procedure
      /\ op'.status = op.status
      /\ op.status = "running"
  BY <1>4 DEF OutcomeInv, ReadFinal, Running
<1>6. Position' = Position /\ \A j : Id(j)' = Id(j)
  BY <1>5 DEF Position, Id
<1>7. \A k \in 1 .. Position : Stands(k, op.receipts[k])'
  BY <1>1, <1>5, <1>6, ReceiptsStandStill
<1>8. /\ Stands(5, op.receipts[5])
      /\ Stands(6, op.receipts[6])
      /\ op.receipts[6].invokedAt.revision \in Nat
  <2>1. op.receipts[6] \in Receipts
    BY <1>1 DEF Receipts
  <2>2. InOrder(op.receipts[6])
    BY <2>1 DEF OutcomeInv, OperationInv, ReceiptInv
  <2> QED
    BY <1>1, <2>2 DEF OutcomeInv, ReceiptsFit, InOrder, IsIdentity
<1>9. UNCHANGED <<claims, gapResolutions, stateRevision>> /\ stateRevision \in Nat
  BY <1>4 DEF vars, crudStores, gapStores, OutcomeInv, OperationInv
<1>10. FinalFits'
  <2>1. \E m \in 0 .. 3 : DOMAIN op'.final = {FinalOrder[i] : i \in 1 .. m}
    <3>1. n + 1 \in 0 .. 3
      BY <1>4
    <3>2. DOMAIN op'.final = DOMAIN final \cup {FinalOrder[n + 1]}
      BY <1>5 DEF Put
    <3>3. {FinalOrder[i] : i \in 1 .. (n + 1)}
            = {FinalOrder[i] : i \in 1 .. n} \cup {FinalOrder[n + 1]}
      OBVIOUS
    <3> QED
      BY <1>2, <1>3, <3>1, <3>2, <3>3
  <2>2. CASE n = 0
    <3>1. answer = claims[Id(2)].status
      BY <1>1, <1>3, <2>2 DEF FinalAnswer, FinalOrder, ProducedIds, Id
    <3>2. Id(6) => answer = "confirmed"
                     \/ op.receipts[6].invokedAt.revision + 1 < stateRevision
      BY <1>8, <1>9, <3>1 DEF Stands, Id
    <3>3. DOMAIN op'.final = {"claim_status"} /\ op'.final["claim_status"] = answer
      BY <1>2, <1>3, <1>5, <2>2 DEF Put, FinalOrder
    <3>4. Id(6)' => Id(6) /\ UNCHANGED stateRevision
      BY <1>5, <1>9 DEF Id
    <3> QED
      BY <1>1, <1>5, <1>6, <2>1, <3>2, <3>3, <3>4 DEF FinalFits
  <2>3. CASE n = 1
    <3>1. answer = gapResolutions[Id(3)]
      BY <1>1, <1>3, <1>8, <2>3 DEF FinalAnswer, FinalOrder, ProducedIds, Id, Stands
    <3>2. /\ DOMAIN op'.final = {"claim_status", "gap_resolution"}
          /\ op'.final["claim_status"] = final["claim_status"]
          /\ op'.final["gap_resolution"] = answer
      BY <1>2, <1>3, <1>5, <2>3 DEF Put, FinalOrder
    <3>3. Id(6) => final["claim_status"] = "confirmed"
                     \/ op.receipts[6].invokedAt.revision + 1 < stateRevision
      BY <1>1, <1>2, <1>3, <2>3 DEF FinalFits, FinalOrder
    <3>4. answer = gapResolutions'[Id(3)']
      BY <1>6, <1>9, <3>1
    <3>5. Id(6)' => Id(6) /\ UNCHANGED stateRevision
      BY <1>5, <1>9 DEF Id
    <3> QED
      BY <1>1, <1>5, <1>6, <2>1, <3>2, <3>3, <3>4, <3>5 DEF FinalFits
  <2>4. CASE n = 2
    <3>1. answer.revision = stateRevision
      BY <1>3, <2>4 DEF FinalAnswer, FinalOrder, StateIdentity
    <3>2. /\ DOMAIN final = {"claim_status", "gap_resolution"}
          /\ DOMAIN op'.final
               = {"claim_status", "gap_resolution", "final_engine_identity"}
          /\ op'.final["claim_status"] = final["claim_status"]
          /\ op'.final["gap_resolution"] = final["gap_resolution"]
          /\ op'.final["final_engine_identity"] = answer
      BY <1>2, <1>3, <1>5, <2>4 DEF Put, FinalOrder
    <3>3. /\ final["gap_resolution"] = gapResolutions[Id(3)]
          /\ Id(6) => final["claim_status"] = "confirmed"
                        \/ op.receipts[6].invokedAt.revision + 1 < stateRevision
      BY <1>1, <1>3, <3>2 DEF FinalFits
    <3>4. gapResolutions'[Id(3)'] = gapResolutions[Id(3)]
      BY <1>6, <1>9
    <3>5. Id(6)' => Id(6) /\ UNCHANGED stateRevision
      BY <1>5, <1>9 DEF Id
    <3> QED
      BY <1>1, <1>5, <1>6, <2>1, <3>1, <3>2, <3>3, <3>4, <3>5 DEF FinalFits
  <2> QED
    BY <1>4, <2>2, <2>3, <2>4
<1> QED
  BY <1>1, <1>5, <1>6, <1>7, <1>10 DEF ReceiptsFit

LEMMA OutcomeInductive == OutcomeInv /\ [OperationNext]_operationVars => OutcomeInv'
<1> SUFFICES ASSUME OutcomeInv, [OperationNext]_operationVars
             PROVE  OutcomeInv'
  OBVIOUS
<1> USE DEF vars, cycleVars, operationVars
<1>1. OperationInv' /\ GapInv' /\ RevisionCounts'
  <2>1. UNCHANGED vars \/ EngineCall
    BY OperationCalls DEF OutcomeInv, ReceiptsFit
  <2>2. GapInv' /\ RevisionCounts'
    BY <2>1, CallKeepsStores DEF OutcomeInv
  <2> QED
    BY <2>2, OperationInductive DEF OutcomeInv
<1>2. ASSUME DOMAIN op' = DOMAIN op, CallFits', ReceiptsFit'
      PROVE  OutcomeInv'
  BY <1>1, <1>2 DEF OutcomeInv
<1>3. ASSUME UNCHANGED cycle, DOMAIN op' = DOMAIN op, op'.receipts = op.receipts,
             op'.procedure = op.procedure, op'.final = op.final,
             op'.status = op.status
      PROVE  OutcomeInv'
  BY <1>2, <1>3, WaitKeepsCall, OtherStepsKeepFit
<1>4. CASE UNCHANGED op /\ (UNCHANGED cycle \/ CycleStep \/ BeginCycle)
  BY <1>2, <1>3, <1>4, CycleStepFits, BeginFits, OtherStepsKeepFit
<1>5. CASE EndCycle
  <2>1. CallFits' /\ DOMAIN op' = DOMAIN op
    BY <1>5 DEF EndCycle, CallFits
  <2> QED
    BY <1>2, <1>5, <2>1, EndCycleFits
<1>6. CASE ReadFinal
  <2>1. /\ DOMAIN op' = DOMAIN op
        /\ op'.receipts = op.receipts
        /\ op'.procedure = op.procedure
        /\ UNCHANGED cycle
    BY <1>6 DEF ReadFinal, OutcomeInv
  <2> QED
    BY <1>2, <1>6, <2>1, ReadFinalFits, WaitKeepsCall
<1>7. ASSUME NEW status, NEW at, Report(status, at), UNCHANGED cycle \/ cycle' = NoCycle,
             status = "COMPLETE_REFERENCE_OPERATION" /\ op.procedure = "reference" =>
               DOMAIN op.final = {FinalOrder[i] : i \in 1 .. 3}
      PROVE  OutcomeInv'
  <2>1. /\ DOMAIN op' = DOMAIN op
        /\ op'.receipts = op.receipts
        /\ op'.procedure = op.procedure
        /\ op'.final = op.final
        /\ op'.status = status
    BY <1>7 DEF Report, OutcomeInv
  <2>2. CallFits'
    BY <1>7, <2>1, WaitKeepsCall DEF CallFits
  <2>3. ReceiptsFit'
    BY <1>7, <2>1, OtherStepsKeepFit
  <2> QED
    BY <1>2, <2>1, <2>2, <2>3
<1>8. CASE Terminate
  <2>1. \E status, at : /\ Report(status, at)
                        /\ status # "COMPLETE_REFERENCE_OPERATION"
                        /\ cycle' = NoCycle
    BY <1>8 DEF Terminate
  <2> QED
    BY <1>7, <2>1
<1>9. CASE Finish
  <2>1. \E status, at :
          /\ Report(status, at)
          /\ UNCHANGED cycle
          /\ op.procedure = "reference" => DOMAIN op.final = {FinalOrder[i] : i \in 1 .. 3}
    BY <1>9 DEF Finish
  <2> QED
    BY <1>7, <2>1
<1>10. CASE ValidateRoles \/ PrepareStats
  <2>1. UNCHANGED cycle
    BY <1>10 DEF ValidateRoles, PrepareStats
  <2>2. \/ \E at : op' = [op EXCEPT !.at = at]
        \/ \E status, at : Report(status, at) /\ status # "COMPLETE_REFERENCE_OPERATION"
    BY <1>10 DEF ValidateRoles, PrepareStats
  <2>3. ASSUME NEW at, op' = [op EXCEPT !.at = at]
        PROVE  OutcomeInv'
    <3>1. /\ DOMAIN op' = DOMAIN op
          /\ op'.receipts = op.receipts
          /\ op'.procedure = op.procedure
          /\ op'.final = op.final
          /\ op'.status = op.status
      BY <2>3 DEF OutcomeInv
    <3> QED
      BY <1>3, <2>1, <3>1
  <2> QED
    BY <1>7, <2>1, <2>2, <2>3
<1>11. CASE BeginLaneB \/ EndLaneB
  <2>1. UNCHANGED cycle /\ \E at : op' = [op EXCEPT !.at = at]
    BY <1>11 DEF BeginLaneB, EndLaneB
  <2>2. /\ DOMAIN op' = DOMAIN op
        /\ op'.receipts = op.receipts
        /\ op'.procedure = op.procedure
        /\ op'.final = op.final
        /\ op'.status = op.status
    BY <2>1 DEF OutcomeInv
  <2> QED
    BY <1>3, <2>1, <2>2
<1>12. (BeginCycle \/ ReadLaneB => UNCHANGED op) /\ (ReadLaneB => UNCHANGED cycle)
  BY DEF BeginCycle, ReadLaneB
<1>13. OtherCall => UNCHANGED cycle
  BY DEF OtherCall
<1> QED
  BY <1>4, <1>5, <1>6, <1>8, <1>9, <1>10, <1>11, <1>12, <1>13
     DEF OperationNext, OperationStep

LEMMA InitOutcome == OperationInit => OutcomeInv
<1> SUFFICES ASSUME OperationInit
             PROVE  OutcomeInv
  OBVIOUS
<1>1. Init /\ CaptureInit
  BY DEF OperationInit, CaptureInit
<1>2. GapInv
  BY <1>1, InitGaps
<1>3. RevisionCounts
  BY <1>1 DEF Init, RevisionCounts, IdsCounted, Kinds, EmptyMap
<1>4. OperationInv
  BY <1>1 DEF OperationInit, Init, OperationInv, CycleInv, ReceiptInv, Receipts, Position
<1>5. CallFits /\ {"procedure", "status", "receipts", "final"} \subseteq DOMAIN op
  BY DEF OperationInit, CallFits
<1>6. ReceiptsFit
  <2>1. Position = 0 /\ DOMAIN op.final = {} /\ op.status = "running"
    BY DEF OperationInit, Position, EmptyMap
  <2>2. {} = {FinalOrder[i] : i \in 1 .. 0}
    OBVIOUS
  <2> QED
    BY <2>1, <2>2 DEF ReceiptsFit, FinalFits
<1> QED
  BY <1>2, <1>3, <1>4, <1>5, <1>6 DEF OutcomeInv

\* However other callers interfere, a completed operation hangs together: its
\* claim, gap and evidence are of its own entity, and the gap is closed.
THEOREM CompletedOperationAlwaysFits == OperationSpec => []CompletedOperationFits
<1>1. OutcomeInv => CompletedOperationFits
  <2> SUFFICES ASSUME OutcomeInv, CompleteReference
               PROVE  CompletedOperationFits
    BY DEF CompletedOperationFits
  <2>1. /\ DOMAIN op.final = {FinalOrder[i] : i \in 1 .. 3}
        /\ FinalFits
        /\ op.procedure = "reference"
    BY DEF CompleteReference, OutcomeInv, ReceiptsFit, FinalFits
  <2>2. "claim_status" \in DOMAIN op.final /\ "gap_resolution" \in DOMAIN op.final
    BY <2>1 DEF FinalOrder
  <2>3. Position = 6 /\ op.final["gap_resolution"] = gapResolutions[Id(3)]
    BY <2>1, <2>2 DEF FinalFits
  <2>4. /\ ProducedIds.entity_id = Id(1) /\ ProducedIds.claim_id = Id(2)
        /\ ProducedIds.gap_id = Id(3) /\ ProducedIds.evidence_id = Id(4)
    BY <2>3 DEF ProducedIds, Id
  <2>5. /\ claims[Id(2)].subject = Id(1)
        /\ <<Id(2), Id(3)>> \in claimGapRefs
        /\ evidences[Id(4)].claim = Id(2)
        /\ Id(3) \in DOMAIN gapResolutions
    BY <2>1, <2>3 DEF OutcomeInv, ReceiptsFit, Stands, Id
  <2>6. ReferencesResolve /\ SharingWithinSubject
    BY DEF OutcomeInv, GapInv, ReferenceInv
  <2>7. gapResolutions[Id(3)] \in DOMAIN evidences
    BY <2>5, <2>6 DEF ReferencesResolve
  <2>8. claims[evidences[gapResolutions[Id(3)]].claim].subject = Id(1)
    <3>1. <<evidences[gapResolutions[Id(3)]].claim, Id(3)>> \in claimGapRefs
      BY <2>5, <2>6 DEF SharingWithinSubject
    <3>2. /\ SubjectOf(evidences[gapResolutions[Id(3)]].claim)
               = SubjectOf(gaps[Id(3)].claim)
          /\ SubjectOf(Id(2)) = SubjectOf(gaps[Id(3)].claim)
      BY <2>5, <2>6, <3>1 DEF SharingWithinSubject
    <3> QED
      BY <2>5, <3>2 DEF SubjectOf
  <2> QED
    BY <2>3, <2>4, <2>5, <2>7, <2>8 DEF CompletedOperationFits
<1> QED
  BY <1>1, InitOutcome, OutcomeInductive, PTL DEF OperationSpec

\* When the receipts chain from revision 0 and the last two answers say that
\* they changed the engine, nobody came between: the claim is confirmed, and by
\* the operation's own evidence.
THEOREM UnbrokenReceiptsAlwaysProveOutcome ==
  OperationSpec => []UnbrokenReceiptsProveOutcome
<1>1. OutcomeInv => UnbrokenReceiptsProveOutcome
  <2> SUFFICES ASSUME OutcomeInv, CompleteReference, UnbrokenChain
               PROVE  /\ op.final["claim_status"] = "confirmed"
                      /\ op.final["gap_resolution"] = ProducedIds.evidence_id
    BY DEF UnbrokenReceiptsProveOutcome
  <2>1. /\ DOMAIN op.final = {FinalOrder[i] : i \in 1 .. 3}
        /\ FinalFits
        /\ op.procedure = "reference"
    BY DEF CompleteReference, OutcomeInv, ReceiptsFit, FinalFits
  <2>2. {"claim_status", "gap_resolution", "final_engine_identity"}
          \subseteq DOMAIN op.final
    BY <2>1 DEF FinalOrder
  <2>3. Position = 6 /\ op.final["gap_resolution"] = gapResolutions[Id(3)]
    BY <2>1, <2>2 DEF FinalFits
  <2>4. \A k \in 1 .. 6 : InOrder(op.receipts[k])
    BY <2>3 DEF OutcomeInv, OperationInv, ReceiptInv, Receipts
  <2>5. \A k \in 1 .. 6 : /\ op.receipts[k].before.revision \in Nat
                          /\ op.receipts[k].invokedAt.revision \in Nat
                          /\ op.receipts[k].after.revision \in Nat
    BY <2>4 DEF InOrder, IsIdentity
  <2>6. \A k \in 1 .. 6 : op.receipts[k].before.revision = k - 1
    <3>1. op.receipts[1].before.revision = 0
      BY DEF UnbrokenChain
    <3>2. ASSUME NEW k \in 1 .. 5, op.receipts[k].before.revision = k - 1
          PROVE  op.receipts[k + 1].before.revision = (k + 1) - 1
      <4>1. /\ op.receipts[k].after.revision = op.receipts[k].before.revision + 1
            /\ op.receipts[k + 1].before = op.receipts[k].after
        BY DEF UnbrokenChain
      <4> QED
        BY <3>2, <4>1
    <3>3. op.receipts[2].before.revision = 1
      BY <3>1, <3>2
    <3>4. op.receipts[3].before.revision = 2
      BY <3>2, <3>3
    <3>5. op.receipts[4].before.revision = 3
      BY <3>2, <3>4
    <3>6. op.receipts[5].before.revision = 4
      BY <3>2, <3>5
    <3>7. op.receipts[6].before.revision = 5
      BY <3>2, <3>6
    <3> QED
      BY <3>1, <3>3, <3>4, <3>5, <3>6, <3>7
  <2>7. ASSUME NEW k \in {5, 6}
        PROVE  op.receipts[k].invokedAt.revision = k - 1
    <3>1. SaysChanged(op.receipts[k]) /\ InOrder(op.receipts[k])
      BY <2>4 DEF UnbrokenChain
    <3>2. op.receipts[k].after.revision = k
      BY <2>6 DEF UnbrokenChain
    <3> QED
      BY <2>5, <2>6, <3>1, <3>2 DEF InOrder
  <2>8. op.final["gap_resolution"] = Id(4)
    BY <2>1, <2>3, <2>7 DEF OutcomeInv, ReceiptsFit, Stands
  <2>9. Id(6)
    <3>1. op.receipts[6].call.method = "confirm_claim_if_ready"
      BY <2>1, <2>3 DEF OutcomeInv, ReceiptsFit, Stands
    <3> QED
      BY <3>1 DEF UnbrokenChain, SaysChanged, ById, Id
  <2>10. op.final["final_engine_identity"].revision = op.receipts[6].invokedAt.revision + 1
    BY <2>5, <2>6, <2>7 DEF UnbrokenChain
  <2>11. op.final["claim_status"] = "confirmed"
    BY <2>1, <2>2, <2>5, <2>7, <2>9, <2>10 DEF FinalFits
  <2> QED
    BY <2>3, <2>8, <2>11 DEF ProducedIds, Id
<1> QED
  BY <1>1, InitOutcome, OutcomeInductive, PTL DEF OperationSpec
=============================================================================
