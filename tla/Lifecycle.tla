----------------------------- MODULE Lifecycle -----------------------------
(***************************************************************************)
(* Contradictions and the six status transitions of a claim (cluster C5,   *)
(* ragcore/_engine/lifecycle.py), with the recorder that audits them       *)
(* (cluster C6, ragcore/_engine/lifecycle_history.py).                     *)
(***************************************************************************)
EXTENDS Gaps

RefutationStrengthThreshold == 8

ContradictionsForClaim(claim) ==
  {e \in DOMAIN evidences : <<claim, e>> \in contradictions}

ResolvedContradictionsForClaim(claim) ==
  {e \in DOMAIN evidences : <<claim, e>> \in resolvedContradictions}

ActiveContradictionsForClaim(claim) ==
  ContradictionsForClaim(claim) \ ResolvedContradictionsForClaim(claim)

\* Most recent means highest id: _by_freshness sorts the ids downwards.
IsFreshest(evidence, set) ==
  evidence \in set /\ \A other \in set : other <= evidence

IsStrong(evidence) ==
  evidences[evidence].strength >= RefutationStrengthThreshold

RegisterContradiction(claim, evidence) ==
  /\ claim \in DOMAIN claims
  /\ evidence \in DOMAIN evidences
  /\ <<claim, evidence>> \notin contradictions
  /\ Cardinality(contradictions) < MaxContradictions
  /\ contradictions' = contradictions \cup {<<claim, evidence>>}
  /\ AdvanceStateRevision
  /\ UNCHANGED <<nextId, crudStores, relations, gapStores, ruleStores,
                 resolvedContradictions, historyStores, hintEvidenceTypes,
                 stateToken>>

\* Faulty: resolves what was never a contradiction.
ResolvableUnregistered(claim, evidence) ==
  <<claim, evidence>> \notin resolvedContradictions

Resolvable(claim, evidence) ==
  <<claim, evidence>> \in contradictions \ resolvedContradictions

RegisterContradictionResolution(claim, evidence) ==
  /\ claim \in DOMAIN claims
  /\ evidence \in DOMAIN evidences
  /\ Resolvable(claim, evidence)
  /\ resolvedContradictions' = resolvedContradictions \cup {<<claim, evidence>>}
  /\ AdvanceStateRevision
  /\ UNCHANGED <<nextId, crudStores, relations, gapStores, ruleStores,
                 contradictions, historyStores, hintEvidenceTypes, stateToken>>

----------------------------------------------------------------------------
\* History.

ClaimLifecycleHistory(claim) ==
  IF claim \in DOMAIN claimLifecycleEvents THEN claimLifecycleEvents[claim]
                                           ELSE <<>>

\* Faulty: numbers the events of each claim on their own.
RecordTransitionPerClaim(claim, from, to, transition) ==
  /\ lifecycleSeq < MaxLifecycleSeq
  /\ lifecycleSeq' = lifecycleSeq + 1
  /\ claimLifecycleEvents' =
       Put(claimLifecycleEvents, claim,
           Append(ClaimLifecycleHistory(claim),
                  [seq |-> Len(ClaimLifecycleHistory(claim)) + 1, from |-> from,
                   to |-> to, transition |-> transition]))

RecordClaimLifecycleTransition(claim, from, to, transition) ==
  /\ lifecycleSeq < MaxLifecycleSeq
  /\ lifecycleSeq' = lifecycleSeq + 1
  /\ claimLifecycleEvents' =
       Put(claimLifecycleEvents, claim,
           Append(ClaimLifecycleHistory(claim),
                  [seq |-> lifecycleSeq + 1, from |-> from, to |-> to,
                   transition |-> transition]))

Transit(claim, to, transition) ==
  /\ claims' = [claims EXCEPT ![claim].status = to]
  /\ RecordClaimLifecycleTransition(claim, claims[claim].status, to, transition)
  /\ AdvanceStateRevision
  /\ UNCHANGED <<nextId, entities, observations, evidences, relations,
                 gapStores, ruleStores, contraStores, hintEvidenceTypes,
                 stateToken>>

----------------------------------------------------------------------------
\* The conditions of the six transitions.

HasStatus(claim, status) == claim \in DOMAIN claims /\ claims[claim].status = status

\* Faulty: all() over no gap at all is True.
ReadyToConfirmVacuously(claim) ==
  /\ HasStatus(claim, "candidate")
  /\ GapsForClaim(claim) \subseteq DOMAIN gapResolutions

\* Contradictions, even active ones, do not stand in the way.
ReadyToConfirm(claim) ==
  /\ HasStatus(claim, "candidate")
  /\ GapsForClaim(claim) # {}
  /\ GapsForClaim(claim) \subseteq DOMAIN gapResolutions

\* Faulty: refutes whatever the status.
ReadyToRefuteAnyStatus(claim) == ContradictionsForClaim(claim) # {}

\* Resolved contradictions count here and in ReadyToDispute.
ReadyToRefute(claim) ==
  /\ HasStatus(claim, "candidate")
  /\ ContradictionsForClaim(claim) # {}

ReadyToDispute(claim) ==
  /\ HasStatus(claim, "confirmed")
  /\ ContradictionsForClaim(claim) # {}

\* Faulty: takes any claim without active contradictions back to confirmed.
ReadyToResolveAnyStatus(claim) ==
  claim \in DOMAIN claims /\ ActiveContradictionsForClaim(claim) = {}

ReadyToResolveDisputed(claim) ==
  /\ HasStatus(claim, "disputed")
  /\ ActiveContradictionsForClaim(claim) = {}

ReadyToRefuteDisputed(claim) ==
  /\ HasStatus(claim, "disputed")
  /\ \E e \in ActiveContradictionsForClaim(claim) : IsStrong(e)

\* Faulty: ranks resolved contradictions too.
ReadyToRefuteByAnyFreshness(claim) ==
  /\ HasStatus(claim, "disputed")
  /\ \E e \in ContradictionsForClaim(claim) :
       IsFreshest(e, ContradictionsForClaim(claim)) /\ IsStrong(e)

ReadyToRefuteByFreshness(claim) ==
  /\ HasStatus(claim, "disputed")
  /\ \E e \in ActiveContradictionsForClaim(claim) :
       IsFreshest(e, ActiveContradictionsForClaim(claim)) /\ IsStrong(e)

ConfirmClaimIfReady(claim) ==
  ReadyToConfirm(claim) /\ Transit(claim, "confirmed", "confirm_if_ready")

RefuteClaimIfReady(claim) ==
  ReadyToRefute(claim) /\ Transit(claim, "refuted", "refute_if_ready")

DisputeClaimIfReady(claim) ==
  ReadyToDispute(claim) /\ Transit(claim, "disputed", "dispute_if_ready")

ResolveDisputedClaimIfReady(claim) ==
  /\ ReadyToResolveDisputed(claim)
  /\ Transit(claim, "confirmed", "resolve_disputed_if_ready")

RefuteDisputedClaimIfReady(claim) ==
  /\ ReadyToRefuteDisputed(claim)
  /\ Transit(claim, "refuted", "refute_disputed_if_ready")

RefuteDisputedClaimIfReadyByFreshness(claim) ==
  /\ ReadyToRefuteByFreshness(claim)
  /\ Transit(claim, "refuted", "refute_disputed_by_freshness_if_ready")
=============================================================================
