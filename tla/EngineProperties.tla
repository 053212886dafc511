-------------------------- MODULE EngineProperties --------------------------
(***************************************************************************)
(* What must hold of an Engine however its methods are interleaved.        *)
(***************************************************************************)
EXTENDS Engine

SubjectOf(claim) == claims[claim].subject

\* A gap's dedup key, recomputed from the gap and its first claim.
KeyOfGap(g) == DedupKey(gaps[g].claim, gaps[g].rule, gaps[g].type, gaps[g].required)

Held ==
  [entity |-> entities, observation |-> DOMAIN observations,
   claim |-> DOMAIN claims, evidence |-> DOMAIN evidences,
   relation |-> DOMAIN relations, gap |-> DOMAIN gaps]

Resolves(ref) == ref.id \in Held[ref.kind]

\* No id stored anywhere dangles: the code checks each reference once, when
\* it is made, and reads it unchecked ever after (resolve_gaps_for_evidence,
\* the refute_disputed pair and the confidence readers index the stores).
ReferencesResolve ==
  /\ \A o \in DOMAIN observations : observations[o] \in entities
  /\ \A c \in DOMAIN claims : SubjectOf(c) \in entities
  /\ \A e \in DOMAIN evidences : evidences[e].claim \in DOMAIN claims
  /\ \A g \in DOMAIN gaps : gaps[g].claim \in DOMAIN claims
  /\ \A r \in DOMAIN relations : Resolves(relations[r].from) /\ Resolves(relations[r].to)
  /\ \A ref \in claimGapRefs : ref[1] \in DOMAIN claims /\ ref[2] \in DOMAIN gaps
  /\ \A g \in DOMAIN gapResolutions :
       g \in DOMAIN gaps /\ gapResolutions[g] \in DOMAIN evidences
  /\ \A pair \in contradictions :
       pair[1] \in DOMAIN claims /\ pair[2] \in DOMAIN evidences
  /\ DOMAIN claimLifecycleEvents \subseteq DOMAIN claims

\* add_gap never makes two gaps of one (subject, rule, type, required), and
\* the index finds every gap under the key its own fields give.
DedupIndexExact ==
  /\ \A key \in DOMAIN gapDedupIndex :
       gapDedupIndex[key] \in DOMAIN gaps /\ KeyOfGap(gapDedupIndex[key]) = key
  /\ \A g \in DOMAIN gaps :
       KeyOfGap(g) \in DOMAIN gapDedupIndex /\ gapDedupIndex[KeyOfGap(g)] = g

\* Sharing stays within a subject: the claims that wait on a gap, its first
\* claim among them, and the claim whose evidence closed it all have one
\* subject, and that evidence is of the type the gap asked for.
SharingWithinSubject ==
  /\ \A ref \in claimGapRefs : SubjectOf(ref[1]) = SubjectOf(gaps[ref[2]].claim)
  /\ \A g \in DOMAIN gaps : <<gaps[g].claim, g>> \in claimGapRefs
  /\ \A g \in DOMAIN gapResolutions :
       LET closer == evidences[gapResolutions[g]]
       IN  /\ closer.type = gaps[g].required
           /\ <<closer.claim, g>> \in claimGapRefs

\* A resolution is of a registered contradiction (section 21.2 of the data
\* contract), so the active set is an exact difference.
ResolvedWereContradictions == resolvedContradictions \subseteq contradictions

----------------------------------------------------------------------------
\* The audit trail.

LegalMoves ==
  { <<"candidate", "confirmed">>, <<"candidate", "refuted">>,
    <<"confirmed", "disputed">>, <<"disputed", "confirmed">>,
    <<"disputed", "refuted">> }

\* A claim's history is a path of legal moves, in increasing sequence
\* numbers, that ends in the status the claim has now.
HistoryIsPathToStatus ==
  \A c \in DOMAIN claimLifecycleEvents :
    LET h == claimLifecycleEvents[c]
    IN  /\ Len(h) > 0
        /\ h[Len(h)].to = claims[c].status
        /\ h[Len(h)].seq <= lifecycleSeq
        /\ \A i \in 1 .. Len(h) : <<h[i].from, h[i].to>> \in LegalMoves
        /\ \A i \in 1 .. Len(h) - 1 :
             h[i].to = h[i + 1].from /\ h[i].seq < h[i + 1].seq

EventsOf(claim) ==
  {claimLifecycleEvents[claim][i] : i \in 1 .. Len(claimLifecycleEvents[claim])}

Justified(claim, transition) ==
  /\ transition = "confirm_if_ready" =>
       \E g \in GapsForClaim(claim) \cap DOMAIN gapResolutions :
         SubjectOf(evidences[gapResolutions[g]].claim) = SubjectOf(claim)
  /\ transition \in {"refute_if_ready", "dispute_if_ready"} =>
       ContradictionsForClaim(claim) # {}
  /\ transition \in {"refute_disputed_if_ready",
                     "refute_disputed_by_freshness_if_ready"} =>
       \E e \in ContradictionsForClaim(claim) : IsStrong(e)

\* Whatever was decided can still be justified from the stores: a claim the
\* engine confirmed waits on a gap that evidence about its own subject
\* closed, and one it disputed or refuted still shows the contradiction.
DecisionsStayJustified ==
  \A c \in DOMAIN claimLifecycleEvents :
    \A event \in EventsOf(c) : Justified(c, event.transition)

----------------------------------------------------------------------------
\* Steps.

\* The revision moves by one exactly when the logical state changes
\* (section 2 of the state identity contract): equal identities mean an
\* equal state, and no operation that did nothing looks like a change.
IdentityTracksState ==
  [][ /\ stateToken' = stateToken
      /\ stateRevision' = stateRevision + 1
      /\ logicalState' # logicalState ]_vars

Kept(old, new) == \A x \in DOMAIN old : x \in DOMAIN new /\ new[x] = old[x]

RegisteredKept ==
  /\ entities \subseteq entities'
  /\ Kept(observations, observations')
  /\ Kept(evidences, evidences')
  /\ Kept(relations, relations')
  /\ Kept(gaps, gaps')
  /\ Kept(gapDedupIndex, gapDedupIndex')
  /\ Kept(gapResolutions, gapResolutions')
  /\ Kept(ruleDefinitions, ruleDefinitions')
  /\ claimGapRefs \subseteq claimGapRefs'
  /\ contradictions \subseteq contradictions'
  /\ resolvedContradictions \subseteq resolvedContradictions'
  /\ \A c \in DOMAIN claims :
       /\ c \in DOMAIN claims'
       /\ claims'[c] = [claims[c] EXCEPT !.status = claims'[c].status]

\* What was registered is never altered, withdrawn or reassigned: the first
\* resolution of a gap stands, ids are never reused, a claim changes only
\* its status.
FirstRegistrationStands == [][RegisteredKept]_vars

\* A rule's statistics are its own: a step changes those of one version of
\* one rule at most, and a score once measured is never back to unmeasured.
StatsPerVersion ==
  [][ \A rule \in DOMAIN ruleStats :
        /\ rule \in DOMAIN ruleStats'
        /\ ruleStats[rule].precision # NoScore =>
             ruleStats'[rule].precision # NoScore
        /\ ruleStats'[rule] # ruleStats[rule] =>
             \A other \in DOMAIN ruleStats \ {rule} :
               ruleStats'[other] = ruleStats[other] ]_vars

\* Section 21.11, item 13 of the data contract: a confirmed claim with no
\* active contradiction is not disputed.
DisputeNeedsActiveContradiction ==
  [][ \A c \in DOMAIN claims :
        claims[c].status = "confirmed" /\ claims'[c].status = "disputed" =>
          ActiveContradictionsForClaim(c) # {} ]_vars

----------------------------------------------------------------------------
\* The engine implements one ledger of status changes over all claims,
\* although each claim keeps its own list of events (section 23).

\* The events of all claims that bear one sequence number.
EntryAt(seq) ==
  UNION {{[claim |-> c, from |-> event.from, to |-> event.to] :
            event \in {e \in EventsOf(c) : e.seq = seq}} :
          c \in DOMAIN claimLifecycleEvents}

Ledger ==
  INSTANCE ClaimLedger WITH
    Claims   <- Ids("claim"),
    Statuses <- ClaimStatuses,
    status   <- [c \in DOMAIN claims |-> claims[c].status],
    ledger   <- [seq \in 1 .. lifecycleSeq |-> EntryAt(seq)]

\* Every step of the engine is a step of the ledger or leaves it alone.
ImplementsClaimLedger == Ledger!Spec
=============================================================================
