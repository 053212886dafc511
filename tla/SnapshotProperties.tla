-------------------------- MODULE SnapshotProperties --------------------------
(***************************************************************************)
(* What must hold of an engine that is saved and restored on the way.      *)
(***************************************************************************)
EXTENDS Snapshot, EngineProperties

\* Whatever state the engine is in, its own from_snapshot would take it back:
\* nothing can be saved that cannot be restored, also when the engine itself
\* was restored from a document that somebody else wrote.
AlwaysRestorable == Intact(StateView)

\* The ids that the engine indexes a store by without a look (gaps_for_claim,
\* resolve_gaps_for_evidence, the dedup hit of add_gap, the two disputed
\* refutations and the confidence readers): none raises a KeyError, whatever
\* admitted document the engine started from.
LookupsResolve ==
  /\ \A e \in DOMAIN evidences : evidences[e].claim \in DOMAIN claims
  /\ \A ref \in claimGapRefs : ref[2] \in DOMAIN gaps
  /\ \A key \in DOMAIN gapDedupIndex : gapDedupIndex[key] \in DOMAIN gaps
  /\ \A pair \in contradictions : pair[2] \in DOMAIN evidences

\* An identity that is equal to one read before means an equal state (section
\* 4.4 of the state identity contract), restores in between included: a caller
\* that saved need not save again.
IdentityNamesState == savedAt = StateIdentity => document.state = StateView

\* A restored engine alters nothing of what the document brought: only the
\* restore itself replaces anything, and no new object takes a restored id.
RestoredStands == [][stateToken' = stateToken => RegisteredKept]_snapshotVars
=============================================================================
