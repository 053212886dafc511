# A TLA+ model of the ragcore engine

`ragcore` is a rule-and-evidence engine: callers register entities, claims
about them, evidence for or against the claims and gaps in that evidence; the
engine keeps the records, moves a claim through its lifecycle when the stores
justify it, and hands out a state identity that readers use to notice change.
It is one Python object with no locks and no scheduler. What is hard about it
is not threads but **long sequences of legal calls by callers that do not
coordinate**: nineteen stores that must stay consistent although every method
writes only a few of them, and every reference is checked once, when it is made,
and trusted ever after.

This directory models that engine, checks it with TLC on small instances and
proves part of it with TLAPS for instances of any size.

## Inventory

| Component | Code | State | Operations | Interacts with |
|---|---|---|---|---|
| Engine state and identity | `ragcore/engine.py`, `ragcore/types.py` | id counters, lineage token, revision, and the stores below | `_allocate_id`, `_advance_state_revision`, `state_identity`, `_storage_for_kind` | every mixin goes through these seams |
| CRUD | `_engine/crud.py` | entities, observations, claims, evidences | four `add_*`, `get_*`, `evidences_for_claim` | claims name entities and (unchecked) rules, evidences name claims |
| Relations | `_engine/relations.py` | relations | `add_relation` | ends are any two objects, of any kind |
| Gaps | `_engine/gaps.py` | gaps, dedup index, claim-gap references, resolutions | `add_gap`, `gaps_for_claim`, `resolve_gaps_for_evidence`, `gap_resolution` | reads claims and evidences; read by confirmation |
| Lifecycle | `_engine/lifecycle.py` | contradictions, resolved contradictions, claim statuses | two registrations, six transitions | reads gaps, evidences; writes claims and history |
| History | `_engine/lifecycle_history.py` | engine-wide sequence number, events per claim | `_record_claim_lifecycle_transition`, `claim_lifecycle_history` | called by the six transitions only |
| Rules | `_engine/rules.py` | definitions and statistics per (id, version) | `register_rule`, `update_rule_stats` | read by confidence and by the rule runtime |
| Hint evidence | `_engine/hint_evidence.py` | set of evidence types | register, unregister, clear | read by confidence |
| Confidence | `_engine/confidence.py`, `_engine/confidence_adapters.py` | none | `compute_effective_confidence(_with_trace)` | reads seven stores |
| Snapshot | `_engine/snapshot.py`, `_engine/serialization.py` | none (documents) | `to_snapshot`, `from_snapshot`, migration, integrity checks | replaces the whole state under a fresh lineage |
| Rule runtime | `rule_runtime.py` | none | `fire_rule(_with_trace)` | statistics check, condition, `add_claim`, `add_gap` per type, `update_rule_stats` |
| Conditions | `condition.py` | none | load, evaluate, evaluate with trace | called by the rule runtime |
| Loading and compilation | `rule_loader.py`, `rule_compile.py`, `rule_output.py`, `rule_gap.py` | a frozen specification per document | the header loader, four compilers | the caller's document in; what the rule runtime is given out |
| Packet capture | `examples/inspector/engine_inspector.py` | the packet | seven public reads in a row, and one per gap | reads the engine while others may call it |
| Reviewed operations | `examples/operation/complete_domain_neutral_reference_operation.py`, `rule_stats_update_provenance_example.py` | decision, request and receipt records | decide, revalidate twice, invoke, report | compares state identities, calls the engine |
| Packet and proposal validators | `examples/inspector/packet_validator.py`, `examples/proposal` | none | three validators | judge what a consumer or a model wrote about a packet |
| Role assignment validator | `examples/role_assignment/role_assignment_validator.py` | none | one validator | its verdict gates the reference operation |
| Scaffold, adapter, probe | `examples/operation/minimal_operational_scaffold.py`, `examples/adapter`, `examples/probe` | none | scripts | public API only |

Hard behaviours and what would make each component right:

- **References checked once.** No id stored anywhere may dangle
  (`ReferencesResolve`), though ids are per kind and stores refer to each other
  in a dozen ways.
- **Sharing.** `add_gap` gives the claims of one subject one gap, and the first
  evidence of any of them closes it for all. The index must agree with the gaps
  it points to (`DedupIndexExact`), and nothing may leak to another subject
  (`SharingWithinSubject`).
- **Six transitions, no coordinator.** Whatever the order of calls, a claim's
  history must explain its status (`HistoryIsPathToStatus`), decisions must stay
  explainable from the stores (`DecisionsStayJustified`), the exits from dispute
  must not compete (`DisputeExitsConsistent`), and the histories of all claims
  must merge into one order (`ImplementsClaimLedger`).
- **First wins, nothing is withdrawn** (`FirstRegistrationStands`): resolutions,
  contradictions, ids, rule definitions.
- **No-ops are not changes** (`IdentityTracksState`): several methods may or may
  not change anything, and readers equate equal identities with equal states.
- **Versions** (`StatsPerVersion`): statistics belong to an (id, version) pair.
- **Restore from anything** (`LookupsResolve`, `AlwaysRestorable`,
  `RestoredStands`): admission checks some references and not others; what it
  checks must be enough for every lookup the engine makes without a test, and must
  refuse nothing the engine itself can write.
- **One identity, one state** (`IdentityNamesState`): a restored engine counts its
  revisions from 0 again, so only the fresh lineage token keeps an identity taken
  before a restore from comparing equal to one after it.
- **A firing is several calls with no rollback** (`FailedFiringLeavesNothing`,
  `CountIsClaims`), and what it returns must stay true (`TracesStayTrue`).
- **Readers that do not stop the engine.** A packet is seven calls and more; an
  identity that has not moved must vouch for all of them
  (`IdentityVouchesForReads`), a packet torn by a change must still tell one story
  (`TornPacketTellsOneStory`), a trace kept by a caller must be true as long as its
  identity is current (`KeptTraceStands`), and the reader must finish
  (`CaptureCompletes`).
- **Decisions that go stale.** A call is decided at one identity and made later,
  with checks between that another caller may slip past. What a receipt proves
  (`ReceiptTellsIfReviewed`), what six of them prove (`UnbrokenReceiptsProveOutcome`)
  and what holds without any proof (`CompletedOperationFits`) are three things; the
  operation must end whatever happens (`OperationReports`).
- **A confidence that is not monotone.** The average of the strengths may fall with
  a further contradiction; still a strong one must not raise the result
  (`StrongContradictionNeverRaises`), no factor may boost (`NeverBoosts`), zero is
  final (`ZeroIsForGood`), and one call may move two claims only through what they
  share (`SpreadOnlyThroughShared`).
- **Parts compiled one by one** from a document its owner may edit
  (`PartsOfOneDocument`); two evaluators that must agree, and must not take the
  absence of a fact for a fact (`AbsenceNeverFires`).
- **Three validators, three copies of the vocabularies**: one looks at the top
  level, one below it (`NestingHidesNothing`, `ReviewersAgree`).

## How the model is built

A dict is a function from its keys; a dict of sets is a set of pairs (a missing
key and an empty set read the same everywhere in the code). Each public method
that changes state is one action; a method runs to its end before the next call
(no lock, no await, no callback). A call that raises or that returns having
changed nothing is a step the action does not take. Failing inputs are offered
all the same (a score of 11 tenths, the status `retracted`, ids that do not
exist): that such calls change nothing is one of the things checked. Score
arithmetic is in tenths, so that 0.8, the refutation threshold, is exact.

| Module | Models | State and actions |
|---|---|---|
| `EngineState` | `engine.py`, cluster C1 | the nineteen variables, named as in `Engine.__init__`; `AllocateId`, `AdvanceStateRevision`, `StorageForKind` |
| `Crud` | `crud.py` | `AddEntity`, `AddObservation`, `AddClaim`, `AddEvidence` |
| `Relations` | `relations.py` | `AddRelation` |
| `Rules` | `rules.py` | `RegisterRule`, `UpdateRuleStats` |
| `Gaps` | `gaps.py` | `AddGap` (`ShareGap` on an index hit, `NewGap` on a miss), `ResolveGapsForEvidence` |
| `Lifecycle` | `lifecycle.py`, `lifecycle_history.py` | `RegisterContradiction`, `RegisterContradictionResolution`, six `...IfReady` actions, each its condition and `Transit` (status, event, revision) |
| `HintEvidence` | `hint_evidence.py` | three actions over `SetHintEvidenceTypes` |
| `Engine` | the class itself | composes them: `Next`, `Spec`, the record types, `TypeOK` |
| `EngineProperties` | - | what must hold, and the refinement mapping |
| `ClaimLedger` | section 23 of the data contract | the abstract promise: one ledger of legal status moves over all claims |
| `Snapshot` | `snapshot.py`, `serialization.py` | the document the caller holds and the identity read with it; `ToSnapshot`, `Receive`, `FromSnapshot` (`Migrate`, the `Admit...` checks, `Install`, `FreshLineage`) interleaved with `Next` of `Engine` |
| `SnapshotProperties` | - | what must hold across save and restore |
| `RuleRuntime` | `rule_runtime.py` | how far the firing under way has come and the traces returned; `BeginFiring`, `FireClaim`, `FireGap`, `FireStats`, `Raise`, each the engine action it calls; any other call between firings |
| `RuleRuntimeProperties` | - | what callers of `fire_rule` rely on |
| `Confidence` | `confidence.py`, `confidence_adapters.py` | no variable: the seven factors of a claim as exact fractions, computed from the stores of `Engine` (`Factors`, `TraceOf`) |
| `ConfidenceProperties` | - | the trace a caller keeps, any calls of the engine, and what must hold |
| `PacketCapture` | `engine_inspector.py`, lane B of the reference operation | `capture`, what the reader has read so far; `BeginCapture`, `ReadNext`, `CheckGap`, `Discard` interleaved with `Next` of `Engine` |
| `ReviewedCycle` | the stages of a reviewed call | `cycle` (stage, decision, identities, receipt) and `others`, the calls other callers have made; one action per stage: `Decide`, `Revalidate` at two stages, `ReadIdentityBefore`, `Invoke`, `ReadIdentityAfter` |
| `ReferenceOperation` | both reviewed examples | `op` (procedure, lane, receipts, final reads, status); the order of the six calls, the gates, the termination, lane B as a `PacketCapture`, the final block |
| `Conditions` | `condition.py` | no variable: `Loads`, `LoadedTree`, `Evaluate` and `TraceTree`, recursive functions on the nodes (`Nodes`) of the raw conditions there are and on the trees loaded from them (`Trees`) |
| `RuleDocuments` | `rule_loader.py` and the compilers | the document, what was loaded from it, the parts compiled so far; `Load`, `CompileCondition`, `CompileOutput`, `CompileRequired`, `RegisterRuleSpec`, and `Edit`, the caller's |
| `PacketValidator` | `packet_validator.py` | no variable: `PacketViolations` over nested drafts, taken layer by layer (`Layers`) |
| `ProposalReview` | `proposal_schema.py`, `proposal_validator.py` | the proposal being drafted, one key or one level of nesting at a time; `ShapeViolations`, `SafetyViolations` |
| `PacketCaptureProperties`, `ReferenceOperationProperties`, `RuleDocumentsProperties`, `ProposalReviewProperties` | - | what must hold of each |
| `MC...` | - | the bounds and inputs of the runs |
| `EngineProofs` | - | theorems and proofs: types, what no step of the engine does, references and gaps, histories, decisions and the ledger |
| `SnapshotProofs`, `RuleRuntimeProofs`, `ReaderProofs`, `OperationProofs` | - | of the clients of the engine (confidence and packets are in `ReaderProofs`), each on `EngineProofs` |
| `RuleDocumentProofs`, `ProposalReviewProofs` | - | of the two parts that stand apart from the engine |
| `Recursion` | - | that the recursive functions of the model are defined; the body is a constant operator, which each use replaces with its own |

Left out of the records are the fields the engine only carries (types, flags,
reason codes, raw references, prior confidence). The event of a transition keeps
the labels of the code. Operators whose comment begins "Faulty" are deliberate
mistakes, one for each property: put in the place of the definition after them
they make the property fail, which shows that the property can.

## Runs

The first four runs use `Spec` of `Engine` (any call, any order), the others the
specification that adds to it saving and restoring, firing, a reader, or an
operation; the last two stand apart from the engine. Deadlock checking is off
because a caller may stop calling, and in a bounded instance must.

| Run | Instance | Question |
|---|---|---|
| `registry` | 2 entities, 1 object of every other kind, 2 versions of a rule, a hint type, invalid scores and statuses, 6 changes | Do references between kinds resolve, does every store keep its shape, does the identity move exactly with the state, are versions kept apart? |
| `gap_sharing` | 2 subjects, 3 claims, 1 evidence, 2 gaps, 2 evidence types | Are gaps shared within a subject only, is the index exact, is confirmation always justified? |
| `lifecycle` | 2 claims created as candidate or confirmed, 2 evidences weak or strong, 2 contradictions, 4 transitions | Do histories explain statuses, is everything registered kept, is there one ledger? |
| `dispute_cycle` | 1 claim, 2 evidences, 1 contradiction, 4 transitions | Does the engine do what section 21.11 of the data contract says of disputing? It does not (below). |
| `snapshot_restore` | 1 entity, 1 claim, 1 evidence, 1 gap, 2 restores of own snapshots, each taken and restored at any moment | Can every state be restored, does an identity name one state across restores, do histories and the dedup index go on? |
| `snapshot_foreign` | one document with two claims that share a closed gap, a resolved contradiction and a history, damaged in up to two places; 1 restore, then 2 changes | Which documents does the admission let through, and is what it checks enough for every lookup and every later save? |
| `rule_runtime` | 2 entities, 2 versions of a rule, 2 claims, 2 gaps, 1 evidence; templates that require nothing, one type, one type twice, two types | Are a firing that fails and one that succeeds all or nothing, and do counts and traces stay true? |
| `confidence` | 1 entity, 2 claims about it by rules that may be the same, a strong and a weak evidence of the first and room for a third, 1 gap, 2 versions, strengths 0 and 1.0; then up to 4 calls | Which way may a call move the factors of a claim, can it reach another claim, is a kept trace current when its identity is, and do the exits from dispute agree with the confidence? |
| `packet_capture` | 1 entity, 1 claim created as candidate or confirmed, 1 evidence, 2 gaps; up to 7 changes, any of them between two reads | What do identities vouch for in a packet, what does a torn one tell, does the reader finish? |
| `reviewed_operation` | the seven calls of the examples and 2 calls of other callers, before, between or in the middle of any of them | What do receipts and final reads prove, and does the operation end? |
| `rule_documents` | one good document, 100 and more with something missing, mistyped or misspelt, conditions of every operator nested twice, one edit at any moment; contexts of two fields over seven values | Are the parts of one document, and does absence never fire a rule? |
| `proposal_review` | every word of the six vocabularies and some keys near them, two steps of drafting (a key, a dict or a list around it), three packets | Does nesting hide anything, and do the validators agree? |

Why the bounds are enough for their questions: sharing needs two claims of one
subject and one of another (3 claims, 2 entities) and two gaps to confuse;
ranking by freshness needs two contradictions, one resolved; a dispute cycle
needs confirm, dispute, resolve, dispute (4 transitions); an order across claims
needs two claims; a confusion of kinds needs two entities and one of each other
kind, so that some ids exist in one store and not in another. `MaxRevision` cuts
`registry` at six changes, enough for entity, claim, evidence, gap, resolution
and a link; in the other runs of `Engine` it is not reached. In `snapshot_restore` two
restores give three lineages, so that an identity of the first may be compared
with one of the last. In `snapshot_foreign` a document may lack an object, an index
entry or a reference, have a counter, a dedup target, a resolution, a status or a
score that is wrong, or two of these; `MaxRevision` 2 then lets the engine use
what it was given (a new id, a shared gap, a transition) before it is judged. In
`rule_runtime` two claims are enough for one firing to share the gap of another;
claims and statistics come from firings alone (`CreationStatuses` and `StatDeltas`
are empty), which is what makes the count comparable. `MaxRevision` 20 is above what
any run of that size can do. `RoomToFire` belongs to the model: it keeps a firing
from being cut short by a bound, which would look like an exception.

`confidence` starts where two claims and two evidences exist (`TwoClaimsInit`, what
five calls leave behind), so that the calls `MaxRevision` leaves are spent on
contradictions, gaps, statistics and hints; an average that falls needs two
contradictions and a third to add, sharing needs two claims, a saturated rule
needs one update of three firings. In `packet_capture` two gaps make the loop over
gaps visible, one evidence can close, contradict and refute, and seven changes take
a claim created as confirmed into a dispute and out of it again. In
`reviewed_operation` two calls of others are the least that can hide a change: one
to take the revision our call did not, one to undo what would show it. The
vocabularies of `proposal_review` are complete; two steps reach every pair of keys
and every key under every kind of nesting, and what the validators do at a level
does not depend on the levels around it. `MaxNesting` cuts off
nothing in `rule_documents` and `proposal_review`: TLC checks `NestingIsBounded` and
`RoomToNest`. Definitions
of the bounds are in the `MC...` modules, the rest in the `.cfg` files.

**Fairness.** The engine has no scheduler, never acts on its own and promises
nothing eventually. Two of its clients run to an end: the packet builder is a
straight line of calls and one loop over a tuple it was given
(`engine_inspector.py:93`), the reviewed examples a straight line of stages. Their
own next step stays possible until it is taken, and nothing in the code blocks it,
so weak fairness of `Reading` and of `OperationStep` says only that the client's
thread goes on. The other callers are under no obligation, neither to call nor to
stop, except for the bounds (`MaxRevision`, `MaxOtherCalls`). `CaptureCompletes` and
`OperationReports` are not idle: a reader that insists on a resting engine, or a
gate that waits for its decision to become current again, fails them (these are
their faulty operators).

**Other callers.** The example operations make an engine of their own, and nobody
else calls it. Their second revalidation and their pairs of identities exist for an
engine somebody else may change, as `docs/architecture/ENGINE_READ_CONSISTENCY_CONTRACT.md`
(5.1, 6) requires of readers, and that is the setting they are checked in.

**What `dispute_cycle` shows.** Item 13 of section 21.11 of
`docs/contracts/05_DATA_CONTRACT_MVP.md` says a claim without an active
contradiction cannot be disputed. `dispute_claim_if_ready` tests all
contradictions, resolved ones included (`lifecycle.py:188`). TLC's trace: a claim
is confirmed, disputed, its contradiction resolved, returned to confirmed, and
disputed again with no active contradiction left.

## Proofs

The assumptions are those of the modules: `BoundAssumption` and `InputAssumption`
of `EngineState` (bounds are naturals, inputs are drawn from what the types allow,
`None` is not a score), `DocumentAssumption`, `TemplateAssumption` and
`ConsumerAssumption` (what foreign documents, rule templates and the examples' own
calls are drawn from), `MapsAreSound` (what the compilers check when they are
imported), `ConditionsAreThere`, `NestingIsBounded` and `RoomToNest`. The last two
say that there is a depth, any, below which nothing is nested, as in every value
that was parsed from a text. Nothing else is assumed finite or small. Two groups of theorems
assume more, and name it: `FiringsOnly` and `EnginesWroteDocuments`. Every other
theorem holds of every sequence of calls.

**The engine.**

- `EngineTypeCorrect`: `Spec => []TypeOK`. `TypeOK` is inductive as it stands
  because it includes `IdsIssued`: an id in a store never exceeds the counter of
  its kind. One lemma per group of actions.
- `RegistrationsStand`: `Spec => FirstRegistrationStands`. From `IdsIssued` the
  new id is in no store, so every `Put` under it keeps the map (`PutKeeps`);
  index hits and resolutions leave what they found.
- `ReferencesAlwaysResolve`: `Spec => []ReferencesResolve`. Not inductive alone:
  `AddGap` takes a gap id from the dedup index unchecked, so the invariant is
  strengthened with `IndexTargetsExist` (`ReferenceInv`). By `RegisteredKept` old
  references still resolve (`OldReferencesResolve`), and each group of actions
  answers only for those it adds (`AddedReferencesResolve`).
- `DedupIndexAlwaysExact`, `SharingStaysWithinSubject`. Inductive together with
  `ReferenceInv` (`GapInv`): a key recomputed from a gap keeps its value because
  neither the gap nor the subject of its claim ever changes (`KeysKept`); on an
  index hit equal keys mean equal subjects; on a miss the new gap has a fresh id.
- `HistoryAlwaysExplainsStatus`, `DecisionsAlwaysJustified` (`HistoryInv`). Each of
  the six transitions is one `Transit` along a legal move, justified when it is
  made (`TransitionStepIsJustified`); its event continues the path of that claim
  (`TransitKeepsHistory`); no other step decides (`OnlyTransitionsDecide`), and what
  justified a decision is never withdrawn (`JustificationStands`, from
  `RegisteredKept`). That the gap which confirmed a claim was closed by evidence
  about its subject comes from `SharingWithinSubject` (`SharersAgree`), so this
  invariant stands on all those before it.
- `EngineImplementsClaimLedger`: `Spec => ImplementsClaimLedger`, the refinement. The
  ledger's entry number n is the event that bears n, which the histories leave to be
  found among all claims (`EntryAt`). With `NumbersIssued` (no event bears a number
  not given out) a transition's event is the only one of its number, so the step
  appends one entry (`TransitAppendsEntry`); no other step touches an entry, and
  opening a claim is a step of the ledger of its own (`StepRefinesLedger`).
- `ResolvedAlwaysContradictions`, `IdentityAlwaysTracksState`. Each step allocates,
  registers or moves something and says so in the revision
  (`StepMovesRevision`: by one, under the same token). That the logical state then
  really differs is shown group by group (`StepShows`): an allocation moves a counter,
  a transition the event number, and the rest add to a set that lacked it.
- `StatsAlwaysPerVersion`: only the two actions of `Rules` write the statistics, each
  under one key, and a score that is `None` among the arguments keeps the old one.

**Saving, restoring, firing.**

- `EngineAlwaysRestorable`, `LookupsAlwaysResolve`, `IdentityAlwaysNamesState`,
  `RestoredAlwaysStands`. What the admission asks of a document (`Intact`) is
  inductive under every call of the engine, so it holds of a restored engine for
  ever (`SnapshotInv`); it is weaker than `ReferencesResolve`, because admission asks
  nothing of the subject of a claim, the entity of an observation, the ends of a
  relation, the claim of a gap, the fields behind a dedup key, or the event counter.
  The proofs assume of a foreign document only the types of its fields and
  positive ids (`DocumentAssumption`); the code checks exact integers but not the
  sign, and nothing else relates one field to another.
- `HistoryGoesOnAcrossRestores`, `DedupIndexGoesOnAcrossRestores`. What the admission
  does not ask is still true of documents that engines wrote. `Saved(s)` reads the
  state in a document as the state of an engine (an instance of `EngineProperties`
  with the fields of `s` for the variables) and `Sensible(s)` says of it what
  `HistoryInv` says of the engine. Saving makes a sensible document, migrating
  changes none of these fields, installing one gives `HistoryInv` back
  (`LineageInv`). Foreign documents are assumed sensible (`EnginesWroteDocuments`);
  in the run `snapshot_restore` there are none.
- `FailedFiringsLeaveNothing`, `TracesAlwaysTrue`, `CountAlwaysClaims`. Until its
  claim is made a firing has changed nothing; after that nothing can raise, because
  the check made first still holds (`RuntimeInv`). All need `TypeOK` under the
  runtime's own calls, which pass arguments that no direct caller need pass
  (`AddClaimTypes`, `AddGapTypes`, `UpdateRuleStatsTypes`). What a trace says is kept
  in terms of the dedup index (`Asked`: the index has each gap returned under the key
  of its type), because that is what no later call withdraws; a key gives subject and
  type (`IndexNamesGaps`), so equal types and equal gaps are the same thing
  (`TraceInv`). The count is a cardinality that grows by one with each claim
  (`CountInv`); the theorem assumes what its run does, that claims and counts come
  from firings alone (`FiringsOnly`).

**Confidence.** The factors are functions of the stores, so these are facts about
one state or one step, from `TypeOK` and `RegisteredKept`.

- `ConfidenceNeverBoosts` and `ZeroIsAlwaysForGood`: bounds of each factor
  (`FreshnessBounds`, `CountBounds`, `RuleStatsBounds`, `OtherBounds`), from which the
  product is zero through the base or a refutation and nothing else (`ZeroMeans`);
  neither is ever undone.
- `StrongContradictionAlwaysTells`: the average strength is a sum over a finite set,
  which the community modules define by a fold. That the fold computes the sum
  (it has a solution, by `Recursion`; any two agree; one more element adds its value)
  is proved by looking at a counterexample of least size (`SolutionsAgree`), since the
  induction theorems of the library cannot be instantiated here.
- `DisputeExitsAlwaysConsistent`: the freshest contradiction of the exit and that of
  the confidence are found by different code; both are the greatest id of the active
  ones (`FreshnessIsOfTheFreshest`).
- `SpreadAlwaysThroughShared` (`SpreadInv`): a claim whose own reads did not change keeps
  its factors (`UndisturbedFactors`), so a claim that moved is the one the call was
  about, or reads a rule or the hint set that the call wrote, or waits on a gap that
  the call closed.
- `KeptTraceAlwaysStands`: from `StepMovesRevision` a kept identity is never ahead of the
  engine's (`KeptInv`), so once the engine has moved past it the two can never be equal
  again; until then no store has changed.

**Packets and operations.**

- `IdentityAlwaysVouches`: the same argument for every part of a packet
  (`CaptureInv`).
- `TornPacketAlwaysTellsOneStory` (`StoryInv`, on `HistoryInv`). The status read first is
  at every later moment the claim's status or one its history leads through; a
  refuted claim stays refuted, so the confidence read later is zero and the history
  read last ends there.
- `ReceiptAlwaysTellsIfReviewed`. The identities of a cycle are read in order and none
  is ahead of the engine's (`OperationInv`). If the first is the one decided at and
  the last is one further, exactly one step of the engine lies between, and since
  the call says it made one, it was the call's own.
- `EffectAlwaysMatchesIdentity` (`EffectInv`): while the counter of other calls stands, a
  cycle knows that identity and values are those it read, and that its own call moved
  both or neither.
- `CompletedOperationAlwaysFits`, `UnbrokenReceiptsAlwaysProveOutcome` (`OutcomeInv`: `GapInv`
  and `OperationInv`; the call of each place is made on the answers before it,
  `CallFits`; what each receipt stands for is never withdrawn, `Stands`; so are the
  final reads, `FinalFits`). Why the chain proves who closed the gap: ids are issued
  and gaps first closed only by calls that move the revision (`RevisionCounts`). At
  revision 4 the operation's own four ids have used it up, so when its resolving call
  is made nobody has closed the gap, and its answer says it closed one.
  `TypedCall` repeats the lemmas of the engine for arguments that are not among those
  the constants give to other callers, since the examples pass their own.

**Documents, conditions and proposals.** These parts recurse. A recursive function
is whatever satisfies its equation, so nothing can be said of one before the equation
is known to have a solution. `RecursionSolvable` gives one if the body looks only at
arguments of lower rank; it is proved for a constant operator `Body`, and an
`INSTANCE` for each function names the body (this is how a fact about an operator is
used with provers that take none). The rank of a raw node is its distance from the
deepest level (`NodesAreRanked`), that of a tree the least rank of a node it is loaded
from (`TreeSource`), that of a layer its depth. An induction is a look at the least
counterexample (`LeastTree`, `FirstDepth`).

- `PartsAlwaysOfOneDocument` (`IInv`): the spec is that of the document it was loaded
  from whatever the caller does to its mapping, and a part is compiled from the spec
  (`PartAdded`).
- `AbsenceAlwaysNeverFires`: a compiled condition is a tree (`CompiledConditionIsTree`).
  The two copies of the operators agree (`OperatorsAgree`), so the two walks do
  (`WalksAgree`); a predicate that holds with fewer facts holds with more, and "all" and
  "any" preserve that (`FewerFactsFireLess`).
- `ReviewersAlwaysAgree`: every key of a draft is walked at the depth of its dict
  (`KeysAreWalked`); at the top the shape validator reports it, below it the other, and
  the two copies of the vocabularies are one (`SameVocabularies`, `NamesReported`).
- `NestingAlwaysHidesNothing` (`DraftInv`: a draft of n steps is nested at most 2n + 1
  deep): a step moves each layer down by none, one or two levels (`StepLayers`), so each
  dict is still there, no higher than before (`Carries`, `ReportsCarried`).

**Model-checked only.** `CaptureCompletes` and `OperationReports` are liveness under
fairness, which the prover does not reach. `RestoredStands` and the other
theorems of restoring are proved for any document; that histories and the index go
on is proved for documents written by engines, because for others it is false: the
admission lets a document through whose history says anything.

Two properties were wrong before they were proved. `SpreadOnlyThroughShared` asked two
claims that one call moved to share a gap; with a third claim one evidence may close
a gap of each, which the run with two claims cannot show. `StatsPerVersion` asked every
step for a rule it was about, which an engine without rule identities does not have.
Both are now stated as they hold.

## Not modelled

- **Role assignment validator.** Ten groups of tests of the fields of one
  dict, without state: a property of it would restate one of them. Its verdict is a
  free choice in `ReferenceOperation`. (Its group RA9 does not tell a role that is
  missing from one that is `None`.)
- **Operational scaffold, adapter, probe, role assignment example.** Scripts over
  literal records. Their calls on the engine are actions of `Engine`; they keep no state.
- **Parsing** of YAML or JSON text: the loader starts from a mapping.
- **Negative probes** of the reference operation: they show that the gates refuse, which
  the model has as branches of `Revalidate` and `ValidateRoles`.
- Fields the engine only carries, messages, logging, Python types beyond those the
  code tells apart. Floats are left out: scores are tenths and factors fractions.
  A text is the set of its words, which is what stripping, splitting and
  containment can tell apart here; letter case is not kept.

The contract between the loader and its callers that the mapping inside a loaded
specification is not written to is assumed: it is a private deep copy, but not
itself frozen.

Seen while reading, without a run, because no document says otherwise or the
difference is one of wording: a bare string inside a list is not a value to the
refutation test of `packet_validator.py`, whose comment speaks of any string
value; `proposal_schema.py` reports nothing for a required field that is `None`;
`proposal_validator.py` does not look under a key that is not a string; the
receipt of `add_gap` cannot tell a gap that was found from one that is new.
