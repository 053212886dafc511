------------------------- MODULE RuleRuntimeProofs -------------------------
(***************************************************************************)
(* That a failed firing leaves nothing behind and that what a successful   *)
(* one returned stays true, for any rules, templates and calls in between. *)
(***************************************************************************)
EXTENDS RuleRuntimeProperties, EngineProofs, FiniteSetTheorems

\* Until its claim is made a firing has changed nothing; and its rule stays
\* registered to the end, because nothing else is called meanwhile and none of
\* its own calls withdraws statistics.
FiringInv ==
  firing # Idle =>
    /\ firing \in FiringRecord
    /\ firing.rule \in DOMAIN ruleStats
    /\ firing.step = "claim" => before = EngineNow

\* The inductive invariant of a firing.
RuntimeInv == TypeOK /\ FiringInv

\* A call that changes no store changes nothing that a caller can see.
LEMMA NothingChanged == UNCHANGED vars => UNCHANGED <<EngineNow, ruleStats>>
  BY DEF vars, EngineNow, logicalState, StateIdentity, crudStores, gapStores,
     ruleStores, contraStores, historyStores

LEMMA TypeOKUnchanged == TypeOK /\ UNCHANGED vars => TypeOK'
  BY TypeInductive

\* The type to ask for next is one the template names.
LEMMA NextRequiredType ==
  ASSUME firing \in FiringRecord, Len(firing.gaps) < Len(firing.template.required)
  PROVE  NextRequired \in EvidenceTypes
<1>1. firing.template.required \in Seq(EvidenceTypes) /\ firing.gaps \in Seq(Nat)
  BY TemplateAssumption DEF FiringRecord
<1> QED
  BY <1>1 DEF NextRequired

\* The engine keeps its types under the calls that a firing makes.
LEMMA RuntimeTypes ==
  ASSUME RuntimeInv, [RuntimeNext]_runtimeVars
  PROVE  TypeOK'
<1> USE DEF RuntimeInv, FiringInv
<1>1. CASE UNCHANGED vars
  BY <1>1, TypeOKUnchanged
<1>2. CASE FireClaim
  <2>1. firing.rule \in RuleKeys
    BY <1>2 DEF FireClaim, FiringRecord
  <2> QED
    BY <1>2, <2>1, AddClaimTypes DEF FireClaim
<1>3. CASE FireGap
  <2>1. NextRequired \in EvidenceTypes
    BY <1>3, NextRequiredType DEF FireGap
  <2>2. firing.rule[1] \in RuleIds /\ MissingEvidence \in GapTypes
    BY <1>3, TemplateAssumption DEF FireGap, FiringRecord, RuleKeys
  <2>3. CASE AddGap(firing.claim, MissingEvidence, NextRequired, DefaultSeverity,
                    firing.rule[1])
    BY <2>1, <2>2, <2>3, AddGapTypes
  <2> QED
    BY <1>1, <1>3, <2>3 DEF FireGap, GapAlreadyWaited
<1>4. CASE FireStats
  <2>1. firing.rule \in RuleKeys
    BY <1>4 DEF FireStats, FiringRecord
  <2>2. UpdateRuleStats(firing.rule, 1, 0, 0, NoScore, NoScore)
    BY <1>4 DEF FireStats, CountFiring
  <2>3. NoScore \in ScoreValue \cup {NoScore} /\ 0 \in Int /\ 1 \in Int
    OBVIOUS
  <2> HIDE DEF FiringInv
  <2> QED
    BY <2>1, <2>2, <2>3, UpdateRuleStatsTypes
<1>5. CASE OtherCall
  BY <1>5, TypeInductive DEF OtherCall
<1> QED
  BY <1>1, <1>2, <1>3, <1>4, <1>5
     DEF RuntimeNext, runtimeVars, BeginFiring, Raise

\* A firing under way stays one while it makes its claim and its gaps.
LEMMA FiringKeepsRecord ==
  ASSUME TypeOK, firing \in FiringRecord, FireClaim \/ FireGap
  PROVE  firing' \in FiringRecord /\ firing'.rule = firing.rule /\ firing'.step = "gaps"
<1>1. CASE FireClaim
  <2>1. NewId("claim") \in Nat
    BY DEF NewId, TypeOK, CounterTypes, Kinds
  <2> QED
    BY <1>1, <2>1 DEF FireClaim, FiringRecord
<1>2. CASE FireGap
  <2>1. ReturnedGap \in Nat
    BY DEF ReturnedGap, NewId, TypeOK, CounterTypes, GapStoreTypes, Kinds
  <2>2. firing.gaps \in Seq(Nat)
    BY DEF FiringRecord
  <2>3. Append(firing.gaps, ReturnedGap) \in Seq(Nat)
    BY <2>1, <2>2
  <2> QED
    BY <1>2, <2>3 DEF FireGap, FiringRecord
<1> QED
  BY <1>1, <1>2

LEMMA FiringInductive ==
  ASSUME RuntimeInv, [RuntimeNext]_runtimeVars
  PROVE  FiringInv'
<1> USE DEF RuntimeInv, FiringInv
<1>1. CASE UNCHANGED runtimeVars
  BY <1>1, NothingChanged DEF runtimeVars
<1>2. ASSUME NEW rule \in RuleKeys, NEW subject \in Ids("entity"),
             NEW template \in Templates, BeginFiring(rule, subject, template)
      PROVE  FiringInv'
  <2>1. UNCHANGED EngineNow /\ UNCHANGED ruleStats
    BY <1>2, NothingChanged DEF BeginFiring
  <2>2. before' = EngineNow'
    BY <1>2, <2>1 DEF BeginFiring
  <2>3. subject \in Nat
    BY BoundAssumption DEF Ids, Kinds
  <2>4. firing' \in FiringRecord
    BY <1>2, <2>3 DEF BeginFiring, FiringRecord
  <2> QED
    BY <1>2, <2>1, <2>2, <2>4 DEF BeginFiring, IsRegistered
<1>3. CASE FireClaim
  BY <1>3, FiringKeepsRecord DEF FireClaim, AddClaim, ruleStores
<1>4. CASE FireGap
  <2>1. UNCHANGED ruleStats
    BY <1>4 DEF FireGap, AddGap, GapAlreadyWaited, ruleStores, vars
  <2> QED
    BY <1>4, <2>1, FiringKeepsRecord DEF FireGap
<1>5. CASE FireStats \/ Raise
  BY <1>5 DEF FireStats, Raise
<1>6. CASE OtherCall
  BY <1>6 DEF OtherCall
<1> QED
  BY <1>1, <1>2, <1>3, <1>4, <1>5, <1>6 DEF RuntimeNext

LEMMA RuntimeInductive == RuntimeInv /\ [RuntimeNext]_runtimeVars => RuntimeInv'
  BY RuntimeTypes, FiringInductive DEF RuntimeInv

LEMMA InitRuntime == RuntimeInit => RuntimeInv
  BY InitTypes DEF RuntimeInit, RuntimeInv, FiringInv

\* The guard get_rule_stats at the start of _fire_rule_core is enough: whatever
\* the rule, the template and the calls before it, a firing that is not counted
\* in the end has changed nothing at all.
THEOREM FailedFiringsLeaveNothing == RuntimeSpec => FailedFiringLeavesNothing
<1>1. RuntimeInv /\ [RuntimeNext]_runtimeVars
        => [ firing # Idle /\ firing' = Idle /\ ruleStats' = ruleStats =>
               EngineNow' = before ]_runtimeVars
  <2> SUFFICES ASSUME RuntimeInv, RuntimeNext, firing # Idle, firing' = Idle,
                      ruleStats' = ruleStats
               PROVE  EngineNow' = before
    OBVIOUS
  <2>1. ~OtherCall /\ ~(\E rule \in RuleKeys, subject \in Ids("entity"),
                           template \in Templates :
                           BeginFiring(rule, subject, template))
    BY DEF OtherCall, BeginFiring
  <2>2. ~FireClaim /\ ~FireGap
    <3>1. FireClaim \/ FireGap => firing' \in FiringRecord
      BY FiringKeepsRecord DEF RuntimeInv, FiringInv, FireClaim, FireGap
    <3> QED
      BY <3>1, TemplateAssumption
  <2>3. ~FireStats
    <3>1. ASSUME FireStats
          PROVE  ruleStats' # ruleStats
      <4> DEFINE old == ruleStats[firing.rule]
                 new == [firing            |-> old.firing + 1,
                         confirmedTrue     |-> old.confirmedTrue + 0,
                         confirmedFalse    |-> old.confirmedFalse + 0,
                         precision         |-> Override(NoScore, old.precision),
                         falsePositiveRate |-> Override(NoScore, old.falsePositiveRate)]
      <4>1. new # old /\ ruleStats' = Put(ruleStats, firing.rule, new)
        BY <3>1 DEF FireStats, CountFiring, UpdateRuleStats
      <4> QED
        BY <4>1 DEF Put
    <3> QED
      BY <3>1
  <2>4. CASE Raise
    <3>1. UNCHANGED EngineNow
      BY <2>4, NothingChanged DEF Raise
    <3>2. firing.step = "claim"
      BY <2>4 DEF Raise, CallFails, RuntimeInv, FiringInv
    <3> QED
      BY <3>1, <3>2 DEF RuntimeInv, FiringInv
  <2> QED
    BY <2>1, <2>2, <2>3, <2>4 DEF RuntimeNext
<1> QED
  BY <1>1, InitRuntime, RuntimeInductive, PTL DEF RuntimeSpec, FailedFiringLeavesNothing

----------------------------------------------------------------------------
\* Traces.

\* The half of DedupIndexExact that a firing relies on: what the index names
\* is a gap of that key, first asked for by a claim there is.
IndexNamesGaps ==
  /\ \A g \in DOMAIN gaps : gaps[g].claim \in DOMAIN claims
  /\ \A key \in DOMAIN gapDedupIndex :
       gapDedupIndex[key] \in DOMAIN gaps /\ KeyOfGap(gapDedupIndex[key]) = key

\* The key under which a required type of evidence is asked for.
RequiredKey(subject, rule, required) ==
  <<subject, rule[1], MissingEvidence, required>>

\* The claim of a firing, and the gaps it has asked for so far: each is the one
\* the index has for its type.
Asked(claim, rule, subject, required, asked) ==
  /\ claim \in DOMAIN claims
  /\ claims[claim].rule = rule
  /\ claims[claim].subject = subject
  /\ required \in Seq(EvidenceTypes)
  /\ asked \in Seq(Nat)
  /\ Len(asked) <= Len(required)
  /\ \A i \in 1 .. Len(asked) :
       /\ RequiredKey(subject, rule, required[i]) \in DOMAIN gapDedupIndex
       /\ gapDedupIndex[RequiredKey(subject, rule, required[i])] = asked[i]
       /\ <<claim, asked[i]>> \in claimGapRefs

\* So far for the firing under way, and in full for each trace.
FiringAsked ==
  firing # Idle =>
    IF firing.step = "claim" THEN firing.gaps = <<>>
    ELSE Asked(firing.claim, firing.rule, firing.subject,
               firing.template.required, firing.gaps)

TracesAsked ==
  \A t \in traces :
    /\ Asked(t.claim, t.rule, t.subject, t.required, t.gaps)
    /\ Len(t.gaps) = Len(t.required)

\* The inductive invariant of the traces.
TraceInv == RuntimeInv /\ IndexNamesGaps /\ FiringAsked /\ TracesAsked

LEMMA UnchangedKeeps == TypeOK /\ UNCHANGED vars => RegisteredKept
  BY UnchangedKept DEF RegisteredKept, Kept, vars, crudStores, gapStores,
     ruleStores, contraStores

LEMMA RuntimeStepKeeps ==
  ASSUME TypeOK, [RuntimeNext]_runtimeVars
  PROVE  RegisteredKept
<1>1. CASE UNCHANGED vars
  BY <1>1, UnchangedKeeps
<1>2. CASE FireClaim
  BY <1>2, AddClaimKeeps DEF FireClaim
<1>3. CASE FireGap
  BY <1>1, <1>3, AddGapKeeps DEF FireGap, GapAlreadyWaited
<1>4. CASE FireStats
  BY <1>4, UpdateRuleStatsKeeps DEF FireStats, CountFiring
<1>5. CASE OtherCall
  BY <1>5, StepKeeps DEF OtherCall
<1> QED
  BY <1>1, <1>2, <1>3, <1>4, <1>5
     DEF RuntimeNext, runtimeVars, BeginFiring, Raise

\* A claim keeps its subject and its rule.
LEMMA ClaimStands ==
  ASSUME TypeOK, RegisteredKept, NEW c \in DOMAIN claims
  PROVE  /\ c \in DOMAIN claims'
         /\ claims'[c].subject = claims[c].subject
         /\ claims'[c].rule = claims[c].rule
<1>1. c \in DOMAIN claims' /\ claims'[c] = [claims[c] EXCEPT !.status = claims'[c].status]
  BY DEF RegisteredKept
<1> QED
  BY <1>1 DEF TypeOK, CrudTypes, ClaimRecord

\* What was asked for stays asked for: nothing in it is ever withdrawn.
LEMMA AskedStands ==
  ASSUME TypeOK, RegisteredKept, NEW claim, NEW rule, NEW subject, NEW required,
         NEW asked, Asked(claim, rule, subject, required, asked)
  PROVE  Asked(claim, rule, subject, required, asked)'
<1>1. /\ claim \in DOMAIN claims'
      /\ claims'[claim].rule = rule
      /\ claims'[claim].subject = subject
  BY ClaimStands DEF Asked
<1>2. \A i \in 1 .. Len(asked) :
        /\ RequiredKey(subject, rule, required[i]) \in DOMAIN gapDedupIndex'
        /\ gapDedupIndex'[RequiredKey(subject, rule, required[i])] = asked[i]
        /\ <<claim, asked[i]>> \in claimGapRefs'
  BY DEF Asked, RegisteredKept, Kept
<1> QED
  BY <1>1, <1>2 DEF Asked, RequiredKey

\* A gap that stands keeps its key.
LEMMA StandingKey ==
  ASSUME TypeOK, RegisteredKept, IndexNamesGaps, NEW g \in DOMAIN gaps
  PROVE  /\ g \in DOMAIN gaps'
         /\ gaps'[g].claim \in DOMAIN claims'
         /\ KeyOfGap(g)' = KeyOfGap(g)
<1>1. g \in DOMAIN gaps' /\ gaps'[g] = gaps[g]
  BY DEF RegisteredKept, Kept
<1>2. /\ gaps[g].claim \in DOMAIN claims'
      /\ claims'[gaps[g].claim].subject = claims[gaps[g].claim].subject
  BY ClaimStands DEF IndexNamesGaps
<1> QED
  BY <1>1, <1>2 DEF KeyOfGap, DedupKey

LEMMA AddGapNamesGaps ==
  ASSUME TypeOK, IndexNamesGaps, NEW claim, NEW type, NEW required, NEW severity,
         NEW rule, AddGap(claim, type, required, severity, rule)
  PROVE  IndexNamesGaps'
<1>1. PICK key, id : key = DedupKey(claim, rule, type, required) /\ id = NewId("gap")
  OBVIOUS
<1>2. RegisteredKept
  BY AddGapKeeps
<1>3. \A g \in DOMAIN gaps : /\ g \in DOMAIN gaps'
                             /\ gaps'[g].claim \in DOMAIN claims'
                             /\ KeyOfGap(g)' = KeyOfGap(g)
  BY <1>2, StandingKey
<1>4. UNCHANGED claims
  BY DEF AddGap, crudStores
<1>5. CASE key \in DOMAIN gapDedupIndex
  <2>1. UNCHANGED <<gaps, gapDedupIndex>>
    BY <1>1, <1>5 DEF AddGap, ShareGap
  <2> QED
    BY <1>3, <2>1 DEF IndexNamesGaps
<1>6. CASE key \notin DOMAIN gapDedupIndex
  <2> DEFINE new == [claim |-> claim, type |-> type, required |-> required,
                     severity |-> severity, rule |-> rule]
  <2>1. gaps' = Put(gaps, id, new) /\ gapDedupIndex' = Put(gapDedupIndex, key, id)
    BY <1>1, <1>6 DEF AddGap, NewGap
  <2>2. new.claim = claim /\ new.rule = rule /\ new.type = type /\ new.required = required
    OBVIOUS
  <2> HIDE DEF new
  <2>3. gaps'[id] = new /\ DOMAIN gaps' = DOMAIN gaps \cup {id}
    BY <2>1 DEF Put
  <2>4. KeyOfGap(id)' = key /\ gaps'[id].claim \in DOMAIN claims'
    <3>1. gaps'[id].claim = claim /\ claim \in DOMAIN claims
      BY <2>2, <2>3 DEF AddGap
    <3> QED
      BY <1>1, <1>4, <2>2, <2>3, <3>1 DEF KeyOfGap, DedupKey
  <2>5. /\ DOMAIN gapDedupIndex' = DOMAIN gapDedupIndex \cup {key}
        /\ gapDedupIndex'[key] = id
        /\ \A k \in DOMAIN gapDedupIndex : gapDedupIndex'[k] = gapDedupIndex[k]
    BY <1>6, <2>1 DEF Put
  <2> QED
    BY <1>3, <2>3, <2>4, <2>5 DEF IndexNamesGaps
<1> QED
  BY <1>5, <1>6

\* A step that leaves gaps and index alone.
LEMMA OthersNameGaps ==
  ASSUME TypeOK, RegisteredKept, IndexNamesGaps, UNCHANGED <<gaps, gapDedupIndex>>
  PROVE  IndexNamesGaps'
<1>1. \A g \in DOMAIN gaps : /\ g \in DOMAIN gaps'
                             /\ gaps'[g].claim \in DOMAIN claims'
                             /\ KeyOfGap(g)' = KeyOfGap(g)
  BY StandingKey
<1> QED
  BY <1>1 DEF IndexNamesGaps

LEMMA IndexNamesGapsInductive ==
  ASSUME TypeOK, IndexNamesGaps, [RuntimeNext]_runtimeVars
  PROVE  IndexNamesGaps'
<1>1. RegisteredKept
  BY RuntimeStepKeeps
<1>2. CASE UNCHANGED vars
  BY <1>1, <1>2, OthersNameGaps DEF vars, gapStores
<1>3. CASE FireClaim
  BY <1>1, <1>3, OthersNameGaps DEF FireClaim, AddClaim, gapStores
<1>4. CASE FireGap
  BY <1>2, <1>4, AddGapNamesGaps DEF FireGap, GapAlreadyWaited
<1>5. CASE FireStats
  BY <1>1, <1>5, OthersNameGaps DEF FireStats, CountFiring, UpdateRuleStats, gapStores
<1>6. CASE OtherCall
  <2>1. CASE ~GapStep
    BY <1>1, <1>6, <2>1, OnlyGapStepsWrite, OthersNameGaps DEF OtherCall, gapStores
  <2>2. ASSUME NEW evidence, ResolveGapsForEvidence(evidence)
        PROVE  IndexNamesGaps'
    BY <1>1, <2>2, OthersNameGaps DEF ResolveGapsForEvidence
  <2> QED
    BY <2>1, <2>2, AddGapNamesGaps DEF GapStep
<1> QED
  BY <1>2, <1>3, <1>4, <1>5, <1>6
     DEF RuntimeNext, runtimeVars, BeginFiring, Raise

\* The claim of a firing is there with its subject and rule, waiting on nothing.
LEMMA FireClaimAsked ==
  ASSUME RuntimeInv, FiringAsked, FireClaim
  PROVE  FiringAsked'
<1>1. firing \in FiringRecord /\ firing.template.required \in Seq(EvidenceTypes)
  BY TemplateAssumption DEF RuntimeInv, FiringInv, FireClaim, FiringRecord
<1>2. PICK id : id = NewId("claim")
  OBVIOUS
<1> DEFINE new == [subject |-> firing.subject, rule |-> firing.rule,
                   base |-> firing.template.base, status |-> firing.template.status]
<1>3. claims' = Put(claims, id, new)
  BY <1>2 DEF FireClaim, AddClaim
<1>4. new.subject = firing.subject /\ new.rule = firing.rule
  OBVIOUS
<1> HIDE DEF new
<1>5. id \in DOMAIN claims' /\ claims'[id] = new
  BY <1>3 DEF Put
<1>6. /\ firing'.claim = id
      /\ firing'.rule = firing.rule
      /\ firing'.subject = firing.subject
      /\ firing'.template = firing.template
      /\ firing'.gaps = firing.gaps
      /\ firing'.step = "gaps"
  BY <1>1, <1>2 DEF FireClaim, FiringRecord
<1>7. firing.gaps = <<>>
  BY DEF FiringAsked, FireClaim
<1>8. PICK rule, subject, required :
        /\ rule = firing.rule
        /\ subject = firing.subject
        /\ required = firing.template.required
  OBVIOUS
<1>9. Asked(id, rule, subject, required, <<>>)'
  BY <1>1, <1>4, <1>5, <1>8 DEF Asked
<1> QED
  BY <1>6, <1>7, <1>8, <1>9 DEF FiringAsked, Asked

\* Whichever way add_gap went, the index has the gap it returned and the claim
\* waits on it.
LEMMA ReturnedGapIsAsked ==
  ASSUME FireGap, NEW key, key = FiringKey, NEW gap, gap = ReturnedGap
  PROVE  /\ key \in DOMAIN gapDedupIndex'
         /\ gapDedupIndex'[key] = gap
         /\ <<firing.claim, gap>> \in claimGapRefs'
<1>1. key = DedupKey(firing.claim, firing.rule[1], MissingEvidence, NextRequired)
  BY DEF FiringKey, DedupKey
<1>2. CASE GapAlreadyWaited
  BY <1>2 DEF GapAlreadyWaited, ReturnedGap, vars, gapStores
<1>3. CASE AddGap(firing.claim, MissingEvidence, NextRequired, DefaultSeverity,
                  firing.rule[1])
  <2>1. CASE key \in DOMAIN gapDedupIndex
    BY <1>1, <1>3, <2>1 DEF AddGap, ShareGap, ReturnedGap
  <2>2. CASE key \notin DOMAIN gapDedupIndex
    <3>1. gap = NewId("gap")
      BY <2>2 DEF ReturnedGap
    <3>2. /\ gapDedupIndex' = Put(gapDedupIndex, key, gap)
          /\ claimGapRefs' = claimGapRefs \cup {<<firing.claim, gap>>}
      BY <1>1, <1>3, <2>2, <3>1 DEF AddGap, NewGap
    <3> QED
      BY <3>2 DEF Put
  <2> QED
    BY <2>1, <2>2
<1> QED
  BY <1>2, <1>3 DEF FireGap

\* One more type has been asked for.
LEMMA FireGapAsked ==
  ASSUME RuntimeInv, RegisteredKept, FiringAsked, FireGap
  PROVE  FiringAsked'
<1>1. firing \in FiringRecord /\ firing.template.required \in Seq(EvidenceTypes)
  BY TemplateAssumption DEF RuntimeInv, FiringInv, FireGap, FiringRecord
<1>2. PICK claim, rule, subject, required, asked :
        /\ claim = firing.claim
        /\ rule = firing.rule
        /\ subject = firing.subject
        /\ required = firing.template.required
        /\ asked = firing.gaps
  OBVIOUS
<1>3. Asked(claim, rule, subject, required, asked)
  BY <1>2 DEF FiringAsked, FireGap
<1>4. Asked(claim, rule, subject, required, asked)'
  BY <1>3, AskedStands DEF RuntimeInv
<1>5. PICK key, gap : key = FiringKey /\ gap = ReturnedGap
  OBVIOUS
<1>6. /\ key \in DOMAIN gapDedupIndex'
      /\ gapDedupIndex'[key] = gap
      /\ <<claim, gap>> \in claimGapRefs'
  BY <1>2, <1>5, ReturnedGapIsAsked
<1>7. key = RequiredKey(subject, rule, required[Len(asked) + 1])
  BY <1>2, <1>3, <1>5 DEF FiringKey, NextRequired, RequiredKey, Asked
<1>8. gap \in Nat
  BY <1>5 DEF ReturnedGap, NewId, RuntimeInv, TypeOK, CounterTypes,
     GapStoreTypes, Kinds
<1>9. /\ asked \in Seq(Nat)
      /\ required \in Seq(EvidenceTypes)
      /\ Len(asked) < Len(required)
  BY <1>2, <1>3 DEF Asked, FireGap
<1>10. /\ Append(asked, gap) \in Seq(Nat)
       /\ Len(Append(asked, gap)) = Len(asked) + 1
       /\ Append(asked, gap)[Len(asked) + 1] = gap
       /\ \A i \in 1 .. Len(asked) : Append(asked, gap)[i] = asked[i]
  BY <1>8, <1>9
<1>11. Asked(claim, rule, subject, required, Append(asked, gap))'
  <2>1. ASSUME NEW i \in 1 .. Len(Append(asked, gap))
        PROVE  /\ RequiredKey(subject, rule, required[i]) \in DOMAIN gapDedupIndex'
               /\ gapDedupIndex'[RequiredKey(subject, rule, required[i])]
                    = Append(asked, gap)[i]
               /\ <<claim, Append(asked, gap)[i]>> \in claimGapRefs'
    <3>1. CASE i = Len(asked) + 1
      BY <1>6, <1>7, <1>10, <3>1
    <3>2. CASE i \in 1 .. Len(asked)
      BY <1>4, <1>10, <3>2 DEF Asked, RequiredKey
    <3>3. Len(Append(asked, gap)) = Len(asked) + 1 /\ Len(asked) \in Nat
      BY <1>9, <1>10
    <3>4. i = Len(asked) + 1 \/ i \in 1 .. Len(asked)
      BY <3>3
    <3> QED
      BY <3>1, <3>2, <3>4
  <2>2. Len(Append(asked, gap)) <= Len(required)
    BY <1>9, <1>10
  <2> QED
    BY <1>4, <1>10, <2>1, <2>2 DEF Asked, RequiredKey
<1>12. /\ firing'.claim = claim
       /\ firing'.rule = rule
       /\ firing'.subject = subject
       /\ firing'.template.required = required
       /\ firing'.gaps = Append(asked, gap)
       /\ firing'.step = "gaps"
  BY <1>1, <1>2, <1>5 DEF FireGap, FiringRecord
<1> QED
  BY <1>11, <1>12 DEF FiringAsked, Asked

LEMMA FiringAskedInductive ==
  ASSUME RuntimeInv, FiringAsked, [RuntimeNext]_runtimeVars
  PROVE  FiringAsked'
<1>1. RegisteredKept
  BY RuntimeStepKeeps DEF RuntimeInv
<1>2. CASE UNCHANGED runtimeVars
  <2>1. PICK now : now = firing
    OBVIOUS
  <2>2. now # Idle /\ now.step # "claim" =>
          Asked(now.claim, now.rule, now.subject, now.template.required, now.gaps)'
    BY <1>1, <2>1, AskedStands DEF FiringAsked, RuntimeInv
  <2> QED
    BY <1>2, <2>1, <2>2 DEF FiringAsked, Asked, runtimeVars
<1>3. ASSUME NEW rule \in RuleKeys, NEW subject \in Ids("entity"),
             NEW template \in Templates, BeginFiring(rule, subject, template)
      PROVE  FiringAsked'
  BY <1>3 DEF BeginFiring, FiringAsked
<1>4. CASE FireStats \/ Raise \/ OtherCall
  BY <1>4 DEF FireStats, Raise, OtherCall, FiringAsked
<1> QED
  BY <1>1, <1>2, <1>3, <1>4, FireClaimAsked, FireGapAsked DEF RuntimeNext

LEMMA TracesAskedInductive ==
  ASSUME RuntimeInv, FiringAsked, TracesAsked, [RuntimeNext]_runtimeVars
  PROVE  TracesAsked'
<1>1. RegisteredKept
  BY RuntimeStepKeeps DEF RuntimeInv
<1>2. ASSUME NEW t \in traces
      PROVE  /\ Asked(t.claim, t.rule, t.subject, t.required, t.gaps)'
             /\ Len(t.gaps) = Len(t.required)
  BY <1>1, AskedStands DEF TracesAsked, RuntimeInv
<1>3. CASE UNCHANGED traces
  BY <1>2, <1>3 DEF TracesAsked
<1>4. CASE FireStats
  <2>1. PICK t : t = FiringTrace
    OBVIOUS
  <2>2. Asked(t.claim, t.rule, t.subject, t.required, t.gaps)
    BY <1>4, <2>1 DEF FiringTrace, FiringAsked, FireStats, AllGapsAsked
  <2>3. Asked(t.claim, t.rule, t.subject, t.required, t.gaps)'
    BY <1>1, <2>2, AskedStands DEF RuntimeInv
  <2>4. Len(t.gaps) = Len(t.required)
    BY <1>4, <2>1 DEF FiringTrace, FireStats, AllGapsAsked
  <2>5. traces' = traces \cup {t}
    BY <1>4, <2>1 DEF FireStats
  <2> QED
    BY <1>2, <2>3, <2>4, <2>5 DEF TracesAsked
<1> QED
  BY <1>3, <1>4
     DEF RuntimeNext, runtimeVars, BeginFiring, FireClaim, FireGap, Raise, OtherCall

LEMMA TraceInvInductive == TraceInv /\ [RuntimeNext]_runtimeVars => TraceInv'
  BY RuntimeInductive, IndexNamesGapsInductive, FiringAskedInductive,
     TracesAskedInductive DEF TraceInv, RuntimeInv

LEMMA InitTraces == RuntimeInit => TraceInv
  BY InitRuntime DEF RuntimeInit, Init, EmptyMap, TraceInv, IndexNamesGaps,
     FiringAsked, TracesAsked

\* The gap the index has for a type is about the subject and of that type;
\* two types share a gap exactly when they are the same.
LEMMA AskedIsTrue ==
  ASSUME IndexNamesGaps, NEW claim, NEW rule, NEW subject, NEW required, NEW asked,
         Asked(claim, rule, subject, required, asked), Len(asked) = Len(required)
  PROVE  \A i \in DOMAIN asked :
           /\ <<claim, asked[i]>> \in claimGapRefs
           /\ gaps[asked[i]].required = required[i]
           /\ SubjectOf(gaps[asked[i]].claim) = subject
           /\ \A j \in DOMAIN asked : (asked[i] = asked[j]) <=> (required[i] = required[j])
<1>1. DOMAIN asked = 1 .. Len(asked)
  BY DEF Asked
<1>2. ASSUME NEW i \in 1 .. Len(asked)
      PROVE  /\ KeyOfGap(asked[i]) = RequiredKey(subject, rule, required[i])
             /\ gapDedupIndex[RequiredKey(subject, rule, required[i])] = asked[i]
             /\ <<claim, asked[i]>> \in claimGapRefs
  BY DEF Asked, IndexNamesGaps
<1>3. ASSUME NEW i \in 1 .. Len(asked)
      PROVE  /\ gaps[asked[i]].required = required[i]
             /\ SubjectOf(gaps[asked[i]].claim) = subject
  BY <1>2 DEF KeyOfGap, DedupKey, RequiredKey, SubjectOf
<1> QED
  BY <1>1, <1>2, <1>3

\* What fire_rule_with_trace returned stays true, whatever is called after it
\* and whichever claims share the gaps: for templates of any length.
THEOREM TracesAlwaysTrue == RuntimeSpec => []TracesStayTrue
<1>1. TraceInv => TracesStayTrue
  <2> SUFFICES ASSUME TraceInv, NEW t \in traces
               PROVE  /\ claims[t.claim].rule = t.rule
                      /\ claims[t.claim].subject = t.subject
                      /\ Len(t.gaps) = Len(t.required)
                      /\ \A i \in DOMAIN t.gaps :
                           /\ <<t.claim, t.gaps[i]>> \in claimGapRefs
                           /\ gaps[t.gaps[i]].required = t.required[i]
                           /\ SubjectOf(gaps[t.gaps[i]].claim) = t.subject
                           /\ \A j \in DOMAIN t.gaps :
                                (t.gaps[i] = t.gaps[j]) <=> (t.required[i] = t.required[j])
    BY DEF TracesStayTrue
  <2>1. /\ Asked(t.claim, t.rule, t.subject, t.required, t.gaps)
        /\ Len(t.gaps) = Len(t.required)
    BY DEF TraceInv, TracesAsked
  <2>2. claims[t.claim].rule = t.rule /\ claims[t.claim].subject = t.subject
    BY <2>1 DEF Asked
  <2> QED
    BY <2>1, <2>2, AskedIsTrue DEF TraceInv
<1> QED
  BY <1>1, InitTraces, TraceInvInductive, PTL DEF RuntimeSpec

----------------------------------------------------------------------------
\* Counts.

\* Claims and counts come from firings alone, as in the run rule_runtime.
FiringsOnly == CreationStatuses = {} /\ StatDeltas = {}

\* Only a registered rule has made claims, so that a rule has none when its
\* statistics begin.
ClaimsOfRegistered ==
  /\ \A c \in DOMAIN claims : claims[c].rule \in DOMAIN ruleStats
  /\ DOMAIN ruleStats \subseteq DOMAIN ruleDefinitions

\* The inductive invariant of the counts.
CountInv == RuntimeInv /\ ClaimsOfRegistered /\ CountIsClaims

\* The claims of a rule can be counted.
LEMMA ClaimsAreFinite ==
  ASSUME TypeOK, NEW rule
  PROVE  IsFiniteSet(ClaimsOfRule(rule)) /\ Cardinality(ClaimsOfRule(rule)) \in Nat
<1>1. DOMAIN claims \subseteq 1 .. nextId["claim"] /\ nextId["claim"] \in Nat
  BY DEF TypeOK, IdsIssued, CounterTypes, StorageForKind, Kinds
<1>2. IsFiniteSet(1 .. nextId["claim"])
  BY <1>1, FS_Interval
<1>3. ClaimsOfRule(rule) \subseteq 1 .. nextId["claim"]
  BY <1>1 DEF ClaimsOfRule
<1> QED
  BY <1>2, <1>3, FS_Subset, FS_CardinalityType

\* What leaves the claims and their rules alone leaves the sets counted.
LEMMA SameClaimsOfRule ==
  ASSUME DOMAIN claims' = DOMAIN claims, NEW rule,
         \A c \in DOMAIN claims : claims'[c].rule = claims[c].rule
  PROVE  ClaimsOfRule(rule)' = ClaimsOfRule(rule)
  BY DEF ClaimsOfRule

\* Where nobody else makes claims, a direct call changes no rule of a claim.
LEMMA OthersMakeNoClaims ==
  ASSUME FiringsOnly, TypeOK, Next
  PROVE  /\ DOMAIN claims' = DOMAIN claims
         /\ \A c \in DOMAIN claims : claims'[c].rule = claims[c].rule
<1>1. CASE UNCHANGED claims
  BY <1>1
<1>2. CASE TransitionStep
  <2>1. PICK claim \in DOMAIN claims, to \in ClaimStatuses,
             transition \in Transitions : Transit(claim, to, transition)
    BY <1>2, TransitionStepIsTransit
  <2>2. claims' = [claims EXCEPT ![claim].status = to]
    BY <2>1 DEF Transit
  <2> QED
    BY <2>2 DEF TypeOK, CrudTypes, ClaimRecord
<1>3. CrudStep => UNCHANGED claims
  BY DEF CrudStep, FiringsOnly, AddEntity, AddObservation, AddEvidence
<1>4. RelationStep => UNCHANGED claims
  BY DEF RelationStep, AddRelation, crudStores
<1>5. RuleStep => UNCHANGED claims
  BY DEF RuleStep, RegisterRule, UpdateRuleStats, crudStores
<1>6. GapStep => UNCHANGED claims
  BY DEF GapStep, AddGap, ResolveGapsForEvidence, crudStores
<1>7. ContradictionStep => UNCHANGED claims
  BY DEF ContradictionStep, RegisterContradiction,
     RegisterContradictionResolution, crudStores
<1>8. HintStep => UNCHANGED claims
  BY DEF HintStep, RegisterHintEvidenceTypes, UnregisterHintEvidenceTypes,
     ClearHintEvidenceTypes, SetHintEvidenceTypes, crudStores
<1> QED
  BY <1>1, <1>2, <1>3, <1>4, <1>5, <1>6, <1>7, <1>8 DEF Next

\* Nor any statistics, except by registering a rule.
LEMMA OthersCountNothing ==
  ASSUME FiringsOnly, Next
  PROVE  \/ UNCHANGED <<ruleStats, ruleDefinitions>>
         \/ \E rule, maturity : RegisterRule(rule, maturity)
<1>1. CrudStep => UNCHANGED <<ruleStats, ruleDefinitions>>
  BY DEF CrudStep, AddEntity, AddObservation, AddClaim, AddEvidence, ruleStores
<1>2. RelationStep => UNCHANGED <<ruleStats, ruleDefinitions>>
  BY DEF RelationStep, AddRelation, ruleStores
<1>3. RuleStep => \E rule, maturity : RegisterRule(rule, maturity)
  BY DEF RuleStep, FiringsOnly
<1>4. GapStep => UNCHANGED <<ruleStats, ruleDefinitions>>
  BY DEF GapStep, AddGap, ResolveGapsForEvidence, ruleStores
<1>5. ContradictionStep => UNCHANGED <<ruleStats, ruleDefinitions>>
  BY DEF ContradictionStep, RegisterContradiction,
     RegisterContradictionResolution, ruleStores
<1>6. TransitionStep => UNCHANGED <<ruleStats, ruleDefinitions>>
  BY TransitionStepIsTransit DEF Transit, ruleStores
<1>7. HintStep => UNCHANGED <<ruleStats, ruleDefinitions>>
  BY DEF HintStep, RegisterHintEvidenceTypes, UnregisterHintEvidenceTypes,
     ClearHintEvidenceTypes, SetHintEvidenceTypes, ruleStores
<1> QED
  BY <1>1, <1>2, <1>3, <1>4, <1>5, <1>6, <1>7 DEF Next

\* Neither claims nor counts move.
LEMMA QuietKeepsCount ==
  ASSUME CountInv, UNCHANGED <<ruleStats, ruleDefinitions>>,
         DOMAIN claims' = DOMAIN claims,
         \A c \in DOMAIN claims : claims'[c].rule = claims[c].rule,
         \A rule : Uncounted(rule)' = Uncounted(rule)
  PROVE  (ClaimsOfRegistered /\ CountIsClaims)'
  BY SameClaimsOfRule DEF CountInv, ClaimsOfRegistered, CountIsClaims

\* A rule that is registered now has made no claim yet.
LEMMA RegisteringKeepsCount ==
  ASSUME CountInv, NEW rule, NEW maturity, RegisterRule(rule, maturity),
         DOMAIN claims' = DOMAIN claims,
         \A c \in DOMAIN claims : claims'[c].rule = claims[c].rule,
         firing = Idle, firing' = Idle
  PROVE  (ClaimsOfRegistered /\ CountIsClaims)'
<1>1. /\ rule \notin DOMAIN ruleStats
      /\ ruleDefinitions' = Put(ruleDefinitions, rule, maturity)
      /\ ruleStats' = Put(ruleStats, rule, NewRuleStats)
  BY DEF RegisterRule, CountInv, ClaimsOfRegistered
<1>2. ClaimsOfRegistered'
  <2>1. /\ DOMAIN ruleStats' = DOMAIN ruleStats \cup {rule}
        /\ DOMAIN ruleDefinitions' = DOMAIN ruleDefinitions \cup {rule}
    BY <1>1 DEF Put
  <2> QED
    BY <2>1 DEF CountInv, ClaimsOfRegistered
<1>3. ClaimsOfRule(rule) = {}
  BY <1>1 DEF ClaimsOfRule, CountInv, ClaimsOfRegistered
<1>4. ruleStats'[rule].firing = 0
  BY <1>1 DEF Put, NewRuleStats
<1>5. \A other \in DOMAIN ruleStats : ruleStats'[other] = ruleStats[other]
  BY <1>1 DEF Put
<1>6. \A other : Uncounted(other)' = 0 /\ Uncounted(other) = 0
  BY DEF Uncounted
<1>7. ClaimsOfRule(rule)' = {} /\ Cardinality({}) = 0
  BY <1>3, SameClaimsOfRule, FS_EmptySet
<1>8. DOMAIN ruleStats' = DOMAIN ruleStats \cup {rule}
  BY <1>1 DEF Put
<1>9. ASSUME NEW other \in DOMAIN ruleStats'
      PROVE  ruleStats'[other].firing + Uncounted(other)' = Cardinality(ClaimsOfRule(other)')
  <2>1. CASE other = rule
    BY <1>4, <1>6, <1>7, <2>1
  <2>2. CASE other \in DOMAIN ruleStats
    <3>1. ClaimsOfRule(other)' = ClaimsOfRule(other)
      BY SameClaimsOfRule
    <3>2. ruleStats[other].firing + Uncounted(other) = Cardinality(ClaimsOfRule(other))
      BY <2>2 DEF CountInv, CountIsClaims
    <3> QED
      BY <1>5, <1>6, <2>2, <3>1, <3>2
  <2> QED
    BY <1>8, <2>1, <2>2
<1>10. CountIsClaims'
  BY <1>9 DEF CountIsClaims
<1> QED
  BY <1>2, <1>10

\* The claim of a firing is one more, and not counted yet.
LEMMA FireClaimKeepsCount ==
  ASSUME CountInv, FireClaim
  PROVE  (ClaimsOfRegistered /\ CountIsClaims)'
<1>1. firing \in FiringRecord /\ firing.rule \in DOMAIN ruleStats
  BY DEF CountInv, RuntimeInv, FiringInv, FireClaim
<1>2. PICK id, rule : id = NewId("claim") /\ rule = firing.rule
  OBVIOUS
<1> DEFINE new == [subject |-> firing.subject, rule |-> rule,
                   base |-> firing.template.base, status |-> firing.template.status]
<1>3. claims' = Put(claims, id, new) /\ UNCHANGED <<ruleStats, ruleDefinitions>>
  BY <1>2 DEF FireClaim, AddClaim, ruleStores
<1>4. new.rule = rule
  OBVIOUS
<1> HIDE DEF new
<1>5. id \notin DOMAIN claims
  BY <1>2, NewIdFresh DEF StorageForKind, Kinds, CountInv, RuntimeInv
<1>6. /\ DOMAIN claims' = DOMAIN claims \cup {id}
      /\ claims'[id].rule = rule
      /\ \A c \in DOMAIN claims : claims'[c] = claims[c]
  BY <1>3, <1>4, <1>5 DEF Put
<1>7. /\ firing # Idle /\ firing' # Idle
      /\ firing'.rule = rule
      /\ firing.step = "claim"
      /\ firing'.step = "gaps"
  <2>1. firing' \in FiringRecord /\ firing'.rule = firing.rule /\ firing'.step = "gaps"
    BY <1>1, FiringKeepsRecord DEF CountInv, RuntimeInv
  <2> QED
    BY <1>2, <2>1, TemplateAssumption DEF FireClaim
<1>8. ASSUME NEW other \in DOMAIN ruleStats
      PROVE  ruleStats'[other].firing + Uncounted(other)' = Cardinality(ClaimsOfRule(other)')
  <2>1. ruleStats[other].firing + Uncounted(other) = Cardinality(ClaimsOfRule(other))
    BY DEF CountInv, CountIsClaims
  <2>2. Uncounted(other) = 0 /\ ruleStats'[other].firing = ruleStats[other].firing
    BY <1>3, <1>7 DEF Uncounted
  <2>3. ruleStats[other].firing = Cardinality(ClaimsOfRule(other))
    BY <2>1, <2>2 DEF CountInv, RuntimeInv, TypeOK, RuleTypes, RuleStatsRecord
  <2>4. CASE other = rule
    <3>1. ClaimsOfRule(other)' = ClaimsOfRule(other) \cup {id}
      BY <1>6, <2>4 DEF ClaimsOfRule
    <3>2. id \notin ClaimsOfRule(other)
      BY <1>5 DEF ClaimsOfRule
    <3>3. Cardinality(ClaimsOfRule(other)') = Cardinality(ClaimsOfRule(other)) + 1
      BY <3>1, <3>2, ClaimsAreFinite, FS_AddElement DEF CountInv, RuntimeInv
    <3>4. Uncounted(other)' = 1
      BY <1>7, <2>4 DEF Uncounted
    <3> QED
      BY <2>2, <2>3, <3>3, <3>4
  <2>5. CASE other # rule
    <3>1. ClaimsOfRule(other)' = ClaimsOfRule(other)
      BY <1>6, <2>5 DEF ClaimsOfRule
    <3>2. Uncounted(other)' = 0
      BY <1>7, <2>5 DEF Uncounted
    <3> QED
      BY <2>1, <2>2, <3>1, <3>2
  <2> QED
    BY <2>4, <2>5
<1>9. CountIsClaims'
  BY <1>3, <1>8 DEF CountIsClaims
<1>10. ClaimsOfRegistered'
  BY <1>1, <1>2, <1>3, <1>6 DEF CountInv, ClaimsOfRegistered
<1> QED
  BY <1>9, <1>10

\* Now it is counted.
LEMMA FireStatsKeepsCount ==
  ASSUME CountInv, FireStats
  PROVE  (ClaimsOfRegistered /\ CountIsClaims)'
<1>1. PICK rule : rule = firing.rule
  OBVIOUS
<1>2. /\ rule \in DOMAIN ruleStats
      /\ DOMAIN ruleStats' = DOMAIN ruleStats
      /\ ruleStats'[rule].firing = ruleStats[rule].firing + 1
      /\ \A other \in DOMAIN ruleStats : other # rule => ruleStats'[other] = ruleStats[other]
  BY <1>1 DEF FireStats, CountFiring, UpdateRuleStats, Put
<1>3. UNCHANGED <<claims, ruleDefinitions>>
  BY DEF FireStats, CountFiring, UpdateRuleStats, crudStores
<1>4. firing # Idle /\ firing.step = "gaps" /\ firing' = Idle
  BY DEF FireStats, AllGapsAsked
<1>5. \A other : ClaimsOfRule(other)' = ClaimsOfRule(other)
  BY <1>3 DEF ClaimsOfRule
<1>6. \A other : Uncounted(other)' = 0
  BY <1>4 DEF Uncounted
<1>7. \A other : Uncounted(other) = IF other = rule THEN 1 ELSE 0
  BY <1>1, <1>4 DEF Uncounted
<1>8. \A other \in DOMAIN ruleStats : ruleStats[other].firing \in Int
  BY DEF CountInv, RuntimeInv, TypeOK, RuleTypes, RuleStatsRecord
<1>9. \A other \in DOMAIN ruleStats :
        ruleStats[other].firing + Uncounted(other) = Cardinality(ClaimsOfRule(other))
  BY DEF CountInv, CountIsClaims
<1>10. ASSUME NEW other \in DOMAIN ruleStats
       PROVE  ruleStats'[other].firing + Uncounted(other)' = Cardinality(ClaimsOfRule(other)')
  <2>1. CASE other = rule
    BY <1>2, <1>5, <1>6, <1>7, <1>8, <1>9, <2>1
  <2>2. CASE other # rule
    BY <1>2, <1>5, <1>6, <1>7, <1>9, <2>2
  <2> QED
    BY <2>1, <2>2
<1>11. CountIsClaims'
  BY <1>2, <1>10 DEF CountIsClaims
<1>12. ClaimsOfRegistered'
  BY <1>2, <1>3 DEF CountInv, ClaimsOfRegistered
<1> QED
  BY <1>11, <1>12

LEMMA CountInductive ==
  ASSUME FiringsOnly, CountInv, [RuntimeNext]_runtimeVars
  PROVE  CountInv'
<1>1. RuntimeInv'
  BY RuntimeInductive DEF CountInv
<1> SUFFICES (ClaimsOfRegistered /\ CountIsClaims)'
  BY <1>1 DEF CountInv
<1>2. ASSUME UNCHANGED vars, \A rule : Uncounted(rule)' = Uncounted(rule)
      PROVE  (ClaimsOfRegistered /\ CountIsClaims)'
  BY <1>2, QuietKeepsCount DEF vars, crudStores, ruleStores
<1>3. CASE UNCHANGED runtimeVars
  BY <1>2, <1>3 DEF runtimeVars, Uncounted
<1>4. ASSUME NEW rule \in RuleKeys, NEW subject \in Ids("entity"),
             NEW template \in Templates, BeginFiring(rule, subject, template)
      PROVE  (ClaimsOfRegistered /\ CountIsClaims)'
  <2>1. firing'.step = "claim"
    BY <1>4 DEF BeginFiring
  <2> QED
    BY <1>2, <1>4, <2>1 DEF BeginFiring, Uncounted
<1>5. CASE FireGap
  <2>1. /\ UNCHANGED <<claims, ruleStats, ruleDefinitions>>
    BY <1>5 DEF FireGap, AddGap, GapAlreadyWaited, vars, crudStores, ruleStores
  <2>2. /\ firing # Idle /\ firing.step = "gaps"
        /\ firing' # Idle /\ firing'.step = "gaps"
        /\ firing'.rule = firing.rule
    <3>1. firing \in FiringRecord /\ firing.step = "gaps" /\ firing # Idle
      BY <1>5 DEF FireGap, CountInv, RuntimeInv, FiringInv
    <3>2. firing' \in FiringRecord /\ firing'.rule = firing.rule /\ firing'.step = "gaps"
      BY <1>5, <3>1, FiringKeepsRecord DEF CountInv, RuntimeInv
    <3> QED
      BY <3>1, <3>2, TemplateAssumption
  <2> QED
    BY <2>1, <2>2, QuietKeepsCount DEF Uncounted
<1>6. CASE Raise
  <2>1. firing.step = "claim" /\ firing' = Idle
    BY <1>6 DEF Raise, CallFails, CountInv, RuntimeInv, FiringInv
  <2> QED
    BY <1>2, <1>6, <2>1 DEF Raise, Uncounted
<1>7. CASE OtherCall
  <2>1. /\ DOMAIN claims' = DOMAIN claims
        /\ \A c \in DOMAIN claims : claims'[c].rule = claims[c].rule
    BY <1>7, OthersMakeNoClaims DEF OtherCall, CountInv, RuntimeInv
  <2>2. firing = Idle /\ firing' = Idle
    BY <1>7 DEF OtherCall
  <2>3. CASE UNCHANGED <<ruleStats, ruleDefinitions>>
    BY <2>1, <2>2, <2>3, QuietKeepsCount DEF Uncounted
  <2> QED
    BY <1>7, <2>1, <2>2, <2>3, OthersCountNothing, RegisteringKeepsCount DEF OtherCall
<1> QED
  BY <1>3, <1>4, <1>5, <1>6, <1>7, FireClaimKeepsCount, FireStatsKeepsCount
     DEF RuntimeNext

LEMMA InitCount == RuntimeInit => CountInv
  BY InitRuntime DEF RuntimeInit, Init, EmptyMap, CountInv, ClaimsOfRegistered,
     CountIsClaims

\* Where claims come from rules alone, the count of each version is the number
\* of its claims: for any rules, templates and lengths of runs, however many
\* firings raised on the way.
THEOREM CountAlwaysClaims ==
  ASSUME FiringsOnly
  PROVE  RuntimeSpec => []CountIsClaims
<1>1. CountInv => CountIsClaims
  BY DEF CountInv
<1>2. CountInv /\ [RuntimeNext]_runtimeVars => CountInv'
  BY CountInductive
<1> QED
  BY <1>1, <1>2, InitCount, PTL DEF RuntimeSpec
=============================================================================
