---------------------------- MODULE RuleRuntime ----------------------------
(***************************************************************************)
(* Firing a rule (ragcore/rule_runtime.py): check its statistics, evaluate *)
(* its condition and, when that is true, make a claim, ask for each of the *)
(* required types of evidence and count the firing.  These are separate    *)
(* calls of the engine; any of them may raise, and what the ones before it *)
(* did then stays done.  The caller waits for the firing to end: it makes  *)
(* no other call meanwhile.                                                *)
(***************************************************************************)
EXTENDS Engine

CONSTANTS
  Templates,        \* compiled outputs, with the evidence types they require
  MissingEvidence,  \* GAP_TYPE_MISSING_EVIDENCE
  Idle              \* no firing is under way

DefaultSeverity == 5

FiringRecord ==
  [step : {"claim", "gaps"}, rule : RuleKeys, subject : Nat,
   template : Templates, claim : Nat, gaps : Seq(Nat)]

ASSUME TemplateAssumption ==
  /\ Templates \subseteq [base : ScoreValue, status : ClaimStatuses,
                          required : Seq(EvidenceTypes)]
  /\ MissingEvidence \in GapTypes
  /\ Idle \notin FiringRecord

VARIABLES
  firing,  \* Idle, or how far _fire_rule_core has come
  before,  \* the engine when the last firing began
  traces   \* the traces of fired rules that were returned

runtimeVars == <<vars, firing, before, traces>>

EngineNow == <<logicalState, StateIdentity>>

RuntimeInit == Init /\ firing = Idle /\ before = EngineNow /\ traces = {}

----------------------------------------------------------------------------

\* Faulty: leaves the check to update_rule_stats.
AssumeRegistered(rule) == rule \in RuleKeys

\* get_rule_stats comes first: it raises for a rule that was not registered.
IsRegistered(rule) == rule \in DOMAIN ruleStats

\* A bound, for the model only: a firing that begins can be completed.
RoomToFire(template) ==
  /\ nextId["claim"] < Bound["claim"]
  /\ nextId["gap"] + Len(template.required) <= Bound["gap"]
  /\ stateRevision + Len(template.required) + 2 <= MaxRevision

\* The condition was true: a false one ends the call with nothing done.
BeginFiring(rule, subject, template) ==
  /\ firing = Idle
  /\ IsRegistered(rule)
  /\ RoomToFire(template)
  /\ firing' = [step |-> "claim", rule |-> rule, subject |-> subject,
                template |-> template, claim |-> 0, gaps |-> <<>>]
  /\ before' = EngineNow
  /\ UNCHANGED <<vars, traces>>

FireClaim ==
  /\ firing # Idle
  /\ firing.step = "claim"
  /\ AddClaim(firing.subject, firing.rule, firing.template.base,
              firing.template.status)
  /\ firing' = [firing EXCEPT !.step = "gaps", !.claim = NewId("claim")]
  /\ UNCHANGED <<before, traces>>

\* The type of the next gap: they are asked for in order, repeats included.
NextRequired == firing.template.required[Len(firing.gaps) + 1]

FiringKey ==
  <<claims[firing.claim].subject, firing.rule[1], MissingEvidence, NextRequired>>

\* Faulty: takes the next id for the id of the gap.
NextGap == NewId("gap")

\* What add_gap returns: the gap the index has, or the one it makes.
ReturnedGap ==
  IF FiringKey \in DOMAIN gapDedupIndex THEN gapDedupIndex[FiringKey]
                                        ELSE NewId("gap")

\* The type was asked for before: add_gap finds the claim waiting already.
GapAlreadyWaited ==
  /\ FiringKey \in DOMAIN gapDedupIndex
  /\ <<firing.claim, gapDedupIndex[FiringKey]>> \in claimGapRefs
  /\ UNCHANGED vars

FireGap ==
  /\ firing # Idle
  /\ firing.step = "gaps"
  /\ Len(firing.gaps) < Len(firing.template.required)
  /\ \/ AddGap(firing.claim, MissingEvidence, NextRequired, DefaultSeverity,
               firing.rule[1])
     \/ GapAlreadyWaited
  /\ firing' = [firing EXCEPT !.gaps = Append(@, ReturnedGap)]
  /\ UNCHANGED <<before, traces>>

\* Faulty: counts the firing for every version of the rule that is registered.
CountFiringOfRule(rule) ==
  /\ rule \in DOMAIN ruleStats
  /\ ruleStats' = [other \in DOMAIN ruleStats |->
                     IF other[1] = rule[1]
                     THEN [ruleStats[other] EXCEPT !.firing = @ + 1]
                     ELSE ruleStats[other]]
  /\ AdvanceStateRevision
  /\ UNCHANGED <<nextId, crudStores, relations, gapStores, ruleDefinitions,
                 contraStores, historyStores, hintEvidenceTypes, stateToken>>

CountFiring(rule) == UpdateRuleStats(rule, 1, 0, 0, NoScore, NoScore)

FiringTrace ==
  [rule |-> firing.rule, subject |-> firing.subject, claim |-> firing.claim,
   required |-> firing.template.required, gaps |-> firing.gaps]

AllGapsAsked ==
  /\ firing.step = "gaps"
  /\ Len(firing.gaps) = Len(firing.template.required)

FireStats ==
  /\ firing # Idle
  /\ AllGapsAsked
  /\ CountFiring(firing.rule)
  /\ traces' = traces \cup {FiringTrace}
  /\ firing' = Idle
  /\ UNCHANGED before

\* A KeyError of add_claim or of update_rule_stats ends the firing with what
\* was done so far; add_gap has nothing to raise about here.
CallFails ==
  IF firing.step = "claim" THEN firing.subject \notin entities
                           ELSE AllGapsAsked /\ firing.rule \notin DOMAIN ruleStats

Raise ==
  /\ firing # Idle
  /\ CallFails
  /\ firing' = Idle
  /\ UNCHANGED <<vars, before, traces>>

OtherCall ==
  /\ firing = Idle
  /\ Next
  /\ UNCHANGED <<firing, before, traces>>

RuntimeNext ==
  \/ \E rule \in RuleKeys, subject \in Ids("entity"), template \in Templates :
       BeginFiring(rule, subject, template)
  \/ FireClaim
  \/ FireGap
  \/ FireStats
  \/ Raise
  \/ OtherCall

RuntimeSpec == RuntimeInit /\ [][RuntimeNext]_runtimeVars
=============================================================================
