------------------------------- MODULE Rules -------------------------------
(***************************************************************************)
(* Rule registration and statistics (cluster C7,                           *)
(* ragcore/_engine/rules.py).  A rule is its pair of id and version; the   *)
(* definition's maturity is all the engine reads of it.                    *)
(***************************************************************************)
EXTENDS EngineState

NewRuleStats ==
  [firing |-> 0, confirmedTrue |-> 0, confirmedFalse |-> 0,
   precision |-> NoScore, falsePositiveRate |-> NoScore]

RegisterRule(rule, maturity) ==
  /\ rule \notin DOMAIN ruleDefinitions
  /\ ruleDefinitions' = Put(ruleDefinitions, rule, maturity)
  /\ ruleStats' = Put(ruleStats, rule, NewRuleStats)
  /\ AdvanceStateRevision
  /\ UNCHANGED <<nextId, crudStores, relations, gapStores, contraStores,
                 historyStores, hintEvidenceTypes, stateToken>>

\* Faulty: None erases the score.
OverrideAlways(new, old) == new

\* An argument left at None keeps the score as it is.
Override(new, old) == IF new = NoScore THEN old ELSE new

\* Faulty: advances the revision of an update that changes no value.
UpdateRuleStatsAlways(rule, fired, true, false, precision, rate) ==
  /\ rule \in DOMAIN ruleStats
  /\ LET old == ruleStats[rule]
     IN  ruleStats' = Put(ruleStats, rule,
           [firing            |-> old.firing + fired,
            confirmedTrue     |-> old.confirmedTrue + true,
            confirmedFalse    |-> old.confirmedFalse + false,
            precision         |-> Override(precision, old.precision),
            falsePositiveRate |-> Override(rate, old.falsePositiveRate)])
  /\ AdvanceStateRevision
  /\ UNCHANGED <<nextId, crudStores, relations, gapStores, ruleDefinitions,
                 contraStores, historyStores, hintEvidenceTypes, stateToken>>

\* The statistics guard is the only one: no definition is asked for.
UpdateRuleStats(rule, fired, true, false, precision, rate) ==
  /\ rule \in DOMAIN ruleStats
  /\ LET old == ruleStats[rule]
         new == [firing            |-> old.firing + fired,
                 confirmedTrue     |-> old.confirmedTrue + true,
                 confirmedFalse    |-> old.confirmedFalse + false,
                 precision         |-> Override(precision, old.precision),
                 falsePositiveRate |-> Override(rate, old.falsePositiveRate)]
     IN  /\ new # old
         /\ ruleStats' = Put(ruleStats, rule, new)
  /\ AdvanceStateRevision
  /\ UNCHANGED <<nextId, crudStores, relations, gapStores, ruleDefinitions,
                 contraStores, historyStores, hintEvidenceTypes, stateToken>>
=============================================================================
