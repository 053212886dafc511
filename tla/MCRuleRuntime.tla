--------------------------- MODULE MCRuleRuntime ---------------------------
(***************************************************************************)
(* An instance of RuleRuntime for TLC.                                     *)
(***************************************************************************)
EXTENDS RuleRuntimeProperties

RuntimeBound ==
  [kind \in Kinds |-> CASE kind \in {"claim", "entity", "gap"} -> 2
                        [] kind = "evidence" -> 1
                        [] OTHER -> 0]

BothVersions == RuleKeys

Template(required) == [base |-> 5, status |-> "candidate", required |-> required]

\* Nothing required, one type, one type twice, two types.
RequiringTemplates ==
  {Template(<<>>)}
  \cup {Template(<<a>>) : a \in EvidenceTypes}
  \cup {Template(<<a, b>>) : a, b \in EvidenceTypes}
=============================================================================
