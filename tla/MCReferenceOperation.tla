------------------------ MODULE MCReferenceOperation ------------------------
(***************************************************************************)
(* An instance of ReferenceOperation for TLC.                              *)
(***************************************************************************)
EXTENDS ReferenceOperationProperties

\* Room for the operation and for what the other callers make.
OperationBound ==
  [kind \in Kinds |-> IF kind \in {"observation", "relation"} THEN 0
                      ELSE 1 + MaxOtherCalls]

OnlyReviewed == {rule \in RuleKeys : rule[1] # NoRule}
=============================================================================
