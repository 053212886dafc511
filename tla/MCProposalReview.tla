-------------------------- MODULE MCProposalReview --------------------------
(***************************************************************************)
(* An instance of ProposalReview for TLC: every key of every vocabulary,   *)
(* and some that are there by a prefix, by one of their words, or not at   *)
(* all.                                                                    *)
(***************************************************************************)
EXTENDS ProposalReviewProperties, TLC

\* The keys whose words matter; any other is one word here.
SplitKeys ==
  "execute_plan" :> <<"execute", "plan">> @@ "run_id" :> <<"run", "id">>
  @@ "prob_of_cause" :> <<"prob", "of", "cause">>
  @@ "p_true_rate" :> <<"p", "true", "rate">>
  @@ "host_name" :> <<"host", "name">> @@ "hostname" :> <<"hostname">>

Named ==
  UNION {ShapeVocabulary[code] : code \in DOMAIN ShapeVocabulary}
  \cup UNION {NestedVocabulary[code] : code \in DOMAIN NestedVocabulary}
  \cup ProbabilityKeys \cup P2Keys \cup {"verified"}
  \cup MutationIntentKeys \cup AllowedFields

KeyWords == SplitKeys @@ [key \in Named |-> <<key>>]

KeysDrafted ==
  (DOMAIN KeyWords \ {"category", "target_claim_id"}) \cup {NonString}

Leaves == {<<"str", "refuted">>, <<"bool", TRUE>>}

SomePackets ==
  {[claim |-> 1, status |-> "candidate", contradictions |-> TRUE, unresolvedGaps |-> FALSE],
   [claim |-> 1, status |-> "disputed", contradictions |-> FALSE, unresolvedGaps |-> TRUE],
   [claim |-> 1, status |-> "refuted", contradictions |-> TRUE, unresolvedGaps |-> TRUE]}
=============================================================================
