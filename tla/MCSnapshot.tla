----------------------------- MODULE MCSnapshot -----------------------------
(***************************************************************************)
(* Instances of Snapshot for TLC.  Foreign documents are made from one     *)
(* that the engine could have written: everything present once or twice,   *)
(* then damaged in up to two places.                                       *)
(***************************************************************************)
EXTENDS SnapshotProperties

SmallBound == [kind \in Kinds |-> IF kind \in {"observation", "relation"} THEN 0 ELSE 1]

ForeignBound ==
  [kind \in Kinds |-> IF kind \in {"observation", "relation"} THEN 0 ELSE 3]

Single(key, value) == [x \in {key} |-> value]

OneOf(set) == CHOOSE x \in set : TRUE

\* One confirmed claim with a closed gap and a contradiction resolved, one
\* candidate that shares the gap.
FullState ==
  LET rule == OneOf(RuleKeys)
      type == OneOf(EvidenceTypes)
      claim == [subject |-> 1, rule |-> rule, base |-> 5, status |-> "confirmed"]
  IN  [nextId |-> [kind \in Kinds |->
                     CASE kind \in {"claim", "evidence"} -> 2
                       [] kind \in {"entity", "gap"} -> 1
                       [] OTHER -> 0],
       lifecycleSeq |-> 1,
       entities |-> {1},
       observations |-> EmptyMap,
       claims |-> [c \in {1, 2} |->
                     IF c = 1 THEN claim ELSE [claim EXCEPT !.status = "candidate"]],
       evidences |-> [e \in {1, 2} |-> [claim |-> e, type |-> type, strength |-> 8]],
       relations |-> EmptyMap,
       gaps |-> Single(1, [claim |-> 1, type |-> OneOf(GapTypes), required |-> type,
                           severity |-> 5, rule |-> rule[1]]),
       ruleDefinitions |-> EmptyMap,
       ruleStats |-> EmptyMap,
       gapDedupIndex |-> Single(<<1, rule[1], OneOf(GapTypes), type>>, 1),
       claimGapRefs |-> {<<1, 1>>, <<2, 1>>},
       gapResolutions |-> Single(1, 1),
       contradictions |-> {<<1, 2>>},
       resolvedContradictions |-> {<<1, 2>>},
       claimLifecycleEvents |->
         Single(1, <<[seq |-> 1, from |-> "candidate", to |-> "confirmed",
                      transition |-> "confirm_if_ready"]>>),
       hintEvidenceTypes |-> EvidenceTypes]

Maps == {"claims", "evidences", "gaps", "gapDedupIndex", "gapResolutions",
         "claimLifecycleEvents"}

Sets == {"entities", "claimGapRefs", "contradictions", "resolvedContradictions"}

\* Every state that one slip makes of s: an object lost, a counter reset, an
\* index entry or a resolution redirected, a status or a score out of range.
Damaged(s) ==
  UNION {{[s EXCEPT ![map] = [x \in DOMAIN s[map] \ {key} |-> s[map][x]]] :
            key \in DOMAIN s[map]} : map \in Maps}
  \cup UNION {{[s EXCEPT ![set] = @ \ {x}] : x \in s[set]} : set \in Sets}
  \cup {[s EXCEPT !.nextId[kind] = 0] : kind \in Kinds}
  \cup {[s EXCEPT !.nextId[kind] = @ - 1] : kind \in {k \in Kinds : s.nextId[k] > 0}}
  \cup {[s EXCEPT !.lifecycleSeq = 0]}
  \cup {[s EXCEPT !.gapDedupIndex[key] = 2] : key \in DOMAIN s.gapDedupIndex}
  \cup {[s EXCEPT !.gapResolutions[g] = 2] : g \in DOMAIN s.gapResolutions}
  \cup {[s EXCEPT !.claims[c].status = "retracted"] : c \in DOMAIN s.claims}
  \cup {[s EXCEPT !.evidences[e].strength = 11] : e \in DOMAIN s.evidences}

DamagedDocuments ==
  LET once == Damaged(FullState)
  IN  [schema : {CurrentSchema},
       state : {FullState} \cup once \cup UNION {Damaged(s) : s \in once}]
      \cup [schema : {1, 3}, state : {FullState}]
=============================================================================
