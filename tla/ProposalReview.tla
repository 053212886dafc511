--------------------------- MODULE ProposalReview ---------------------------
(***************************************************************************)
(* The two validators of a proposal: its shape and its top-level keys      *)
(* (examples/proposal/proposal_schema.py), and the keys nested in it       *)
(* (examples/proposal/proposal_validator.py).  Each has its own copy of    *)
(* the vocabularies.  A consumer drafts a proposal, entry by entry.        *)
(***************************************************************************)
EXTENDS PacketValidator

CONSTANTS
  DraftKeys, LeafValues,  \* what an entry may be
  Packets,                \* the packets a proposal is about
  MaxDraftSteps

\* No leaf is nested, and there is room for what the steps nest.
ASSUME RoomToNest ==
  /\ MaxDraftSteps \in Nat
  /\ MaxNesting >= 2 * MaxDraftSteps + 1
  /\ \A value \in LeafValues : value[1] \notin {"dict", "list"}

----------------------------------------------------------------------------
\* The shape.

RequiredFields == {"category", "target_claim_id", "note"}

AllowedFields ==
  RequiredFields \cup {"target_evidence_id", "target_gap_id", "supporting_packet_ref"}

AllowedCategories ==
  {"uncertainty_note", "evidence_gap_question", "next_inspection_question",
   "packet_summary_note", "report_note_candidate"}

ShapeVocabulary ==
  [P1 |-> {"verdict", "label", "judgment", "decision", "ruling"},
   P3 |-> {"status_change", "set_status", "change_status", "claim_status_change",
           "force_status"},
   P4 |-> {"tool_run", "tool_command", "execute_tool", "execute_command",
           "run_command", "run_tool", "tool_invocation"},
   P5 |-> {"engine_call", "engine_mutation", "engine_call_args", "mutation_payload",
           "add_evidence_args", "add_claim_args", "add_gap_args",
           "add_observation_args", "add_relation_args", "engine_write",
           "engine_writeback"},
   P6 |-> {"final_report", "published", "final_verdict", "final_published",
           "publication_status", "report_finalized"},
   P7 |-> {"binary_verdict", "threshold_verdict", "auto_verdict",
           "threshold_decision"}]

\* No key is in two vocabularies, so the order they are tried in is no matter.
ClassifyUnknownKey(key) ==
  {code \in DOMAIN ShapeVocabulary :
     \/ key \in ShapeVocabulary[code]
     \/ code = "P4" /\ HasPrefix(key, <<"execute">>)}

\* A field of the wrong type; one that is None counts as right.
WrongField(draft, key, right) ==
  key \in DOMAIN draft /\ draft[key][1] # "None" /\ ~right

ShapeViolations(offer, about) ==
  IF offer[1] # "dict" THEN {"S1"}
  ELSE LET draft == offer[2]
           unknown == DOMAIN draft \ AllowedFields
           target == "target_claim_id"
       IN  {code \in {"S2", "S3", "S4", "S5", "S6", "S7"} :
              CASE code = "S2" -> ~(RequiredFields \subseteq DOMAIN draft)
                [] code = "S3" -> WrongField(draft, "category",
                                    draft["category"] \in
                                      {<<"str", name>> : name \in AllowedCategories})
                [] code = "S4" -> WrongField(draft, target, draft[target][1] = "int")
                [] code = "S5" -> /\ target \in DOMAIN draft
                                  /\ draft[target][1] = "int"
                                  /\ draft[target][2] # about.claim
                [] code = "S6" -> WrongField(draft, "note", draft["note"][1] = "str")
                [] code = "S7" -> \E key \in unknown :
                                    key = NonString \/ ClassifyUnknownKey(key) = {}}
           \cup UNION {ClassifyUnknownKey(key) : key \in unknown \ {NonString}}

----------------------------------------------------------------------------
\* What is nested.

NestedVocabulary ==
  [P1 |-> {"verdict", "label", "judgment", "decision", "ruling"},
   P3 |-> {"status_change", "set_status", "change_status", "claim_status_change",
           "force_status"},
   P4 |-> {"tool_run", "tool_command", "execute_tool", "execute_command",
           "run_command", "run_tool", "tool_invocation"},
   P5 |-> {"engine_call", "engine_mutation", "engine_call_args", "mutation_payload",
           "add_evidence_args", "add_claim_args", "add_gap_args",
           "add_observation_args", "add_relation_args", "engine_write",
           "engine_writeback"},
   P6 |-> {"final_report", "published", "final_verdict", "final_published",
           "publication_status", "report_finalized"},
   P7 |-> {"binary_verdict", "threshold_verdict", "auto_verdict",
           "threshold_decision"}]

P2Keys ==
  {"probability", "prob", "p_true", "truth_probability", "confidence_probability"}

P2Prefixes == {<<"probability", "of">>, <<"prob", "of">>, <<"p", "true">>}

P8Words ==
  {"cerberus", "vulnerability", "scanner", "exploit", "ssh", "cve", "nmap", "host",
   "port", "service", "asset"}

\* Faulty: passes over the dicts that are in a list.
WalkedIntoDicts(obj) ==
  IF obj[1] = "dict" THEN {obj[2][key] : key \in DOMAIN obj[2] \ {NonString}} ELSE {}

\* What is under a key that is not a string is passed over.
WalkedInto(obj) ==
  IF obj[1] = "dict" THEN {obj[2][key] : key \in DOMAIN obj[2] \ {NonString}}
  ELSE Inside(obj)

WalkWithPath(obj) ==
  LET walk[depth \in 0 .. MaxNesting] ==
        IF depth = 0 THEN {obj} ELSE UNION {WalkedInto(value) : value \in walk[depth - 1]}
  IN  walk

StringKeys(obj) == IF obj[1] = "dict" THEN DOMAIN obj[2] \ {NonString} ELSE {}

\* Each key with its depth.  A list counts as a level.
Walked(obj) ==
  UNION {UNION {{<<depth, key>> : key \in StringKeys(value)} :
                  value \in WalkWithPath(obj)[depth]} :
           depth \in 0 .. MaxNesting}

DetectNested(key) ==
  {code \in DOMAIN NestedVocabulary :
     \/ key \in NestedVocabulary[code]
     \/ code = "P4" /\ HasPrefix(key, <<"execute">>)}

\* Faulty: only the whole names.
IsProbabilityName(key) == key \in P2Keys

IsProbabilityIdentifier(key) ==
  key \in P2Keys \/ \E prefix \in P2Prefixes : HasPrefix(key, prefix)

IntrusionWords(key) == {Words[key][i] : i \in DOMAIN Words[key]} \cap P8Words

SafetyViolations(offer) ==
  IF offer[1] # "dict" THEN {}
  ELSE UNION {(IF entry[1] >= 1 THEN DetectNested(entry[2]) ELSE {})
              \cup (IF IsProbabilityIdentifier(entry[2]) THEN {"P2"} ELSE {})
              \cup (IF IntrusionWords(entry[2]) # {} THEN {"P8"} ELSE {}) :
                entry \in Walked(offer)}

----------------------------------------------------------------------------
\* Drafting.

VARIABLES
  proposal,  \* the draft
  packet,    \* the packet it is about
  steps

reviewVars == <<proposal, packet, steps>>

Init ==
  /\ packet \in Packets
  /\ proposal \in
       {Dict([key \in {} |-> 0]),
        Dict([key \in RequiredFields |->
                CASE key = "category" -> <<"str", "uncertainty_note">>
                  [] key = "target_claim_id" -> <<"int", packet.claim>>
                  [] key = "note" -> <<"str", "text">>])}
  /\ steps = 0

AddEntry(key, value) ==
  /\ key \notin DOMAIN proposal[2]
  /\ proposal' = Dict([k \in DOMAIN proposal[2] \cup {key} |->
                         IF k = key THEN value ELSE proposal[2][k]])

Nest(key) == proposal' = Dict([k \in {key} |-> proposal])

NestInList(key) == proposal' = Dict([k \in {key} |-> List(<<proposal>>)])

Next ==
  /\ steps < MaxDraftSteps
  /\ steps' = steps + 1
  /\ UNCHANGED packet
  /\ \E key \in DraftKeys :
       \/ \E value \in LeafValues : AddEntry(key, value)
       \/ Nest(key)
       \/ NestInList(key)

Spec == Init /\ [][Next]_reviewVars
=============================================================================
