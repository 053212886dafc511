--------------------------- MODULE RuleDocuments ---------------------------
(***************************************************************************)
(* From a rule's document to the parts a firing needs: the header loader   *)
(* (ragcore/rule_loader.py) and the compilers of the definition, of the    *)
(* output claim and of the required evidence (rule_compile.py,             *)
(* rule_output.py, rule_gap.py).                                           *)
(*                                                                         *)
(* The document is a mapping the caller owns and may go on changing; a     *)
(* part is compiled from the copy the loader keeps in the spec.  A call    *)
(* that raises changes nothing and is no step.  Scores are in tenths.      *)
(***************************************************************************)
EXTENDS Conditions, Functions

CONSTANTS
  NoSpec,
  RuleIdMap, ClaimTypeMap, ReasonCodeMap, RequiredEvidenceMap,
  Documents,      \* what the caller's mapping may hold at first
  EditedDocuments \* and what the caller may make of it

Uint16 == 1 .. 65535

\* Checked when the module is imported: words to distinct numbers, 0 reserved.
SoundMap(map) ==
  /\ \A name \in DOMAIN map : Strip(name) # {} /\ map[name] \in Uint16
  /\ IsInjective(map)

ASSUME MapsAreSound ==
  \A map \in {RuleIdMap, ClaimTypeMap, ReasonCodeMap, RequiredEvidenceMap} :
    SoundMap(map)

ASSUME ConditionsAreThere ==
  \A raw \in Documents \cup EditedDocuments :
    "condition" \in DOMAIN raw => raw["condition"] \in RawConditions

MaturityMap ==
  [name \in {{"experimental"}, {"stable"}, {"deprecated"}} |->
     CHOOSE maturity \in {"experimental", "stable", "deprecated"} : name = {maturity}]

\* "disputed" is not a status a rule may give.
StatusMap ==
  [name \in {{"candidate"}, {"confirmed"}, {"refuted"}} |->
     CHOOSE status \in {"candidate", "confirmed", "refuted"} : name = {status}]

VARIABLES
  document,    \* the caller's mapping, now
  loaded,      \* the mapping as it was when the spec was loaded
  spec,        \* NoSpec, or the spec
  parts,       \* what has been compiled from the spec
  registered   \* the definitions the engine has

documentVars == <<document, loaded, spec, parts, registered>>

----------------------------------------------------------------------------
\* The header.

IsText(value) == value[1] = "str" /\ Strip(value[2]) # {}

IsScore(value) == IsNumeric(value) /\ value[2] \in 0 .. 10

Holds(value, key) == value[1] = "map" /\ key \in DOMAIN value[2]

HeaderLoads(raw) ==
  /\ {"id", "version", "maturity", "reliability"} \subseteq DOMAIN raw
  /\ IsText(raw["id"])
  /\ IsNumeric(raw["version"]) /\ raw["version"][2] \in Uint16
  /\ IsText(raw["maturity"])
  /\ Holds(raw["reliability"], "prior_confidence")
  /\ IsScore(raw["reliability"][2]["prior_confidence"])

\* The header is stripped; the copy keeps the document word for word.
SpecOf(raw) ==
  [id       |-> Strip(raw["id"][2]),
   version  |-> raw["version"][2],
   maturity |-> Strip(raw["maturity"][2]),
   prior    |-> raw["reliability"][2]["prior_confidence"][2],
   raw      |-> raw]

----------------------------------------------------------------------------
\* The four compilers, each a condition to compile and what is made.

DefinitionCompiles(s) == s.id \in DOMAIN RuleIdMap /\ s.maturity \in DOMAIN MaturityMap

DefinitionOf(s) ==
  [id |-> RuleIdMap[s.id], version |-> s.version,
   maturity |-> MaturityMap[s.maturity], prior |-> s.prior]

ConditionCompiles(s) == "condition" \in DOMAIN s.raw /\ Loads[s.raw["condition"]]

ConditionOf(s) == LoadedTree[s.raw["condition"]]

ClaimBlock(s) == s.raw["output"][2]["claim"]

HasClaimBlock(s) ==
  /\ "output" \in DOMAIN s.raw
  /\ Holds(s.raw["output"], "claim")
  /\ ClaimBlock(s)[1] = "map"

\* Names are looked up as they are written, blanks included.
Known(value, map) == value[1] = "str" /\ value[2] \in DOMAIN map

OutputCompiles(s) ==
  /\ HasClaimBlock(s)
  /\ LET claim == ClaimBlock(s)[2]
     IN  /\ {"type", "status", "base_confidence", "reason_code"} \subseteq DOMAIN claim
         /\ Known(claim["type"], ClaimTypeMap)
         /\ Known(claim["status"], StatusMap)
         /\ Known(claim["reason_code"], ReasonCodeMap)
         /\ IsScore(claim["base_confidence"])

OutputOf(s) ==
  LET claim == ClaimBlock(s)[2]
  IN  [type   |-> ClaimTypeMap[claim["type"][2]],
       status |-> StatusMap[claim["status"][2]],
       base   |-> claim["base_confidence"][2],
       reason |-> ReasonCodeMap[claim["reason_code"][2]]]

\* Lenient: without a claim block, or a list in it, nothing is required.
RequiresNothing(s) ==
  \/ ~HasClaimBlock(s)
  \/ "required_evidence" \notin DOMAIN ClaimBlock(s)[2]
  \/ ClaimBlock(s)[2]["required_evidence"] = None

RequiredList(s) == ClaimBlock(s)[2]["required_evidence"]

RequiredCompiles(s) ==
  ~RequiresNothing(s) =>
    /\ RequiredList(s)[1] = "list"
    /\ \A i \in DOMAIN RequiredList(s)[2] :
         Known(RequiredList(s)[2][i], RequiredEvidenceMap)

\* In the order of the list, repeats kept.
RequiredOf(s) ==
  IF RequiresNothing(s) THEN <<>>
  ELSE [i \in DOMAIN RequiredList(s)[2] |->
          RequiredEvidenceMap[RequiredList(s)[2][i][2]]]

----------------------------------------------------------------------------

Init ==
  /\ document \in Documents
  /\ loaded = document
  /\ spec = NoSpec
  /\ parts = [part \in {} |-> 0]
  /\ registered = {}

\* The caller writes into its mapping.
Edit ==
  /\ document' \in EditedDocuments
  /\ UNCHANGED <<loaded, spec, parts, registered>>

Load ==
  /\ HeaderLoads(document)
  /\ loaded' = document
  /\ spec' = SpecOf(document)
  /\ parts' = [part \in {} |-> 0]
  /\ UNCHANGED <<document, registered>>

\* Faulty: the spec holds on to the caller's mapping instead of copying it.
AliasedSpec == [spec EXCEPT !.raw = document]

KeptSpec == spec

Compiled(part, value) ==
  /\ parts' = [p \in DOMAIN parts \cup {part} |-> IF p = part THEN value ELSE parts[p]]
  /\ UNCHANGED <<document, loaded, spec>>

CompileCondition ==
  /\ spec # NoSpec
  /\ ConditionCompiles(KeptSpec)
  /\ Compiled("condition", ConditionOf(KeptSpec))
  /\ UNCHANGED registered

CompileOutput ==
  /\ spec # NoSpec
  /\ OutputCompiles(KeptSpec)
  /\ Compiled("output", OutputOf(KeptSpec))
  /\ UNCHANGED registered

CompileRequired ==
  /\ spec # NoSpec
  /\ RequiredCompiles(KeptSpec)
  /\ Compiled("required", RequiredOf(KeptSpec))
  /\ UNCHANGED registered

\* compile_rule_definition, then register_rule, which raises for a pair it has.
RegisterRuleSpec ==
  /\ spec # NoSpec
  /\ DefinitionCompiles(KeptSpec)
  /\ LET definition == DefinitionOf(KeptSpec)
     IN  /\ \A other \in registered :
              <<other.id, other.version>> # <<definition.id, definition.version>>
         /\ Compiled("definition", definition)
         /\ registered' = registered \cup {definition}

Next ==
  \/ Edit
  \/ Load
  \/ CompileCondition
  \/ CompileOutput
  \/ CompileRequired
  \/ RegisterRuleSpec

Spec == Init /\ [][Next]_documentVars
=============================================================================
