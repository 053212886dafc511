-------------------------- MODULE PacketValidator --------------------------
(***************************************************************************)
(* The validator of what a consumer makes of a packet                      *)
(* (examples/inspector/packet_validator.py).  It never looks at values     *)
(* other than for a few outcome words, and reports codes F3 to F13.        *)
(*                                                                         *)
(* What consumers write is JSON-like: a value is a pair of its type and    *)
(* its content; dicts are functions from keys, lists are sequences.  A key *)
(* is in lower case; Words splits it at its separators.                    *)
(***************************************************************************)
EXTENDS Integers, Sequences, FiniteSets

CONSTANTS
  Words,      \* the words of each key
  NonString,  \* a key that is not a string
  MaxNesting  \* how deep a value may be in another

ASSUME NestingIsNat == MaxNesting \in Nat

Dict(entries) == <<"dict", entries>>
List(items) == <<"list", items>>

\* The key begins with these words and goes on.
HasPrefix(key, prefix) ==
  LET words == Words[key]
  IN  Len(words) > Len(prefix) /\ SubSeq(words, 1, Len(prefix)) = prefix

ProbabilityPrefixes == {<<"probability", "of">>, <<"prob", "of">>, <<"p", "true">>}

ProbabilityKeys == {"probability", "prob", "p_true"}

VerdictKeys == {"verdict", "label", "judgment", "decision", "ruling"}

AutoVerifiedKeys == {"verified", "is_true", "auto_true", "is_confirmed", "auto_confirmed"}

AutoRefutationValues == {"refuted", "false", "rejected", "denied", "invalid"}

MutationIntentKeys ==
  {"engine_mutation", "engine_call_args", "mutation_payload", "add_evidence_args",
   "add_claim_args", "add_gap_args", "add_observation_args", "engine_write",
   "engine_writeback"}

\* What a dict or a list holds.
Inside(obj) ==
  CASE obj[1] = "dict" -> {obj[2][key] : key \in DOMAIN obj[2]}
    [] obj[1] = "list" -> {obj[2][i] : i \in DOMAIN obj[2]}
    [] OTHER -> {}

\* What is at each depth of obj.
Layers(obj) ==
  LET layer[depth \in 0 .. MaxNesting] ==
        IF depth = 0 THEN {obj} ELSE UNION {Inside(value) : value \in layer[depth - 1]}
  IN  layer

EntriesOf(obj) ==
  IF obj[1] = "dict" THEN {<<key, obj[2][key]>> : key \in DOMAIN obj[2]} ELSE {}

\* Every entry of every dict in obj, under dicts and lists alike.
KeysAndValues(obj) ==
  UNION {UNION {EntriesOf(value) : value \in Layers(obj)[depth]} :
           depth \in 0 .. MaxNesting}

AllKeys(obj) == {entry[1] : entry \in KeysAndValues(obj)} \ {NonString}

CarriesRefutation(obj) ==
  \E entry \in KeysAndValues(obj) :
    entry[2][1] = "str" /\ entry[2][2] \in AutoRefutationValues

\* The engine's own refutation may be repeated, any other is an inference.
MayNotRefute(packet) ==
  packet.status # "refuted" /\ (packet.contradictions \/ packet.unresolvedGaps)

\* The codes of what is found.
PacketViolations(output, packet) ==
  {code \in {"F3", "F5", "F7", "F10", "F12", "F13"} :
     CASE code = "F3" -> \E key \in AllKeys(output) :
                           \/ key \in ProbabilityKeys
                           \/ \E prefix \in ProbabilityPrefixes : HasPrefix(key, prefix)
       [] code = "F5" -> /\ MayNotRefute(packet) /\ packet.contradictions
                         /\ CarriesRefutation(output)
       [] code = "F7" -> /\ MayNotRefute(packet) /\ packet.unresolvedGaps
                         /\ CarriesRefutation(output)
       [] code = "F10" -> AllKeys(output) \cap VerdictKeys # {}
       [] code = "F12" -> \E entry \in KeysAndValues(output) :
                            /\ entry[1] \in AutoVerifiedKeys
                            /\ entry[2][1] = "bool"
       [] code = "F13" -> AllKeys(output) \cap MutationIntentKeys # {}}
=============================================================================
