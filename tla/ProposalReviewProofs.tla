------------------------ MODULE ProposalReviewProofs ------------------------
(***************************************************************************)
(* Proofs about ProposalReview: the validators agree, and what is reported *)
(* of a draft is still reported when it is nested or added to.  A value is *)
(* taken layer by layer, and a step moves a layer one or two levels down.  *)
(***************************************************************************)
EXTENDS ProposalReviewProperties, TLAPS

LayerBody(obj, depth, f) ==
  IF depth = 0 THEN {obj} ELSE UNION {Inside(value) : value \in f[depth - 1]}

WalkBody(obj, depth, f) ==
  IF depth = 0 THEN {obj} ELSE UNION {WalkedInto(value) : value \in f[depth - 1]}

Layering == INSTANCE Recursion WITH Body <- LayerBody

Walking == INSTANCE Recursion WITH Body <- WalkBody

Depths == 0 .. MaxNesting

DepthRank == [depth \in Depths |-> depth]

LEMMA DepthsAreRanked ==
  /\ DepthRank \in [Depths -> Nat]
  /\ \A depth \in Depths : DepthRank[depth] = depth
  /\ \A depth \in Depths : depth # 0 => depth - 1 \in Depths /\ depth - 1 < depth
  BY NestingIsNat DEF DepthRank, Depths

LEMMA LayersSolved ==
  ASSUME NEW obj
  PROVE  /\ Layers(obj)[0] = {obj}
         /\ \A depth \in Depths \ {0} :
              Layers(obj)[depth] = UNION {Inside(value) : value \in Layers(obj)[depth - 1]}
<1>1. Layering!Local(obj, Depths, DepthRank)
  BY DepthsAreRanked DEF Layering!Local, LayerBody
<1>2. \E f : f = [depth \in Depths |-> LayerBody(obj, depth, f)]
  BY <1>1, DepthsAreRanked, Layering!RecursionSolvable
<1>3. Layers(obj) = [depth \in Depths |-> LayerBody(obj, depth, Layers(obj))]
  BY <1>2 DEF Layers, LayerBody, Depths
<1>4. 0 \in Depths
  BY NestingIsNat DEF Depths
<1> QED
  BY <1>3, <1>4 DEF LayerBody

LEMMA WalkSolved ==
  ASSUME NEW obj
  PROVE  /\ WalkWithPath(obj)[0] = {obj}
         /\ \A depth \in Depths \ {0} :
              WalkWithPath(obj)[depth]
                = UNION {WalkedInto(value) : value \in WalkWithPath(obj)[depth - 1]}
<1>1. Walking!Local(obj, Depths, DepthRank)
  BY DepthsAreRanked DEF Walking!Local, WalkBody
<1>2. \E f : f = [depth \in Depths |-> WalkBody(obj, depth, f)]
  BY <1>1, DepthsAreRanked, Walking!RecursionSolvable
<1>3. WalkWithPath(obj) = [depth \in Depths |-> WalkBody(obj, depth, WalkWithPath(obj))]
  BY <1>2 DEF WalkWithPath, WalkBody, Depths
<1>4. 0 \in Depths
  BY NestingIsNat DEF Depths
<1> QED
  BY <1>3, <1>4 DEF WalkBody

\* What fails at some depth fails at a first one.
LEMMA FirstDepth ==
  ASSUME NEW T \in SUBSET Depths, T # {}
  PROVE  \E depth \in T : depth # 0 => depth - 1 \in Depths \ T
<1>1. T \in SUBSET Nat
  BY NestingIsNat DEF Depths
<1>2. PICK depth \in T : \A other \in T : depth <= other
  BY <1>1, Layering!LeastOfAll
<1>3. depth \in Nat /\ depth \in Depths
  BY <1>1
<1>4. depth # 0 => depth - 1 \in Depths /\ depth - 1 \notin T
  BY <1>2, <1>3, DepthsAreRanked
<1> QED
  BY <1>4

LEMMA EntriesFound ==
  ASSUME NEW obj, NEW key, NEW value
  PROVE  <<key, value>> \in KeysAndValues(obj) <=>
           \E depth \in Depths : \E dict \in Layers(obj)[depth] :
             dict[1] = "dict" /\ key \in DOMAIN dict[2] /\ value = dict[2][key]
<1>1. \A dict : <<key, value>> \in EntriesOf(dict) <=>
        dict[1] = "dict" /\ key \in DOMAIN dict[2] /\ value = dict[2][key]
  BY DEF EntriesOf
<1>2. <<key, value>> \in KeysAndValues(obj) <=>
        \E depth \in Depths : \E dict \in Layers(obj)[depth] : <<key, value>> \in EntriesOf(dict)
  BY DEF KeysAndValues, Depths
<1> QED
  BY <1>1, <1>2

LEMMA EntriesArePairs ==
  ASSUME NEW obj, NEW entry \in KeysAndValues(obj)
  PROVE  entry = <<entry[1], entry[2]>>
  BY DEF KeysAndValues, EntriesOf

LEMMA WalkedFound ==
  ASSUME NEW obj, NEW depth, NEW key
  PROVE  <<depth, key>> \in Walked(obj) <=>
           depth \in Depths /\ \E dict \in WalkWithPath(obj)[depth] :
             dict[1] = "dict" /\ key \in DOMAIN dict[2] \ {NonString}
  BY DEF Walked, StringKeys, Depths

LEMMA NoOtherKeys ==
  ASSUME NEW obj, AllStringKeys(obj), NEW depth \in Depths,
         NEW dict \in Layers(obj)[depth], dict[1] = "dict"
  PROVE  NonString \notin DOMAIN dict[2]
<1> SUFFICES ASSUME NonString \in DOMAIN dict[2]
             PROVE  FALSE
  OBVIOUS
<1> DEFINE value == dict[2][NonString]
<1>1. <<NonString, value>> \in KeysAndValues(obj)
  BY EntriesFound
<1> QED
  BY <1>1 DEF AllStringKeys

\* Where every key is a string, the walk passes over nothing.
LEMMA WalkReachesAll ==
  ASSUME NEW obj, AllStringKeys(obj)
  PROVE  \A depth \in Depths : WalkWithPath(obj)[depth] = Layers(obj)[depth]
<1> DEFINE Apart == {depth \in Depths : WalkWithPath(obj)[depth] # Layers(obj)[depth]}
<1>1. SUFFICES ASSUME Apart # {}
               PROVE  FALSE
  OBVIOUS
<1>2. PICK depth \in Apart : depth # 0 => depth - 1 \in Depths \ Apart
  BY <1>1, FirstDepth
<1>3. depth # 0
  BY LayersSolved, WalkSolved
<1>4. depth \in Depths \ {0} /\ depth - 1 \in Depths
      /\ WalkWithPath(obj)[depth - 1] = Layers(obj)[depth - 1]
  BY <1>2, <1>3
<1>5. ASSUME NEW value \in Layers(obj)[depth - 1]
      PROVE  WalkedInto(value) = Inside(value)
  <2>1. CASE value[1] = "dict"
    <3>1. NonString \notin DOMAIN value[2]
      BY <1>4, <2>1, NoOtherKeys
    <3> QED
      BY <2>1, <3>1 DEF WalkedInto, Inside
  <2>2. CASE value[1] # "dict"
    BY <2>2 DEF WalkedInto
  <2> QED
    BY <2>1, <2>2
<1>6. {WalkedInto(value) : value \in WalkWithPath(obj)[depth - 1]}
        = {Inside(value) : value \in Layers(obj)[depth - 1]}
  BY <1>4, <1>5
<1>7. WalkWithPath(obj)[depth] = Layers(obj)[depth]
  <2>1. WalkWithPath(obj)[depth]
          = UNION {WalkedInto(value) : value \in WalkWithPath(obj)[depth - 1]}
    BY <1>4, WalkSolved
  <2>2. Layers(obj)[depth] = UNION {Inside(value) : value \in Layers(obj)[depth - 1]}
    BY <1>4, LayersSolved
  <2> QED
    BY <1>6, <2>1, <2>2, Zenon
<1> QED
  BY <1>7

\* Every key is walked, at the depth of its dict.
LEMMA KeysAreWalked ==
  ASSUME NEW obj, AllStringKeys(obj), NEW depth \in Depths,
         NEW dict \in Layers(obj)[depth], dict[1] = "dict", NEW key \in DOMAIN dict[2]
  PROVE  <<depth, key>> \in Walked(obj) /\ key # NonString
<1>1. key # NonString
  BY NoOtherKeys
<1> QED
  BY <1>1, WalkReachesAll, WalkedFound

----------------------------------------------------------------------------
\* The codes of keys.

KeyCodes == {"P1", "P2", "P3", "P4", "P5", "P6", "P7", "P8"}

LEMMA SameVocabularies ==
  ASSUME NEW key
  PROVE  ClassifyUnknownKey(key) = DetectNested(key) /\ DetectNested(key) \subseteq KeyCodes
<1>1. ShapeVocabulary = NestedVocabulary
  BY DEF ShapeVocabulary, NestedVocabulary
<1>2. DOMAIN NestedVocabulary \subseteq KeyCodes
  BY DEF NestedVocabulary, KeyCodes
<1> QED
  BY <1>1, <1>2 DEF ClassifyUnknownKey, DetectNested

\* Why a code is reported of an obj.
TopReports(obj, code) ==
  \E key \in DOMAIN obj[2] \ AllowedFields : key # NonString /\ code \in ClassifyUnknownKey(key)

WalkReports(obj, code) ==
  \E entry \in Walked(obj) :
    \/ entry[1] >= 1 /\ code \in DetectNested(entry[2])
    \/ code = "P2" /\ IsProbabilityIdentifier(entry[2])
    \/ code = "P8" /\ IntrusionWords(entry[2]) # {}

LEMMA CodesAreReported ==
  ASSUME NEW obj, obj[1] = "dict", NEW about, NEW code \in KeyCodes
  PROVE  code \in ShapeViolations(obj, about) \cup SafetyViolations(obj) <=>
           TopReports(obj, code) \/ WalkReports(obj, code)
<1>1. code \notin {"S2", "S3", "S4", "S5", "S6", "S7"}
  BY DEF KeyCodes
<1>2. code \in ShapeViolations(obj, about) <=> TopReports(obj, code)
  BY <1>1 DEF ShapeViolations, TopReports
<1>3. code \in SafetyViolations(obj) <=> WalkReports(obj, code)
  <2> DEFINE Codes(entry) == (IF entry[1] >= 1 THEN DetectNested(entry[2]) ELSE {})
                             \cup (IF IsProbabilityIdentifier(entry[2]) THEN {"P2"} ELSE {})
                             \cup (IF IntrusionWords(entry[2]) # {} THEN {"P8"} ELSE {})
  <2>1. \A entry : code \in Codes(entry) <=>
          \/ entry[1] >= 1 /\ code \in DetectNested(entry[2])
          \/ code = "P2" /\ IsProbabilityIdentifier(entry[2])
          \/ code = "P8" /\ IntrusionWords(entry[2]) # {}
    OBVIOUS
  <2>2. SafetyViolations(obj) = UNION {Codes(entry) : entry \in Walked(obj)}
    BY DEF SafetyViolations
  <2> HIDE DEF Codes
  <2> QED
    BY <2>1, <2>2 DEF WalkReports
<1> QED
  BY <1>2, <1>3

LEMMA ProposalCodesAre ==
  ASSUME proposal[1] = "dict", NEW code \in KeyCodes
  PROVE  code \in ProposalCodes <=> TopReports(proposal, code) \/ WalkReports(proposal, code)
<1>1. code \in ProposalCodes <=>
        code \in ShapeViolations(proposal, packet) \cup SafetyViolations(proposal)
  BY DEF ProposalCodes, KeyCodes
<1> QED
  BY <1>1, CodesAreReported

\* A key that has no place in a proposal is reported at any depth.
LEMMA ForbiddenKeyReported ==
  ASSUME NEW obj, AllStringKeys(obj), obj[1] = "dict", NEW key \in AllKeys(obj)
  PROVE  /\ IsProbabilityIdentifier(key) => WalkReports(obj, "P2")
         /\ key \notin AllowedFields =>
              \A code \in DetectNested(key) : TopReports(obj, code) \/ WalkReports(obj, code)
<1>1. PICK entry \in KeysAndValues(obj) : entry[1] = key
  BY DEF AllKeys
<1>2. <<key, entry[2]>> \in KeysAndValues(obj)
  BY <1>1, EntriesArePairs
<1>3a. PICK depth \in Depths :
         \E dict \in Layers(obj)[depth] : dict[1] = "dict" /\ key \in DOMAIN dict[2]
  BY <1>2, EntriesFound
<1>3. PICK dict \in Layers(obj)[depth] : dict[1] = "dict" /\ key \in DOMAIN dict[2]
  BY <1>3a
<1>4. <<depth, key>> \in Walked(obj) /\ key # NonString
  BY <1>3, KeysAreWalked
<1>5. IsProbabilityIdentifier(key) => WalkReports(obj, "P2")
  BY <1>4 DEF WalkReports
<1>6. ASSUME key \notin AllowedFields, NEW code \in DetectNested(key)
      PROVE  TopReports(obj, code) \/ WalkReports(obj, code)
  <2>1. CASE depth = 0
    <3>1. dict = obj
      BY <1>3, <2>1, LayersSolved
    <3> QED
      BY <1>3, <1>4, <1>6, <3>1, SameVocabularies DEF TopReports
  <2>2. CASE depth # 0
    <3>1. depth >= 1
      BY <2>2, NestingIsNat DEF Depths
    <3> QED
      BY <1>4, <1>6, <3>1 DEF WalkReports
  <2> QED
    BY <2>1, <2>2
<1> QED
  BY <1>5, <1>6

----------------------------------------------------------------------------
\* Reviewers agree.

IsDraft == proposal[1] = "dict"

NamesProbability(key) ==
  key \in ProbabilityKeys \/ \E prefix \in ProbabilityPrefixes : HasPrefix(key, prefix)

LEMMA NamesReported ==
  ASSUME NEW key
  PROVE  /\ NamesProbability(key) => IsProbabilityIdentifier(key)
         /\ key \in VerdictKeys => "P1" \in DetectNested(key) /\ key \notin AllowedFields
         /\ key \in MutationIntentKeys => "P5" \in DetectNested(key) /\ key \notin AllowedFields
<1>1. ProbabilityKeys \subseteq P2Keys /\ ProbabilityPrefixes = P2Prefixes
  BY DEF ProbabilityKeys, P2Keys, ProbabilityPrefixes, P2Prefixes
<1>2. DOMAIN NestedVocabulary = {"P1", "P3", "P4", "P5", "P6", "P7"}
  BY DEF NestedVocabulary
<1>3. VerdictKeys \subseteq NestedVocabulary["P1"] /\ VerdictKeys \cap AllowedFields = {}
  BY DEF VerdictKeys, NestedVocabulary, AllowedFields, RequiredFields
<1>4. MutationIntentKeys \subseteq NestedVocabulary["P5"]
      /\ MutationIntentKeys \cap AllowedFields = {}
  BY DEF MutationIntentKeys, NestedVocabulary, AllowedFields, RequiredFields
<1>5. key \in VerdictKeys => "P1" \in DetectNested(key)
  BY <1>2, <1>3 DEF DetectNested
<1>6. key \in MutationIntentKeys => "P5" \in DetectNested(key)
  BY <1>2, <1>4 DEF DetectNested
<1> QED
  BY <1>1, <1>3, <1>4, <1>5, <1>6 DEF IsProbabilityIdentifier, NamesProbability

LEMMA ReportedByKey ==
  ASSUME NEW output, NEW about
  PROVE  /\ "F3" \in PacketViolations(output, about) =>
              \E key \in AllKeys(output) : NamesProbability(key)
         /\ "F10" \in PacketViolations(output, about) => AllKeys(output) \cap VerdictKeys # {}
         /\ "F13" \in PacketViolations(output, about) =>
              AllKeys(output) \cap MutationIntentKeys # {}
  BY DEF PacketViolations, NamesProbability

LEMMA DraftsAreAgreedOn == IsDraft => ReviewersAgree
<1> SUFFICES ASSUME IsDraft, AllStringKeys(proposal)
             PROVE  /\ "F3" \in PacketCodes => "P2" \in ProposalCodes
                    /\ "F10" \in PacketCodes => "P1" \in ProposalCodes
                    /\ "F13" \in PacketCodes => "P5" \in ProposalCodes
  BY DEF ReviewersAgree
<1>1. {"P1", "P2", "P5"} \subseteq KeyCodes
  BY DEF KeyCodes
<1>2. ASSUME "F3" \in PacketCodes
      PROVE  "P2" \in ProposalCodes
  <2>1. \E key \in AllKeys(proposal) : IsProbabilityIdentifier(key)
    BY <1>2, ReportedByKey, NamesReported DEF PacketCodes
  <2> QED
    BY <1>1, <2>1, ForbiddenKeyReported, ProposalCodesAre DEF IsDraft
<1>3. ASSUME "F10" \in PacketCodes
      PROVE  "P1" \in ProposalCodes
  <2>1. \E key \in AllKeys(proposal) : key \notin AllowedFields /\ "P1" \in DetectNested(key)
    BY <1>3, ReportedByKey, NamesReported DEF PacketCodes
  <2> QED
    BY <1>1, <2>1, ForbiddenKeyReported, ProposalCodesAre DEF IsDraft
<1>4. ASSUME "F13" \in PacketCodes
      PROVE  "P5" \in ProposalCodes
  <2>1. \E key \in AllKeys(proposal) : key \notin AllowedFields /\ "P5" \in DetectNested(key)
    BY <1>4, ReportedByKey, NamesReported DEF PacketCodes
  <2> QED
    BY <1>1, <2>1, ForbiddenKeyReported, ProposalCodesAre DEF IsDraft
<1> QED
  BY <1>2, <1>3, <1>4

----------------------------------------------------------------------------
\* Layers of a draft before and after a step.

LEMMA FirstLayers ==
  ASSUME NEW obj, MaxNesting >= 2
  PROVE  /\ 0 \in Depths /\ 1 \in Depths /\ 2 \in Depths
         /\ Layers(obj)[0] = {obj}
         /\ Layers(obj)[1] = Inside(obj)
         /\ Layers(obj)[2] = UNION {Inside(value) : value \in Inside(obj)}
<1>1. /\ 0 \in Depths /\ 1 \in Depths \ {0} /\ 2 \in Depths \ {0}
      /\ 1 - 1 = 0 /\ 2 - 1 = 1
  BY NestingIsNat DEF Depths
<1>2. Layers(obj)[0] = {obj}
  BY LayersSolved
<1>3. Layers(obj)[1] = UNION {Inside(value) : value \in Layers(obj)[0]}
  BY <1>1, LayersSolved
<1>4. Layers(obj)[2] = UNION {Inside(value) : value \in Layers(obj)[1]}
  BY <1>1, LayersSolved
<1> QED
  BY <1>1, <1>2, <1>3, <1>4

\* Equal layers have equal layers under them.
LEMMA LayersGoOn ==
  ASSUME NEW a, NEW b, NEW i \in Depths, NEW j \in Depths, i <= j,
         Layers(a)[i] = Layers(b)[j]
  PROVE  \A depth \in Depths :
           depth >= j => Layers(b)[depth] = Layers(a)[depth - (j - i)]
<1> DEFINE Apart == {depth \in Depths : /\ depth >= j
                                        /\ Layers(b)[depth] # Layers(a)[depth - (j - i)]}
<1>1. SUFFICES ASSUME Apart # {}
               PROVE  FALSE
  OBVIOUS
<1>2. PICK depth \in Apart : depth # 0 => depth - 1 \in Depths \ Apart
  BY <1>1, FirstDepth
<1>3. i \in Nat /\ j \in Nat /\ depth \in Nat /\ depth >= j
  BY NestingIsNat DEF Depths
<1>4. depth # j
  <2>1. j - (j - i) = i
    BY <1>3
  <2> QED
    BY <2>1
<1> DEFINE d == depth - (j - i)
<1>5. /\ depth \in Depths \ {0} /\ d \in Depths \ {0}
      /\ depth - 1 \in Depths /\ depth - 1 >= j
      /\ (depth - 1) - (j - i) = d - 1
  BY <1>3, <1>4, NestingIsNat DEF Depths
<1>6. Layers(b)[depth - 1] = Layers(a)[d - 1]
  BY <1>2, <1>5
<1>7. Layers(b)[depth] = UNION {Inside(value) : value \in Layers(b)[depth - 1]}
  BY <1>5, LayersSolved
<1>8. Layers(a)[d] = UNION {Inside(value) : value \in Layers(a)[d - 1]}
  BY <1>5, LayersSolved
<1> QED
  BY <1>6, <1>7, <1>8, Zenon

LEMMA LayersStop ==
  ASSUME NEW obj, NEW i \in Depths, Layers(obj)[i] = {}
  PROVE  \A depth \in Depths : depth >= i => Layers(obj)[depth] = {}
<1> DEFINE Filled == {depth \in Depths : depth >= i /\ Layers(obj)[depth] # {}}
<1>1. SUFFICES ASSUME Filled # {}
               PROVE  FALSE
  OBVIOUS
<1>2. PICK depth \in Filled : depth # 0 => depth - 1 \in Depths \ Filled
  BY <1>1, FirstDepth
<1>3. depth # i /\ i \in Nat /\ depth \in Nat /\ depth >= i
  BY NestingIsNat DEF Depths
<1>4. depth \in Depths \ {0} /\ depth - 1 \in Depths /\ depth - 1 >= i
  BY <1>3, NestingIsNat DEF Depths
<1>5. Layers(obj)[depth - 1] = {}
  BY <1>2, <1>4
<1>6. Layers(obj)[depth] = UNION {Inside(value) : value \in Layers(obj)[depth - 1]}
  BY <1>4, LayersSolved
<1> QED
  BY <1>5, <1>6

LEMMA EntryAdded ==
  ASSUME NEW old, old[1] = "dict", NEW key, key \notin DOMAIN old[2],
         NEW value, Inside(value) = {}, MaxNesting >= 2,
         NEW new, new = Dict([k \in DOMAIN old[2] \cup {key} |->
                                IF k = key THEN value ELSE old[2][k]])
  PROVE  /\ Layers(old)[1] \subseteq Layers(new)[1]
         /\ \A depth \in Depths : depth >= 2 => Layers(new)[depth] = Layers(old)[depth]
<1>1. Inside(new) = Inside(old) \cup {value}
  BY DEF Inside, Dict
<1>2. Layers(new)[2] = Layers(old)[2]
  <2>1. UNION {Inside(v) : v \in Inside(old) \cup {value}}
          = UNION {Inside(v) : v \in Inside(old)}
    OBVIOUS
  <2> QED
    BY <1>1, <2>1, FirstLayers
<1>3. \A depth \in Depths : depth >= 2 => Layers(new)[depth] = Layers(old)[depth - (2 - 2)]
  BY <1>2, FirstLayers, LayersGoOn
<1>4. \A depth \in Depths : depth - (2 - 2) = depth
  BY NestingIsNat DEF Depths
<1> QED
  BY <1>1, <1>3, <1>4, FirstLayers

LEMMA NestedInDict ==
  ASSUME NEW old, NEW key, MaxNesting >= 2, NEW new, new = Dict([k \in {key} |-> old])
  PROVE  \A depth \in Depths : depth >= 1 => Layers(new)[depth] = Layers(old)[depth - 1]
<1>1. Inside(new) = {old}
  BY DEF Inside, Dict
<1>2. Layers(new)[1] = Layers(old)[0]
  BY <1>1, FirstLayers
<1>3. 0 \in Depths /\ 1 \in Depths /\ 0 <= 1
  BY FirstLayers
<1>4. \A depth \in Depths : depth >= 1 => Layers(new)[depth] = Layers(old)[depth - (1 - 0)]
  BY <1>2, <1>3, LayersGoOn
<1>5. \A depth \in Depths : depth - (1 - 0) = depth - 1
  BY NestingIsNat DEF Depths
<1> QED
  BY <1>4, <1>5

LEMMA NestedInDictOfList ==
  ASSUME NEW old, NEW key, MaxNesting >= 2,
         NEW new, new = Dict([k \in {key} |-> List(<<old>>)])
  PROVE  /\ Layers(new)[1] = {List(<<old>>)}
         /\ \A depth \in Depths : depth >= 2 => Layers(new)[depth] = Layers(old)[depth - 2]
<1>1. Inside(new) = {List(<<old>>)}
  BY DEF Inside, Dict
<1>2. Inside(List(<<old>>)) = {old}
  BY DEF Inside, List
<1>3. Layers(new)[2] = Layers(old)[0]
  <2>1. UNION {Inside(v) : v \in {List(<<old>>)}} = {old}
    BY <1>2
  <2> QED
    BY <1>1, <2>1, FirstLayers
<1>4. 0 \in Depths /\ 2 \in Depths /\ 0 <= 2
  BY FirstLayers
<1>5. \A depth \in Depths : depth >= 2 => Layers(new)[depth] = Layers(old)[depth - (2 - 0)]
  BY <1>3, <1>4, LayersGoOn
<1>6. \A depth \in Depths : depth - (2 - 0) = depth - 2
  BY NestingIsNat DEF Depths
<1> QED
  BY <1>1, <1>5, <1>6, FirstLayers

----------------------------------------------------------------------------
\* The draft has room for the steps that are left.

DraftInv ==
  /\ IsDraft
  /\ steps \in 0 .. MaxDraftSteps
  /\ \A depth \in Depths : depth > 2 * steps + 1 => Layers(proposal)[depth] = {}

LEMMA InitDraft == Init => DraftInv
<1> SUFFICES ASSUME Init
             PROVE  DraftInv
  OBVIOUS
<1>1. MaxDraftSteps \in Nat /\ MaxNesting >= 1 /\ MaxNesting \in Nat
  BY RoomToNest, NestingIsNat
<1>2. IsDraft /\ steps = 0
  BY DEF Init, IsDraft, Dict
<1>3. \A value \in Inside(proposal) : Inside(value) = {}
  <2>1. CASE proposal = Dict([key \in {} |-> 0])
    BY <2>1 DEF Inside, Dict
  <2>2. CASE proposal # Dict([key \in {} |-> 0])
    <3>1. proposal = Dict([key \in RequiredFields |->
                CASE key = "category" -> <<"str", "uncertainty_note">>
                  [] key = "target_claim_id" -> <<"int", packet.claim>>
                  [] key = "note" -> <<"str", "text">>])
      BY <2>2 DEF Init
    <3>2. \A value \in Inside(proposal) : value[1] \in {"str", "int"}
      BY <3>1 DEF Inside, Dict, RequiredFields
    <3> QED
      BY <3>2 DEF Inside
  <2> QED
    BY <2>1, <2>2
<1>4. ASSUME NEW depth \in Depths, depth > 1
      PROVE  Layers(proposal)[depth] = {}
  <2>1. MaxNesting >= 2
    BY <1>1, <1>4 DEF Depths
  <2>2. UNION {Inside(value) : value \in Inside(proposal)} = {}
    BY <1>3
  <2>3. Layers(proposal)[2] = {} /\ 2 \in Depths
    BY <2>1, <2>2, FirstLayers
  <2>4. depth >= 2
    BY <1>1, <1>4 DEF Depths
  <2> QED
    BY <2>3, <2>4, LayersStop
<1> QED
  BY <1>1, <1>2, <1>4 DEF DraftInv

\* A dict and all it holds is in new too, no higher than it was.
Carries(old, new) ==
  \A depth \in Depths : \A dict \in Layers(old)[depth] :
    dict[1] = "dict" =>
      \E below \in Depths : \E other \in Layers(new)[below] :
        /\ below >= depth
        /\ other[1] = "dict"
        /\ DOMAIN dict[2] \subseteq DOMAIN other[2]
        /\ \A key \in DOMAIN dict[2] : other[2][key] = dict[2][key]

\* The deepest layers, and where a step puts a layer.
LEMMA StepLayers ==
  ASSUME DraftInv, Next
  PROVE  /\ IsDraft' /\ steps' = steps + 1 /\ steps' \in 0 .. MaxDraftSteps
         /\ packet' = packet
         /\ MaxNesting >= 2 * steps + 3
         /\ \/ /\ Layers(proposal)[1] \subseteq Layers(proposal')[1]
               /\ \A depth \in Depths :
                    depth >= 2 => Layers(proposal')[depth] = Layers(proposal)[depth]
               /\ DOMAIN proposal[2] \subseteq DOMAIN proposal'[2]
               /\ \A key \in DOMAIN proposal[2] : proposal'[2][key] = proposal[2][key]
            \/ \A depth \in Depths :
                 depth >= 1 => Layers(proposal')[depth] = Layers(proposal)[depth - 1]
            \/ \A depth \in Depths :
                 depth >= 2 => Layers(proposal')[depth] = Layers(proposal)[depth - 2]
<1>1. /\ steps < MaxDraftSteps /\ steps' = steps + 1 /\ packet' = packet
      /\ steps \in 0 .. MaxDraftSteps
  BY DEF Next, DraftInv
<1>2. /\ MaxDraftSteps \in Nat /\ steps \in Nat /\ MaxNesting \in Nat
      /\ MaxNesting >= 2 * MaxDraftSteps + 1
  BY <1>1, RoomToNest, NestingIsNat
<1>3. MaxNesting >= 2 * steps + 3 /\ MaxNesting >= 2 /\ steps' \in 0 .. MaxDraftSteps
  BY <1>1, <1>2
<1>4. PICK key \in DraftKeys : \/ \E value \in LeafValues : AddEntry(key, value)
                               \/ Nest(key)
                               \/ NestInList(key)
  BY DEF Next
<1>5. CASE \E value \in LeafValues : AddEntry(key, value)
  <2>1. PICK value \in LeafValues : AddEntry(key, value)
    BY <1>5
  <2>2. Inside(value) = {}
    BY RoomToNest DEF Inside
  <2>3. /\ key \notin DOMAIN proposal[2]
        /\ proposal' = Dict([k \in DOMAIN proposal[2] \cup {key} |->
                               IF k = key THEN value ELSE proposal[2][k]])
    BY <2>1 DEF AddEntry
  <2>4. /\ Layers(proposal)[1] \subseteq Layers(proposal')[1]
        /\ \A depth \in Depths :
             depth >= 2 => Layers(proposal')[depth] = Layers(proposal)[depth]
    BY <1>3, <2>2, <2>3, EntryAdded DEF DraftInv, IsDraft
  <2>5. /\ proposal'[1] = "dict"
        /\ DOMAIN proposal[2] \subseteq DOMAIN proposal'[2]
        /\ \A k \in DOMAIN proposal[2] : proposal'[2][k] = proposal[2][k]
    BY <2>3 DEF Dict
  <2> QED
    BY <1>1, <1>3, <2>4, <2>5 DEF IsDraft
<1>6. CASE Nest(key)
  <2>1. proposal' = Dict([k \in {key} |-> proposal])
    BY <1>6 DEF Nest
  <2>2. \A depth \in Depths :
          depth >= 1 => Layers(proposal')[depth] = Layers(proposal)[depth - 1]
    BY <1>3, <2>1, NestedInDict
  <2> QED
    BY <1>1, <1>3, <2>1, <2>2 DEF IsDraft, Dict
<1>7. CASE NestInList(key)
  <2>1. proposal' = Dict([k \in {key} |-> List(<<proposal>>)])
    BY <1>7 DEF NestInList
  <2>2. MaxNesting >= 2
    BY <1>3
  <2>3. /\ Layers(proposal')[1] = {List(<<proposal>>)}
        /\ \A depth \in Depths :
             depth >= 2 => Layers(proposal')[depth] = Layers(proposal)[depth - 2]
    BY <2>1, <2>2, NestedInDictOfList
  <2> QED
    BY <1>1, <1>3, <2>1, <2>3 DEF IsDraft, Dict
<1> QED
  BY <1>4, <1>5, <1>6, <1>7

LEMMA NextDraft ==
  ASSUME DraftInv, [Next]_reviewVars
  PROVE  DraftInv'
<1>1. CASE UNCHANGED reviewVars
  BY <1>1 DEF reviewVars, DraftInv, IsDraft
<1>2. CASE Next
  <2>1. steps \in Nat /\ MaxNesting \in Nat
    BY RoomToNest, NestingIsNat DEF DraftInv
  <2>2. ASSUME NEW depth \in Depths, depth > 2 * (steps + 1) + 1
        PROVE  Layers(proposal')[depth] = {}
    <3>1. /\ depth >= 2
          /\ depth - 1 \in Depths /\ depth - 2 \in Depths
          /\ depth > 2 * steps + 1 /\ depth - 1 > 2 * steps + 1 /\ depth - 2 > 2 * steps + 1
      BY <2>1, <2>2 DEF Depths
    <3>2. /\ Layers(proposal)[depth] = {}
          /\ Layers(proposal)[depth - 1] = {}
          /\ Layers(proposal)[depth - 2] = {}
      BY <2>2, <3>1 DEF DraftInv
    <3>3. depth >= 1
      BY <2>1, <3>1 DEF Depths
    <3> QED
      BY <1>2, <2>2, <3>1, <3>2, <3>3, StepLayers
  <2> QED
    BY <1>2, <2>2, StepLayers DEF DraftInv
<1> QED
  BY <1>1, <1>2

LEMMA AlwaysDraftInv == Spec => []DraftInv
  BY InitDraft, NextDraft, PTL DEF Spec

LEMMA StepCarries ==
  ASSUME DraftInv, Next
  PROVE  Carries(proposal, proposal')
<1> SUFFICES ASSUME NEW depth \in Depths, NEW dict \in Layers(proposal)[depth],
                    dict[1] = "dict"
             PROVE  \E below \in Depths : \E other \in Layers(proposal')[below] :
                      /\ below >= depth
                      /\ other[1] = "dict"
                      /\ DOMAIN dict[2] \subseteq DOMAIN other[2]
                      /\ \A key \in DOMAIN dict[2] : other[2][key] = dict[2][key]
  BY DEF Carries
<1>1. /\ depth \in Nat /\ steps \in Nat /\ MaxNesting \in Nat
      /\ MaxNesting >= 2 * steps + 3
  BY StepLayers, RoomToNest, NestingIsNat DEF DraftInv, Depths
<1>2. depth <= 2 * steps + 1
  BY <1>1 DEF DraftInv
<1>3. /\ 0 \in Depths /\ depth + 1 \in Depths /\ depth + 2 \in Depths
      /\ (depth + 1) - 1 = depth /\ (depth + 2) - 2 = depth
      /\ depth + 1 >= depth /\ depth + 2 >= depth /\ depth >= depth
      /\ depth + 1 >= 1 /\ depth + 2 >= 2
  BY <1>1, <1>2 DEF Depths
<1>4. CASE /\ Layers(proposal)[1] \subseteq Layers(proposal')[1]
           /\ \A d \in Depths : d >= 2 => Layers(proposal')[d] = Layers(proposal)[d]
           /\ DOMAIN proposal[2] \subseteq DOMAIN proposal'[2]
           /\ \A key \in DOMAIN proposal[2] : proposal'[2][key] = proposal[2][key]
  <2>1. CASE depth = 0
    <3>1. dict = proposal /\ proposal' \in Layers(proposal')[0]
      BY <2>1, LayersSolved
    <3>2. proposal'[1] = "dict"
      BY StepLayers DEF IsDraft
    <3> QED
      BY <1>3, <1>4, <2>1, <3>1, <3>2
  <2>2. CASE depth # 0
    <3>1. depth = 1 \/ depth >= 2
      BY <1>1, <2>2
    <3>2. dict \in Layers(proposal')[depth]
      BY <1>4, <3>1
    <3> QED
      BY <1>3, <3>2
  <2> QED
    BY <2>1, <2>2
<1>5. CASE \A d \in Depths : d >= 1 => Layers(proposal')[d] = Layers(proposal)[d - 1]
  <2>1. Layers(proposal')[depth + 1] = Layers(proposal)[depth]
    BY <1>3, <1>5
  <2> QED
    BY <1>3, <2>1
<1>6. CASE \A d \in Depths : d >= 2 => Layers(proposal')[d] = Layers(proposal)[d - 2]
  <2>1. Layers(proposal')[depth + 2] = Layers(proposal)[depth]
    BY <1>3, <1>6
  <2> QED
    BY <1>3, <2>1
<1> QED
  BY <1>4, <1>5, <1>6, StepLayers

----------------------------------------------------------------------------
\* What is carried is reported.

LEMMA EntriesCarried ==
  ASSUME NEW old, NEW new, Carries(old, new)
  PROVE  KeysAndValues(old) \subseteq KeysAndValues(new)
<1> SUFFICES ASSUME NEW entry \in KeysAndValues(old)
             PROVE  entry \in KeysAndValues(new)
  OBVIOUS
<1> DEFINE key == entry[1]
           value == entry[2]
<1>1. entry = <<key, value>>
  BY EntriesArePairs
<1> HIDE DEF key, value
<1>2. \E depth \in Depths : \E dict \in Layers(old)[depth] :
        dict[1] = "dict" /\ key \in DOMAIN dict[2] /\ value = dict[2][key]
  BY <1>1, EntriesFound
<1>3. \E depth \in Depths : \E dict \in Layers(new)[depth] :
        dict[1] = "dict" /\ key \in DOMAIN dict[2] /\ value = dict[2][key]
  BY <1>2 DEF Carries
<1>4. <<key, value>> \in KeysAndValues(new)
  BY <1>3, EntriesFound
<1> QED
  BY <1>1, <1>4

LEMMA PacketCodesGrow ==
  ASSUME NEW old, NEW new, KeysAndValues(old) \subseteq KeysAndValues(new), NEW about
  PROVE  PacketViolations(old, about) \subseteq PacketViolations(new, about)
<1>1. AllKeys(old) \subseteq AllKeys(new)
  BY DEF AllKeys
<1>2. CarriesRefutation(old) => CarriesRefutation(new)
  BY DEF CarriesRefutation
<1> QED
  BY <1>1, <1>2 DEF PacketViolations

LEMMA ReportsCarried ==
  ASSUME NEW old, old[1] = "dict", NEW new, Carries(old, new), AllStringKeys(new),
         NEW code \in KeyCodes, TopReports(old, code) \/ WalkReports(old, code)
  PROVE  TopReports(new, code) \/ WalkReports(new, code)
<1>1. AllStringKeys(old)
  BY EntriesCarried DEF AllStringKeys
<1>2. ASSUME NEW depth \in Depths, NEW dict \in Layers(old)[depth], dict[1] = "dict",
             NEW key \in DOMAIN dict[2]
      PROVE  \E below \in Depths : \E other \in Layers(new)[below] :
               /\ below >= depth
               /\ other[1] = "dict"
               /\ key \in DOMAIN other[2]
               /\ <<below, key>> \in Walked(new)
  <2>1. PICK below \in Depths : \E other \in Layers(new)[below] :
          below >= depth /\ other[1] = "dict" /\ key \in DOMAIN other[2]
    BY <1>2 DEF Carries
  <2> QED
    BY <2>1, KeysAreWalked
<1>3. CASE WalkReports(old, code)
  <2>1. PICK entry \in Walked(old) :
          \/ entry[1] >= 1 /\ code \in DetectNested(entry[2])
          \/ code = "P2" /\ IsProbabilityIdentifier(entry[2])
          \/ code = "P8" /\ IntrusionWords(entry[2]) # {}
    BY <1>3 DEF WalkReports
  <2> DEFINE depth == entry[1]
             key == entry[2]
  <2>2. entry = <<depth, key>>
    BY DEF Walked
  <2> HIDE DEF depth, key
  <2>3. depth \in Depths /\ \E dict \in WalkWithPath(old)[depth] :
          dict[1] = "dict" /\ key \in DOMAIN dict[2] \ {NonString}
    BY <2>2, WalkedFound
  <2>4. \E dict \in Layers(old)[depth] : dict[1] = "dict" /\ key \in DOMAIN dict[2]
    BY <1>1, <2>3, WalkReachesAll
  <2>5. PICK below \in Depths : below >= depth /\ <<below, key>> \in Walked(new)
    BY <1>2, <2>3, <2>4
  <2>6. depth >= 1 => below >= 1
    BY <2>3, <2>5, NestingIsNat DEF Depths
  <2>7. \/ depth >= 1 /\ code \in DetectNested(key)
        \/ code = "P2" /\ IsProbabilityIdentifier(key)
        \/ code = "P8" /\ IntrusionWords(key) # {}
    BY <2>1 DEF depth, key
  <2> QED
    BY <2>5, <2>6, <2>7 DEF WalkReports
<1>4. CASE TopReports(old, code)
  <2>1. PICK key \in DOMAIN old[2] \ AllowedFields :
          key # NonString /\ code \in ClassifyUnknownKey(key)
    BY <1>4 DEF TopReports
  <2>2. 0 \in Depths /\ old \in Layers(old)[0]
    BY LayersSolved, NestingIsNat DEF Depths
  <2>3. PICK below \in Depths : \E other \in Layers(new)[below] :
          key \in DOMAIN other[2] /\ <<below, key>> \in Walked(new)
    BY <1>2, <2>1, <2>2
  <2>4. CASE below = 0
    <3>1. key \in DOMAIN new[2]
      BY <2>3, <2>4, LayersSolved
    <3> QED
      BY <2>1, <3>1 DEF TopReports
  <2>5. CASE below # 0
    <3>1. below >= 1
      BY <2>5, NestingIsNat DEF Depths
    <3> QED
      BY <2>1, <2>3, <3>1, SameVocabularies DEF WalkReports
  <2> QED
    BY <2>4, <2>5
<1> QED
  BY <1>3, <1>4

----------------------------------------------------------------------------

\* However a proposal is drafted, whatever the words of its keys are: what the
\* packet validator reports by a key's name the others report too.
THEOREM ReviewersAlwaysAgree == Spec => []ReviewersAgree
<1>1. DraftInv => ReviewersAgree
  BY DraftsAreAgreedOn DEF DraftInv
<1> QED
  BY <1>1, AlwaysDraftInv, PTL

\* No step of the drafting, and so no nesting, takes a report away.
THEOREM NestingAlwaysHidesNothing == Spec => NestingHidesNothing
<1>1. ASSUME DraftInv, Next
      PROVE  /\ PacketCodes \subseteq PacketCodes'
             /\ AllStringKeys(proposal)' => ProposalCodes \subseteq ProposalCodes'
  <2>1. Carries(proposal, proposal') /\ packet' = packet /\ IsDraft /\ IsDraft'
    BY <1>1, StepCarries, StepLayers DEF DraftInv
  <2>2. PacketCodes \subseteq PacketCodes'
    BY <2>1, EntriesCarried, PacketCodesGrow DEF PacketCodes
  <2>3. ASSUME AllStringKeys(proposal)', NEW code \in ProposalCodes
        PROVE  code \in ProposalCodes'
    <3>1. code \in KeyCodes
      BY <2>3 DEF ProposalCodes, KeyCodes
    <3>2. code \in ShapeViolations(proposal, packet) \cup SafetyViolations(proposal)
      BY <2>3 DEF ProposalCodes
    <3>3. TopReports(proposal, code) \/ WalkReports(proposal, code)
      BY <2>1, <3>1, <3>2, CodesAreReported DEF IsDraft
    <3>4. TopReports(proposal', code) \/ WalkReports(proposal', code)
      BY <2>1, <2>3, <3>1, <3>3, ReportsCarried DEF IsDraft
    <3>5. code \in ShapeViolations(proposal', packet') \cup SafetyViolations(proposal')
      BY <2>1, <3>1, <3>4, CodesAreReported DEF IsDraft
    <3> QED
      BY <3>1, <3>5 DEF ProposalCodes, KeyCodes
  <2> QED
    BY <2>2, <2>3
<1>2. DraftInv /\ [Next]_reviewVars =>
        [/\ PacketCodes \subseteq PacketCodes'
         /\ AllStringKeys(proposal)' => ProposalCodes \subseteq ProposalCodes']_reviewVars
  BY <1>1
<1> QED
  BY <1>2, AlwaysDraftInv, PTL DEF Spec, NestingHidesNothing
=============================================================================
