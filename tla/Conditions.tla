----------------------------- MODULE Conditions -----------------------------
(***************************************************************************)
(* Structured conditions (ragcore/condition.py): loading a raw tree,       *)
(* evaluating it against a flat context and explaining the evaluation.     *)
(*                                                                         *)
(* A Python value is a pair of its type and its content.  The content of a *)
(* text is the set of its words, " " standing for blanks at its ends, and  *)
(* a part of a text is a subset of its words; the content of a number is   *)
(* the number, that of True is 1; the content of a list is a sequence and  *)
(* that of a mapping a function.                                           *)
(***************************************************************************)
EXTENDS Integers, Sequences

CONSTANTS
  RawConditions,  \* the raw trees there are to load
  MaxNesting      \* how deep a node may be in them

Text(words) == <<"str", words>>
List(items) == <<"list", items>>
Map(entries) == <<"map", entries>>
None == <<"None", 0>>

Strip(words) == words \ {" "}

NumericOps == {"lt", "le", "gt", "ge"}

Ops == NumericOps \cup {"eq", "ne", "contains"}

PredicateKeys == {"field", "op", "value"}

Combinators == {"all", "any"}

----------------------------------------------------------------------------
\* Loading.

PredicateLoads(node) ==
  /\ DOMAIN node = PredicateKeys
  /\ node["field"][1] = "str"
  /\ Strip(node["field"][2]) # {}
  /\ node["op"] \in {Text({op}) : op \in Ops}

\* A combinator, its list and nothing else; "not" is none.
IsCombinator(raw) ==
  /\ raw[1] = "map"
  /\ \E kind \in Combinators : DOMAIN raw[2] = {kind} /\ raw[2][kind][1] = "list"

KindOf(raw) == CHOOSE kind \in Combinators : kind \in DOMAIN raw[2]

Items(raw) == raw[2][KindOf(raw)][2]

Held(raw) == IF IsCombinator(raw) THEN {Items(raw)[i] : i \in DOMAIN Items(raw)} ELSE {}

\* The nodes at each depth.
level[depth \in 0 .. MaxNesting] ==
  IF depth = 0 THEN RawConditions ELSE UNION {Held(raw) : raw \in level[depth - 1]}

Nodes == UNION {level[depth] : depth \in 0 .. MaxNesting}

ASSUME NestingIsBounded ==
  /\ MaxNesting \in Nat
  /\ \A raw \in level[MaxNesting] : Held(raw) = {}

\* A node has the keys of a predicate and no others, or is a combinator.
Loads[raw \in Nodes] ==
  \/ raw[1] = "map" /\ PredicateLoads(raw[2])
  \/ IsCombinator(raw) /\ \A i \in DOMAIN Items(raw) : Loads[Items(raw)[i]]

Loadable == {raw \in Nodes : Loads[raw]}

\* The typed tree of a raw one that loads.
LoadedTree[raw \in Loadable] ==
  IF IsCombinator(raw)
  THEN [kind |-> KindOf(raw),
        children |-> [i \in DOMAIN Items(raw) |-> LoadedTree[Items(raw)[i]]]]
  ELSE [field |-> Strip(raw[2]["field"][2]),
        op    |-> CHOOSE op \in Ops : raw[2]["op"] = Text({op}),
        value |-> raw[2]["value"]]

Trees == {LoadedTree[raw] : raw \in Loadable}

IsPredicate(tree) == "field" \in DOMAIN tree

----------------------------------------------------------------------------
\* Evaluating.

\* True == 1 in Python, of any type that holds a number.
SameValue(a, b) ==
  IF {a[1], b[1]} \subseteq {"int", "bool"} THEN a[2] = b[2] ELSE a = b

\* A bool is an int in Python, and is left out on purpose.
IsNumeric(value) == value[1] = "int"

Compare(op, a, b) ==
  CASE op = "lt" -> a < b
    [] op = "le" -> a <= b
    [] op = "gt" -> a > b
    [] op = "ge" -> a >= b

EvaluateContains(actual, expected) ==
  CASE actual[1] = "str"  -> expected[1] = "str" /\ expected[2] \subseteq actual[2]
    [] actual[1] = "list" -> \E i \in DOMAIN actual[2] : SameValue(actual[2][i], expected)
    [] OTHER -> FALSE

EvaluateOp(op, actual, expected) ==
  CASE op = "eq" -> SameValue(actual, expected)
    [] op = "ne" -> ~SameValue(actual, expected)
    [] op = "contains" -> EvaluateContains(actual, expected)
    [] op \in NumericOps -> /\ IsNumeric(actual) /\ IsNumeric(expected)
                            /\ Compare(op, actual[2], expected[2])

\* Faulty: a field that is missing reads as None.
EvaluateMissingAsNone(pred, context) ==
  EvaluateOp(pred.op, IF pred.field \in DOMAIN context THEN context[pred.field]
                                                       ELSE None, pred.value)

EvaluatePredicate(pred, context) ==
  /\ pred.field \in DOMAIN context
  /\ EvaluateOp(pred.op, context[pred.field], pred.value)

\* No child at all satisfies "all" and fails "any".
Evaluation(context) ==
  LET evaluate[tree \in Trees] ==
        IF IsPredicate(tree) THEN EvaluatePredicate(tree, context)
        ELSE IF tree.kind = "all"
             THEN \A i \in DOMAIN tree.children : evaluate[tree.children[i]]
             ELSE \E i \in DOMAIN tree.children : evaluate[tree.children[i]]
  IN  evaluate

Evaluate(tree, context) == Evaluation(context)[tree]

----------------------------------------------------------------------------
\* Explaining: a second walk, which evaluates every child.

Verdict(result) ==
  [result |-> result, reason |-> IF result THEN "match" ELSE "mismatch"]

TypeMismatch == [result |-> FALSE, reason |-> "type_mismatch"]

ContainsWithReason(actual, expected) ==
  CASE actual[1] = "str" /\ expected[1] = "str" -> Verdict(expected[2] \subseteq actual[2])
    [] actual[1] = "list" -> Verdict(\E i \in DOMAIN actual[2] :
                                       SameValue(actual[2][i], expected))
    [] OTHER -> TypeMismatch

\* Faulty: compares a bool as the number it is.
OpWithReasonOfBool(op, actual, expected) ==
  CASE op = "eq" -> Verdict(SameValue(actual, expected))
    [] op = "ne" -> Verdict(~SameValue(actual, expected))
    [] op = "contains" -> ContainsWithReason(actual, expected)
    [] op \in NumericOps ->
         IF {actual[1], expected[1]} \subseteq {"int", "bool"}
         THEN Verdict(Compare(op, actual[2], expected[2])) ELSE TypeMismatch

OpWithReason(op, actual, expected) ==
  CASE op = "eq" -> Verdict(SameValue(actual, expected))
    [] op = "ne" -> Verdict(~SameValue(actual, expected))
    [] op = "contains" -> ContainsWithReason(actual, expected)
    [] op \in NumericOps ->
         IF IsNumeric(actual) /\ IsNumeric(expected)
         THEN Verdict(Compare(op, actual[2], expected[2])) ELSE TypeMismatch

TracePredicate(pred, context) ==
  IF pred.field \in DOMAIN context
  THEN OpWithReason(pred.op, context[pred.field], pred.value)
  ELSE [result |-> FALSE, reason |-> "missing_field"]

\* The trace of a combinator from those of its children.
TraceCombinator(tree, traces) ==
  [kind |-> tree.kind, children |-> traces,
   result |-> IF tree.kind = "all"
              THEN \A i \in DOMAIN traces : traces[i].result
              ELSE \E i \in DOMAIN traces : traces[i].result]

Tracing(context) ==
  LET trace[tree \in Trees] ==
        IF IsPredicate(tree) THEN TracePredicate(tree, context)
        ELSE TraceCombinator(tree, [i \in DOMAIN tree.children |-> trace[tree.children[i]]])
  IN  trace

TraceTree(tree, context) == Tracing(context)[tree]
=============================================================================
