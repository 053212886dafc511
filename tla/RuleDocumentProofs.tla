------------------------- MODULE RuleDocumentProofs -------------------------
(***************************************************************************)
(* Proofs about RuleDocuments: the parts of a rule come from one document, *)
(* and its condition fires on nothing that is not known.  A condition is   *)
(* loaded, evaluated and traced by recursion, which Recursion makes sense  *)
(* of: what a node holds is of lower rank than the node.                   *)
(***************************************************************************)
EXTENDS RuleDocumentsProperties, TLAPS

----------------------------------------------------------------------------
\* The parts of one document.

Written == Documents \cup EditedDocuments

SpecOfLoaded == spec # NoSpec => spec = SpecOf(loaded)

IInv ==
  /\ document \in Written
  /\ loaded \in Written
  /\ SpecOfLoaded
  /\ PartsOfOneDocument

LEMMA PartAdded ==
  ASSUME IInv, NEW part \in {"definition", "condition", "output", "required"},
         NEW value, Compiled(part, value),
         part = "definition" => DefinitionCompiles(SpecOf(loaded))
                                /\ value = DefinitionOf(SpecOf(loaded)),
         part = "condition" => ConditionCompiles(SpecOf(loaded))
                               /\ value = ConditionOf(SpecOf(loaded)),
         part = "output" => OutputCompiles(SpecOf(loaded))
                            /\ value = OutputOf(SpecOf(loaded)),
         part = "required" => RequiredCompiles(SpecOf(loaded))
                              /\ value = RequiredOf(SpecOf(loaded))
  PROVE  IInv'
<1>1. parts' = [p \in DOMAIN parts \cup {part} |-> IF p = part THEN value ELSE parts[p]]
  BY DEF Compiled
<1>2. UNCHANGED <<document, loaded, spec>>
  BY DEF Compiled
<1>3. ASSUME NEW p \in DOMAIN parts'
      PROVE  PartOf(p, SpecOf(loaded))'
  <2>1. CASE p = part
    BY <1>1, <1>2, <2>1 DEF PartOf
  <2>2. CASE p # part
    <3>1. p \in DOMAIN parts /\ parts'[p] = parts[p]
      BY <1>1, <2>2
    <3>2. PartOf(p, SpecOf(loaded))
      BY <3>1 DEF IInv, PartsOfOneDocument
    <3> QED
      BY <1>2, <3>1, <3>2 DEF PartOf
  <2> QED
    BY <2>1, <2>2
<1> QED
  BY <1>2, <1>3 DEF IInv, SpecOfLoaded, PartsOfOneDocument

LEMMA InitIInv == Init => IInv
<1> SUFFICES ASSUME Init
             PROVE  IInv
  OBVIOUS
<1> QED
  BY DEF Init, IInv, Written, SpecOfLoaded, PartsOfOneDocument

LEMMA NextIInv == IInv /\ [Next]_documentVars => IInv'
<1> SUFFICES ASSUME IInv, [Next]_documentVars
             PROVE  IInv'
  OBVIOUS
<1>1. CASE UNCHANGED documentVars
  BY <1>1 DEF documentVars, IInv, SpecOfLoaded, PartsOfOneDocument, PartOf
<1>2. CASE Edit
  BY <1>2 DEF Edit, IInv, Written, SpecOfLoaded, PartsOfOneDocument, PartOf
<1>3. CASE Load
  BY <1>3 DEF Load, IInv, SpecOfLoaded, PartsOfOneDocument
<1>4. CASE CompileCondition
  BY <1>4, PartAdded DEF CompileCondition, KeptSpec, IInv, SpecOfLoaded
<1>5. CASE CompileOutput
  BY <1>5, PartAdded DEF CompileOutput, KeptSpec, IInv, SpecOfLoaded
<1>6. CASE CompileRequired
  BY <1>6, PartAdded DEF CompileRequired, KeptSpec, IInv, SpecOfLoaded
<1>7. CASE RegisterRuleSpec
  BY <1>7, PartAdded DEF RegisterRuleSpec, KeptSpec, IInv, SpecOfLoaded
<1> QED
  BY <1>1, <1>2, <1>3, <1>4, <1>5, <1>6, <1>7 DEF Next

LEMMA AlwaysIInv == Spec => []IInv
  BY InitIInv, NextIInv, PTL DEF Spec

\* However the caller edits its document between the calls, the parts compiled
\* of a rule come from the document its spec was loaded from.
THEOREM PartsAlwaysOfOneDocument == Spec => []PartsOfOneDocument
<1>1. IInv => PartsOfOneDocument
  BY DEF IInv
<1> QED
  BY <1>1, AlwaysIInv, PTL

----------------------------------------------------------------------------
\* Loading: what a node holds is one level further down.

LevelBody(p, depth, f) ==
  IF depth = 0 THEN RawConditions ELSE UNION {Held(raw) : raw \in f[depth - 1]}

Levels == INSTANCE Recursion WITH Body <- LevelBody

LEMMA LevelSolved ==
  /\ level[0] = RawConditions
  /\ \A depth \in 1 .. MaxNesting :
       level[depth] = UNION {Held(raw) : raw \in level[depth - 1]}
<1> DEFINE S == 0 .. MaxNesting
           rank == [depth \in S |-> depth]
<1>1. MaxNesting \in Nat
  BY NestingIsBounded
<1>2. rank \in [S -> Nat]
  OBVIOUS
<1>3. Levels!Local(0, S, rank)
  <2> SUFFICES ASSUME NEW x \in S, NEW f, NEW g,
                      \A y \in S : rank[y] < rank[x] => f[y] = g[y]
               PROVE  LevelBody(0, x, f) = LevelBody(0, x, g)
    BY DEF Levels!Local
  <2>1. x # 0 => x - 1 \in S /\ x - 1 < x
    BY <1>1
  <2> QED
    BY <2>1 DEF LevelBody
<1> HIDE DEF rank
<1>4. \E f : f = [depth \in S |-> LevelBody(0, depth, f)]
  BY <1>2, <1>3, Levels!RecursionSolvable
<1>5. level = [depth \in S |-> LevelBody(0, depth, level)]
  BY <1>4 DEF level, LevelBody
<1>6. \A depth \in S : level[depth] = LevelBody(0, depth, level)
  BY <1>5
<1>7. 0 \in S /\ \A depth \in 1 .. MaxNesting : depth \in S /\ depth # 0
  BY <1>1
<1> QED
  BY <1>6, <1>7 DEF LevelBody

Least(T) == CHOOSE n \in T : \A m \in T : n <= m

LEMMA LeastIs ==
  ASSUME NEW T \in SUBSET Nat, T # {}
  PROVE  Least(T) \in T /\ \A m \in T : Least(T) <= m
  BY Levels!LeastOfAll DEF Least

\* How far a node is above the deepest level.
NodeRank ==
  [raw \in Nodes |->
     Least({MaxNesting - depth : depth \in {d \in 0 .. MaxNesting : raw \in level[d]}})]

LEMMA NodesAreRanked ==
  /\ NodeRank \in [Nodes -> Nat]
  /\ \A raw \in Nodes : \A child \in Held(raw) :
       child \in Nodes /\ NodeRank[child] < NodeRank[raw]
<1> DEFINE Above(raw) ==
             {MaxNesting - depth : depth \in {d \in 0 .. MaxNesting : raw \in level[d]}}
<1>1. MaxNesting \in Nat
  BY NestingIsBounded
<1>2. ASSUME NEW raw \in Nodes
      PROVE  /\ Above(raw) \in SUBSET Nat
             /\ NodeRank[raw] \in Above(raw)
             /\ \A n \in Above(raw) : NodeRank[raw] <= n
  <2>1. Above(raw) \in SUBSET Nat
    BY <1>1
  <2>2. Above(raw) # {}
    BY DEF Nodes
  <2>3. NodeRank[raw] = Least(Above(raw))
    BY DEF NodeRank
  <2> QED
    BY <2>1, <2>2, <2>3, LeastIs
<1>3. ASSUME NEW raw \in Nodes, NEW child \in Held(raw)
      PROVE  child \in Nodes /\ NodeRank[child] < NodeRank[raw]
  <2>1. PICK depth \in 0 .. MaxNesting :
          raw \in level[depth] /\ NodeRank[raw] = MaxNesting - depth
    BY <1>2
  <2>2. depth # MaxNesting
    BY <1>3, <2>1, NestingIsBounded
  <2>3. depth + 1 \in 1 .. MaxNesting /\ depth + 1 \in 0 .. MaxNesting
        /\ (depth + 1) - 1 = depth
    BY <1>1, <2>1, <2>2
  <2>4. child \in level[depth + 1]
    BY <1>3, <2>1, <2>3, LevelSolved
  <2>5. child \in Nodes
    BY <2>3, <2>4 DEF Nodes
  <2>6. MaxNesting - (depth + 1) \in Above(child)
    BY <2>3, <2>4
  <2>7. NodeRank[child] <= MaxNesting - (depth + 1) /\ NodeRank[child] \in Nat
    BY <1>2, <2>5, <2>6
  <2> QED
    BY <1>1, <2>1, <2>3, <2>5, <2>7
<1> QED
  <2>1. NodeRank = [raw \in Nodes |-> NodeRank[raw]]
    BY DEF NodeRank
  <2>2. \A raw \in Nodes : NodeRank[raw] \in Nat
    BY <1>2
  <2> QED
    BY <1>3, <2>1, <2>2

LEMMA RawConditionsAreNodes == RawConditions \subseteq Nodes
<1>1. 0 \in 0 .. MaxNesting
  BY NestingIsBounded
<1> QED
  BY <1>1, LevelSolved DEF Nodes

LEMMA ItemsAreHeld ==
  ASSUME NEW raw, IsCombinator(raw), NEW i \in DOMAIN Items(raw)
  PROVE  Items(raw)[i] \in Held(raw)
  BY DEF Held

LoadsBody(p, raw, f) ==
  \/ raw[1] = "map" /\ PredicateLoads(raw[2])
  \/ IsCombinator(raw) /\ \A i \in DOMAIN Items(raw) : f[Items(raw)[i]]

Loading == INSTANCE Recursion WITH Body <- LoadsBody

LEMMA LoadsSolved ==
  \A raw \in Nodes :
    Loads[raw] = \/ raw[1] = "map" /\ PredicateLoads(raw[2])
                 \/ IsCombinator(raw) /\ \A i \in DOMAIN Items(raw) : Loads[Items(raw)[i]]
<1>1. NodeRank \in [Nodes -> Nat]
  BY NodesAreRanked
<1>2. Loading!Local(0, Nodes, NodeRank)
  <2> SUFFICES ASSUME NEW raw \in Nodes, NEW f, NEW g,
                      \A y \in Nodes : NodeRank[y] < NodeRank[raw] => f[y] = g[y]
               PROVE  LoadsBody(0, raw, f) = LoadsBody(0, raw, g)
    BY DEF Loading!Local
  <2>1. IsCombinator(raw) =>
          \A i \in DOMAIN Items(raw) : f[Items(raw)[i]] = g[Items(raw)[i]]
    BY ItemsAreHeld, NodesAreRanked
  <2> QED
    BY <2>1 DEF LoadsBody
<1>3. \E f : f = [raw \in Nodes |-> LoadsBody(0, raw, f)]
  BY <1>1, <1>2, Loading!RecursionSolvable
<1>4. Loads = [raw \in Nodes |-> LoadsBody(0, raw, Loads)]
  BY <1>3 DEF Loads, LoadsBody
<1> QED
  BY <1>4 DEF LoadsBody

LEMMA LoadableNodes ==
  ASSUME NEW raw \in Loadable
  PROVE  \/ ~IsCombinator(raw) /\ raw[1] = "map" /\ PredicateLoads(raw[2])
         \/ /\ IsCombinator(raw)
            /\ \A i \in DOMAIN Items(raw) :
                 /\ Items(raw)[i] \in Loadable
                 /\ NodeRank[Items(raw)[i]] < NodeRank[raw]
<1>1. raw \in Nodes /\ Loads[raw]
  BY DEF Loadable
<1>2. ~ (IsCombinator(raw) /\ PredicateLoads(raw[2]))
  BY DEF IsCombinator, PredicateLoads, PredicateKeys
<1>3. CASE IsCombinator(raw)
  <2>1. \A i \in DOMAIN Items(raw) : Loads[Items(raw)[i]]
    BY <1>1, <1>2, <1>3, LoadsSolved
  <2>2. \A i \in DOMAIN Items(raw) :
          Items(raw)[i] \in Nodes /\ NodeRank[Items(raw)[i]] < NodeRank[raw]
    BY <1>1, <1>3, ItemsAreHeld, NodesAreRanked
  <2> QED
    BY <1>3, <2>1, <2>2 DEF Loadable
<1>4. CASE ~IsCombinator(raw)
  BY <1>1, <1>4, LoadsSolved
<1> QED
  BY <1>3, <1>4

TreeBody(p, raw, f) ==
  IF IsCombinator(raw)
  THEN [kind |-> KindOf(raw),
        children |-> [i \in DOMAIN Items(raw) |-> f[Items(raw)[i]]]]
  ELSE [field |-> Strip(raw[2]["field"][2]),
        op    |-> CHOOSE op \in Ops : raw[2]["op"] = Text({op}),
        value |-> raw[2]["value"]]

TreeLoading == INSTANCE Recursion WITH Body <- TreeBody

LEMMA LoadedTreeSolved ==
  \A raw \in Loadable : LoadedTree[raw] = TreeBody(0, raw, LoadedTree)
<1> DEFINE rank == [raw \in Loadable |-> NodeRank[raw]]
<1>1. rank \in [Loadable -> Nat]
  BY NodesAreRanked DEF Loadable
<1>2. TreeLoading!Local(0, Loadable, rank)
  <2> SUFFICES ASSUME NEW raw \in Loadable, NEW f, NEW g,
                      \A y \in Loadable : rank[y] < rank[raw] => f[y] = g[y]
               PROVE  TreeBody(0, raw, f) = TreeBody(0, raw, g)
    BY DEF TreeLoading!Local
  <2>1. IsCombinator(raw) =>
          \A i \in DOMAIN Items(raw) : f[Items(raw)[i]] = g[Items(raw)[i]]
    BY LoadableNodes
  <2> QED
    BY <2>1 DEF TreeBody
<1> HIDE DEF rank
<1>3. \E f : f = [raw \in Loadable |-> TreeBody(0, raw, f)]
  BY <1>1, <1>2, TreeLoading!RecursionSolvable
<1>4. LoadedTree = [raw \in Loadable |-> TreeBody(0, raw, LoadedTree)]
  BY <1>3 DEF LoadedTree, TreeBody, Loadable
<1> QED
  BY <1>4

----------------------------------------------------------------------------
\* Trees, by the least rank of the nodes they are loaded from.

SourceRanks(tree) == {NodeRank[raw] : raw \in {node \in Loadable : LoadedTree[node] = tree}}

TreeRank == [tree \in Trees |-> Least(SourceRanks(tree))]

LEMMA TreeSource ==
  ASSUME NEW tree \in Trees
  PROVE  /\ TreeRank[tree] \in Nat
         /\ \A n \in SourceRanks(tree) : TreeRank[tree] <= n
         /\ \E raw \in Loadable : LoadedTree[raw] = tree /\ NodeRank[raw] = TreeRank[tree]
<1>1. SourceRanks(tree) \in SUBSET Nat
  BY NodesAreRanked DEF SourceRanks, Loadable
<1>2. SourceRanks(tree) # {}
  BY DEF SourceRanks, Trees, Loadable
<1>3. TreeRank[tree] = Least(SourceRanks(tree))
  BY DEF TreeRank
<1>4. TreeRank[tree] \in SourceRanks(tree) /\ \A n \in SourceRanks(tree) : TreeRank[tree] <= n
  BY <1>1, <1>2, <1>3, LeastIs
<1> QED
  BY <1>1, <1>4 DEF SourceRanks

LEMMA TreeShapes ==
  ASSUME NEW tree \in Trees
  PROVE  \/ IsPredicate(tree) /\ tree.op \in Ops
         \/ /\ ~IsPredicate(tree)
            /\ \A i \in DOMAIN tree.children :
                 tree.children[i] \in Trees /\ TreeRank[tree.children[i]] < TreeRank[tree]
<1>1. PICK raw \in Loadable : LoadedTree[raw] = tree /\ NodeRank[raw] = TreeRank[tree]
  BY TreeSource
<1>2. tree = TreeBody(0, raw, LoadedTree)
  BY <1>1, LoadedTreeSolved
<1>3. CASE IsCombinator(raw)
  <2>1. tree = [kind |-> KindOf(raw),
                children |-> [i \in DOMAIN Items(raw) |-> LoadedTree[Items(raw)[i]]]]
    BY <1>2, <1>3 DEF TreeBody
  <2>2. ~IsPredicate(tree)
    BY <2>1 DEF IsPredicate
  <2>3. /\ DOMAIN tree.children = DOMAIN Items(raw)
        /\ \A i \in DOMAIN Items(raw) : tree.children[i] = LoadedTree[Items(raw)[i]]
    BY <2>1
  <2>4. ASSUME NEW i \in DOMAIN Items(raw)
        PROVE  tree.children[i] \in Trees /\ TreeRank[tree.children[i]] < TreeRank[tree]
    <3> DEFINE item == Items(raw)[i]
    <3>1. item \in Loadable /\ NodeRank[item] < NodeRank[raw]
      BY <1>3, LoadableNodes
    <3>2. LoadedTree[item] \in Trees
      BY <3>1 DEF Trees, Loadable
    <3>3. NodeRank[item] \in SourceRanks(LoadedTree[item])
      BY <3>1 DEF SourceRanks
    <3>4. TreeRank[LoadedTree[item]] <= NodeRank[item]
      BY <3>2, <3>3, TreeSource
    <3>5. TreeRank[LoadedTree[item]] \in Nat /\ NodeRank[item] \in Nat /\ NodeRank[raw] \in Nat
      BY <3>1, <3>2, TreeSource, NodesAreRanked DEF Loadable
    <3> QED
      BY <1>1, <2>3, <3>1, <3>2, <3>4, <3>5
  <2> QED
    BY <2>2, <2>3, <2>4
<1>4. CASE ~IsCombinator(raw)
  <2>1. PredicateLoads(raw[2])
    BY <1>4, LoadableNodes
  <2>2. /\ IsPredicate(tree)
        /\ tree.op = CHOOSE op \in Ops : raw[2]["op"] = Text({op})
    BY <1>2, <1>4 DEF TreeBody, IsPredicate
  <2>3. \E op \in Ops : raw[2]["op"] = Text({op})
    BY <2>1 DEF PredicateLoads
  <2> QED
    BY <2>2, <2>3
<1> QED
  BY <1>3, <1>4

\* If a property fails of some tree, it fails of one whose children have it.
LEMMA LeastTree ==
  ASSUME NEW T \in SUBSET Trees, T # {}
  PROVE  \E tree \in T :
           ~IsPredicate(tree) => \A i \in DOMAIN tree.children : tree.children[i] \in Trees \ T
<1> DEFINE Ranks == {TreeRank[tree] : tree \in T}
<1>1. Ranks \in SUBSET Nat /\ Ranks # {}
  BY TreeSource
<1>2. PICK tree \in T : \A n \in Ranks : TreeRank[tree] <= n
  <2>1. Least(Ranks) \in Ranks /\ \A n \in Ranks : Least(Ranks) <= n
    <3> HIDE DEF Ranks
    <3> QED
      BY <1>1, LeastIs
  <2> QED
    BY <2>1
<1>3. \A other \in T : TreeRank[tree] <= TreeRank[other]
  BY <1>2
<1>4. ASSUME ~IsPredicate(tree), NEW i \in DOMAIN tree.children
      PROVE  tree.children[i] \in Trees \ T
  <2>1. tree.children[i] \in Trees /\ TreeRank[tree.children[i]] < TreeRank[tree]
    BY <1>4, TreeShapes
  <2>2. TreeRank[tree.children[i]] \in Nat /\ TreeRank[tree] \in Nat
    BY <2>1, TreeSource
  <2> QED
    BY <1>3, <2>1, <2>2
<1> QED
  BY <1>4

----------------------------------------------------------------------------
\* Evaluating and tracing, by recursion on the tree.

EvaluateBody(context, tree, f) ==
  IF IsPredicate(tree) THEN EvaluatePredicate(tree, context)
  ELSE IF tree.kind = "all"
       THEN \A i \in DOMAIN tree.children : f[tree.children[i]]
       ELSE \E i \in DOMAIN tree.children : f[tree.children[i]]

Evaluating == INSTANCE Recursion WITH Body <- EvaluateBody

LEMMA EvaluateSolved ==
  ASSUME NEW context, NEW tree \in Trees
  PROVE  Evaluation(context)[tree] = EvaluateBody(context, tree, Evaluation(context))
<1>1. TreeRank \in [Trees -> Nat]
  BY TreeSource DEF TreeRank
<1>2. Evaluating!Local(context, Trees, TreeRank)
  <2> SUFFICES ASSUME NEW t \in Trees, NEW f, NEW g,
                      \A y \in Trees : TreeRank[y] < TreeRank[t] => f[y] = g[y]
               PROVE  EvaluateBody(context, t, f) = EvaluateBody(context, t, g)
    BY DEF Evaluating!Local
  <2>1. ~IsPredicate(t) =>
          \A i \in DOMAIN t.children : f[t.children[i]] = g[t.children[i]]
    BY TreeShapes
  <2> QED
    BY <2>1 DEF EvaluateBody
<1>3. \E f : f = [t \in Trees |-> EvaluateBody(context, t, f)]
  BY <1>1, <1>2, Evaluating!RecursionSolvable
<1>4. Evaluation(context) = [t \in Trees |-> EvaluateBody(context, t, Evaluation(context))]
  BY <1>3 DEF Evaluation, EvaluateBody
<1> QED
  BY <1>4

TraceBody(context, tree, f) ==
  IF IsPredicate(tree) THEN TracePredicate(tree, context)
  ELSE TraceCombinator(tree, [i \in DOMAIN tree.children |-> f[tree.children[i]]])

Traced == INSTANCE Recursion WITH Body <- TraceBody

LEMMA TraceSolved ==
  ASSUME NEW context, NEW tree \in Trees
  PROVE  Tracing(context)[tree] = TraceBody(context, tree, Tracing(context))
<1>1. TreeRank \in [Trees -> Nat]
  BY TreeSource DEF TreeRank
<1>2. Traced!Local(context, Trees, TreeRank)
  <2> SUFFICES ASSUME NEW t \in Trees, NEW f, NEW g,
                      \A y \in Trees : TreeRank[y] < TreeRank[t] => f[y] = g[y]
               PROVE  TraceBody(context, t, f) = TraceBody(context, t, g)
    BY DEF Traced!Local
  <2>1. ~IsPredicate(t) =>
          \A i \in DOMAIN t.children : f[t.children[i]] = g[t.children[i]]
    BY TreeShapes
  <2>2. ~IsPredicate(t) => [i \in DOMAIN t.children |-> f[t.children[i]]]
                           = [i \in DOMAIN t.children |-> g[t.children[i]]]
    BY <2>1
  <2> QED
    BY <2>2 DEF TraceBody
<1>3. \E f : f = [t \in Trees |-> TraceBody(context, t, f)]
  BY <1>1, <1>2, Traced!RecursionSolvable
<1>4. Tracing(context) = [t \in Trees |-> TraceBody(context, t, Tracing(context))]
  BY <1>3 DEF Tracing, TraceBody
<1> QED
  BY <1>4

----------------------------------------------------------------------------
\* The two copies of the operators agree, and so do the two walks.

LEMMA OperatorsAgree ==
  ASSUME NEW op \in Ops, NEW actual, NEW expected
  PROVE  OpWithReason(op, actual, expected).result <=> EvaluateOp(op, actual, expected)
<1>1. TypeMismatch.result = FALSE
  BY DEF TypeMismatch
<1>2. CASE op = "eq"
  <2>1. OpWithReason(op, actual, expected) = Verdict(SameValue(actual, expected))
    BY <1>2 DEF OpWithReason, NumericOps
  <2> QED
    BY <1>2, <2>1 DEF EvaluateOp, NumericOps, Verdict
<1>3. CASE op = "ne"
  <2>1. OpWithReason(op, actual, expected) = Verdict(~SameValue(actual, expected))
    BY <1>3 DEF OpWithReason, NumericOps
  <2>2. EvaluateOp(op, actual, expected) <=> ~SameValue(actual, expected)
    BY <1>3 DEF EvaluateOp, NumericOps
  <2>3. \A b \in BOOLEAN : Verdict(b).result <=> b
    BY DEF Verdict
  <2>4. (~SameValue(actual, expected)) \in BOOLEAN
    OBVIOUS
  <2> QED
    BY <2>1, <2>2, <2>3, <2>4, Zenon
<1>4. CASE op = "contains"
  <2>1. OpWithReason(op, actual, expected) = ContainsWithReason(actual, expected)
    BY <1>4 DEF OpWithReason, NumericOps
  <2>2. EvaluateOp(op, actual, expected) <=> EvaluateContains(actual, expected)
    BY <1>4 DEF EvaluateOp, NumericOps
  <2>3. ContainsWithReason(actual, expected).result <=> EvaluateContains(actual, expected)
    BY <1>1 DEF ContainsWithReason, EvaluateContains, Verdict
  <2> QED
    BY <2>1, <2>2, <2>3
<1>5. CASE op \in NumericOps
  BY <1>1, <1>5 DEF OpWithReason, EvaluateOp, NumericOps, Verdict
<1> QED
  BY <1>2, <1>3, <1>4, <1>5 DEF Ops

LEMMA WalksAgree ==
  ASSUME NEW context, NEW tree \in Trees
  PROVE  TraceTree(tree, context).result <=> Evaluate(tree, context)
<1> DEFINE Agree(t) == Tracing(context)[t].result <=> Evaluation(context)[t]
           Apart == {t \in Trees : ~Agree(t)}
<1>1. SUFFICES ASSUME Apart # {}
               PROVE  FALSE
  BY DEF TraceTree, Evaluate
<1>2. PICK t \in Apart :
        ~IsPredicate(t) => \A i \in DOMAIN t.children : t.children[i] \in Trees \ Apart
  BY <1>1, LeastTree
<1>3. ~IsPredicate(t) => \A i \in DOMAIN t.children : Agree(t.children[i])
  BY <1>2
<1>4. t \in Trees /\ ~Agree(t)
  OBVIOUS
<1>5. /\ Evaluation(context)[t] = EvaluateBody(context, t, Evaluation(context))
      /\ Tracing(context)[t] = TraceBody(context, t, Tracing(context))
  BY <1>4, EvaluateSolved, TraceSolved
<1>6. CASE IsPredicate(t)
  <2>1. TracePredicate(t, context).result <=> EvaluatePredicate(t, context)
    <3>1. t.op \in Ops
      BY <1>4, <1>6, TreeShapes
    <3> QED
      BY <3>1, OperatorsAgree DEF TracePredicate, EvaluatePredicate
  <2> QED
    BY <1>4, <1>5, <1>6, <2>1 DEF EvaluateBody, TraceBody
<1>7. CASE ~IsPredicate(t)
  <2>1. Tracing(context)[t].result <=>
          IF t.kind = "all"
          THEN \A i \in DOMAIN t.children : Tracing(context)[t.children[i]].result
          ELSE \E i \in DOMAIN t.children : Tracing(context)[t.children[i]].result
    BY <1>5, <1>7 DEF TraceBody, TraceCombinator
  <2>2. Evaluation(context)[t] <=>
          IF t.kind = "all"
          THEN \A i \in DOMAIN t.children : Evaluation(context)[t.children[i]]
          ELSE \E i \in DOMAIN t.children : Evaluation(context)[t.children[i]]
    BY <1>5, <1>7 DEF EvaluateBody
  <2> QED
    BY <1>3, <1>4, <1>7, <2>1, <2>2
<1> QED
  BY <1>6, <1>7

LEMMA FewerFactsFireLess ==
  ASSUME NEW context, NEW field \in DOMAIN context, NEW tree \in Trees,
         Evaluate(tree, Without(context, field))
  PROVE  Evaluate(tree, context)
<1> DEFINE fewer == Without(context, field)
           Gains(t) == Evaluation(fewer)[t] /\ ~Evaluation(context)[t]
           Gaining == {t \in Trees : Gains(t)}
<1> HIDE DEF fewer
<1>1. SUFFICES ASSUME Gaining # {}
               PROVE  FALSE
  BY DEF Evaluate, fewer
<1>2. PICK t \in Gaining :
        ~IsPredicate(t) => \A i \in DOMAIN t.children : t.children[i] \in Trees \ Gaining
  BY <1>1, LeastTree
<1>3. ~IsPredicate(t) => \A i \in DOMAIN t.children : ~Gains(t.children[i])
  BY <1>2
<1>4. t \in Trees /\ Gains(t)
  OBVIOUS
<1>5. /\ Evaluation(context)[t] = EvaluateBody(context, t, Evaluation(context))
      /\ Evaluation(fewer)[t] = EvaluateBody(fewer, t, Evaluation(fewer))
  BY <1>4, EvaluateSolved
<1>6. CASE IsPredicate(t)
  <2>1. /\ DOMAIN fewer \subseteq DOMAIN context
        /\ \A f \in DOMAIN fewer : fewer[f] = context[f]
    BY DEF fewer, Without, Restrict
  <2>2. EvaluatePredicate(t, fewer) => EvaluatePredicate(t, context)
    BY <2>1 DEF EvaluatePredicate
  <2> QED
    BY <1>4, <1>5, <1>6, <2>2 DEF EvaluateBody
<1>7. CASE ~IsPredicate(t)
  BY <1>3, <1>4, <1>5, <1>7 DEF EvaluateBody
<1> QED
  BY <1>6, <1>7

LEMMA CompiledConditionIsTree ==
  ASSUME IInv, "condition" \in DOMAIN parts
  PROVE  parts["condition"] \in Trees
<1> DEFINE raw == loaded["condition"]
<1>1. PartOf("condition", SpecOf(loaded))
  BY DEF IInv, PartsOfOneDocument
<1>2. ConditionCompiles(SpecOf(loaded)) /\ parts["condition"] = ConditionOf(SpecOf(loaded))
  BY <1>1 DEF PartOf
<1>3. "condition" \in DOMAIN loaded /\ Loads[raw] /\ parts["condition"] = LoadedTree[raw]
  BY <1>2 DEF ConditionCompiles, ConditionOf, SpecOf
<1>4. raw \in Nodes
  BY <1>3, ConditionsAreThere, RawConditionsAreNodes DEF IInv, Written
<1> QED
  BY <1>3, <1>4 DEF Trees, Loadable

\* A condition compiled from any document, at whatever depth, in whatever
\* context: taking a fact away never makes it hold, and the trace, computed by
\* other code, gives the result of the evaluation.
THEOREM AbsenceAlwaysNeverFires == Spec => []AbsenceNeverFires
<1>1. ASSUME IInv
      PROVE  AbsenceNeverFires
  <2> SUFFICES ASSUME "condition" \in DOMAIN parts, NEW context \in Contexts
               PROVE  LET tree == parts["condition"]
                      IN  /\ TraceTree(tree, context).result <=> Evaluate(tree, context)
                          /\ \A field \in DOMAIN context :
                               Evaluate(tree, Without(context, field))
                                 => Evaluate(tree, context)
    BY DEF AbsenceNeverFires
  <2> DEFINE tree == parts["condition"]
  <2>1. tree \in Trees
    BY <1>1, CompiledConditionIsTree
  <2>2. TraceTree(tree, context).result <=> Evaluate(tree, context)
    BY <2>1, WalksAgree
  <2>3. \A field \in DOMAIN context :
          Evaluate(tree, Without(context, field)) => Evaluate(tree, context)
    BY <2>1, FewerFactsFireLess
  <2> QED
    BY <2>2, <2>3
<1> QED
  BY <1>1, AlwaysIInv, PTL
=============================================================================
