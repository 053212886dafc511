------------------------------ MODULE Recursion ------------------------------
(***************************************************************************)
(* That the equation of a recursive function has a solution: needed before *)
(* anything can be said of the function, and said in the library with the  *)
(* body as an operator parameter.  Here the body is a constant operator of *)
(* the module, for an INSTANCE to replace; its first argument stands for   *)
(* what else it depends on.                                                *)
(***************************************************************************)
EXTENDS Naturals, WellFoundedInduction, TLAPS

CONSTANT Body(_, _, _)

\* What the body makes of x rests on what is made of arguments of lower rank.
Local(p, S, rank) ==
  \A x \in S : \A f, g :
    (\A y \in S : rank[y] < rank[x] => f[y] = g[y]) => Body(p, x, f) = Body(p, x, g)

Solution(p, S, f) == f = [x \in S |-> Body(p, x, f)]

\* The least element of a nonempty set of numbers.
LEMMA LeastOfAll ==
  ASSUME NEW T \in SUBSET Nat, T # {}
  PROVE  \E n \in T : \A m \in T : n <= m
<1> DEFINE R == {pair \in Nat \X Nat : pair[1] < pair[2]}
<1>1. IsWellFoundedOn(R, Nat)
  BY NatLessThanWellFounded DEF OpToRel
<1>2. \A m, n \in Nat : <<m, n>> \in R <=> m < n
  OBVIOUS
<1> HIDE DEF R
<1>3. PICK n \in T : \A m \in T : ~ (<<m, n>> \in R)
  BY <1>1, WFMin
<1> WITNESS n \in T
<1> TAKE m \in T
<1>4. ~ (m < n)
  BY <1>2, <1>3
<1> QED
  BY <1>4

\* The arguments below a rank.
Under(S, rank, n) == {x \in S : rank[x] < n}

\* Two solutions agree where both are defined: look at the least disagreement.
LEMMA SolutionsAreOne ==
  ASSUME NEW p, NEW S, NEW rank \in [S -> Nat], Local(p, S, rank),
         NEW n \in Nat, NEW g, Solution(p, Under(S, rank, n), g),
         NEW m \in Nat, NEW h, Solution(p, Under(S, rank, m), h)
  PROVE  \A x \in Under(S, rank, n) \cap Under(S, rank, m) : g[x] = h[x]
<1> DEFINE Both == Under(S, rank, n) \cap Under(S, rank, m)
           Apart == {rank[x] : x \in {y \in Both : g[y] # h[y]}}
<1>1. \A x \in Both : x \in S /\ rank[x] \in Nat /\ rank[x] < n /\ rank[x] < m
  BY DEF Under
<1>2. \A x \in Both : g[x] = Body(p, x, g) /\ h[x] = Body(p, x, h)
  BY DEF Solution
<1>3. SUFFICES ASSUME Apart # {}
               PROVE  FALSE
  OBVIOUS
<1>4. Apart \in SUBSET Nat
  BY <1>1
<1>5. PICK least \in Apart : \A other \in Apart : least <= other
  BY <1>3, <1>4, LeastOfAll
<1>6. PICK x \in Both : g[x] # h[x] /\ rank[x] = least
  BY <1>5
<1>7. \A y \in S : rank[y] < rank[x] => g[y] = h[y]
  <2> SUFFICES ASSUME NEW y \in S, rank[y] < rank[x], g[y] # h[y]
               PROVE  FALSE
    OBVIOUS
  <2>1. rank[y] \in Nat /\ rank[x] \in Nat /\ rank[x] < n /\ rank[x] < m
    BY <1>1
  <2>2. y \in Both
    BY <2>1 DEF Under
  <2>3. rank[y] \in Apart
    BY <2>2
  <2> QED
    BY <1>5, <1>6, <2>1, <2>3
<1>8. Body(p, x, g) = Body(p, x, h)
  BY <1>1, <1>7 DEF Local
<1> QED
  BY <1>2, <1>6, <1>8

\* A solution up to one rank gives one up to the next.
LEMMA SolvableUnder ==
  ASSUME NEW p, NEW S, NEW rank \in [S -> Nat], Local(p, S, rank)
  PROVE  \A n \in Nat : \E g : Solution(p, Under(S, rank, n), g)
<1> DEFINE Solved(n) == \E g : Solution(p, Under(S, rank, n), g)
           Bad == {n \in Nat : ~Solved(n)}
<1>1. Solved(0)
  <2>1. Under(S, rank, 0) = {}
    BY DEF Under
  <2>2. Solution(p, {}, [x \in {} |-> 0])
    BY DEF Solution
  <2> QED
    BY <2>1, <2>2
<1>2. ASSUME NEW n \in Nat, Solved(n)
      PROVE  Solved(n + 1)
  <2>1. PICK g : Solution(p, Under(S, rank, n), g)
    BY <1>2
  <2> DEFINE h == [x \in Under(S, rank, n + 1) |-> Body(p, x, g)]
  <2>2. ASSUME NEW x \in Under(S, rank, n + 1)
        PROVE  Body(p, x, g) = Body(p, x, h)
    <3>1. x \in S /\ rank[x] \in Nat /\ rank[x] < n + 1
      BY DEF Under
    <3>2. ASSUME NEW y \in S, rank[y] < rank[x]
          PROVE  g[y] = h[y]
      <4>1. y \in Under(S, rank, n) /\ y \in Under(S, rank, n + 1)
        BY <3>1, <3>2 DEF Under
      <4> QED
        BY <2>1, <4>1 DEF Solution
    <3> QED
      BY <3>1, <3>2 DEF Local
  <2>3. Solution(p, Under(S, rank, n + 1), h)
    BY <2>2 DEF Solution
  <2> QED
    BY <2>3
<1> HIDE DEF Solved
<1>3. SUFFICES ASSUME Bad # {}
               PROVE  FALSE
  BY DEF Solved
<1>4. PICK n \in Bad : \A m \in Bad : n <= m
  BY <1>3, LeastOfAll
<1>5. n # 0
  BY <1>1
<1>6. n - 1 \in Nat /\ n = (n - 1) + 1 /\ n - 1 \notin Bad
  BY <1>4, <1>5
<1> QED
  BY <1>2, <1>6

\* A body that looks only at arguments of lower rank defines a function.
THEOREM RecursionSolvable ==
  ASSUME NEW p, NEW S, NEW rank \in [S -> Nat], Local(p, S, rank)
  PROVE  \E f : f = [x \in S |-> Body(p, x, f)]
<1> DEFINE G(n) == CHOOSE g : Solution(p, Under(S, rank, n), g)
           F == [x \in S |-> G(rank[x] + 1)[x]]
<1>1. \A n \in Nat : Solution(p, Under(S, rank, n), G(n))
  BY SolvableUnder
<1> HIDE DEF G
<1>2. ASSUME NEW x \in S
      PROVE  F[x] = Body(p, x, F)
  <2> DEFINE r == rank[x] + 1
  <2>1. rank[x] \in Nat /\ r \in Nat /\ x \in Under(S, rank, r)
    BY DEF Under
  <2>2. F[x] = Body(p, x, G(r))
    BY <1>1, <2>1 DEF Solution
  <2>3. ASSUME NEW y \in S, rank[y] < rank[x]
        PROVE  G(r)[y] = F[y]
    <3>1. rank[y] \in Nat /\ rank[y] + 1 \in Nat
      OBVIOUS
    <3>2. y \in Under(S, rank, r) /\ y \in Under(S, rank, rank[y] + 1)
      BY <2>1, <2>3, <3>1 DEF Under
    <3>3. G(r)[y] = G(rank[y] + 1)[y]
      BY <1>1, <2>1, <3>1, <3>2, SolutionsAreOne
    <3> QED
      BY <3>3
  <2> HIDE DEF F
  <2>4. Body(p, x, G(r)) = Body(p, x, F)
    BY <2>3 DEF Local
  <2> QED
    BY <2>2, <2>4
<1>3. F = [x \in S |-> Body(p, x, F)]
  BY <1>2
<1> QED
  BY <1>3
=============================================================================
