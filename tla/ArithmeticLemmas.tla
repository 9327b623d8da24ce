-------------------------- MODULE ArithmeticLemmas --------------------------
(***************************************************************************)
(* The arithmetic that several proofs rest on.                             *)
(*                                                                         *)
(* First the division of decimal.Div and comparisons of products, then     *)
(* sums over finite sets: SumFunctionOnSet of the community modules is a   *)
(* recursive function, and a proof needs its equation, its type, and that  *)
(* the order in which it takes the elements does not matter.  All three    *)
(* are inductions over finite sets, carried by a set Good of the subsets   *)
(* for which the claim holds, so that no theorem with an operator for a    *)
(* parameter is needed: SubsetInduction is stated of that set.             *)
(***************************************************************************)
EXTENDS Decimals, FiniteSetsExt, FiniteSetTheorems, TLAPS

\* Integer division, said by products.
LEMMA DivBounds ==
    ASSUME NEW n \in Nat, NEW d \in Nat \ {0}
    PROVE  /\ n \div d \in Nat
           /\ d * (n \div d) <= n
           /\ n < d * ((n \div d) + 1)
  OBVIOUS

\* A product of amounts is an amount.
LEMMA Product ==
    ASSUME NEW a \in Nat, NEW b \in Nat
    PROVE  a * b \in Nat /\ (a > 0 /\ b > 0 => a * b > 0)
  OBVIOUS

\* A product grows with its factor.
LEMMA Grows ==
    ASSUME NEW k \in Nat, NEW a \in Int, NEW b \in Int, a <= b
    PROVE  k * a <= k * b
  OBVIOUS

\* A factor can be taken off both sides.
LEMMA Cancel ==
    ASSUME NEW k \in Nat \ {0}, NEW a \in Int, NEW b \in Int, k * a > k * b
    PROVE  a > b
<1>1. CASE a <= b
  BY <1>1, Grows
<1>2. QED
  BY <1>1

\* A rounded quotient is off by half of its last digit at most.
LEMMA RoundedBounds ==
    ASSUME NEW n \in Nat, NEW q \in Nat \ {0}
    PROVE  /\ RoundedDiv(n, q) \in Nat
           /\ 2 * (q * RoundedDiv(n, q)) <= 2 * n + q
           /\ 2 * n <= 2 * (q * RoundedDiv(n, q)) + q
           /\ n < q * (RoundedDiv(n, q) + 1)
<1> DEFINE r == (2 * n + q) \div (2 * q)
<1>1. 2 * n + q \in Nat /\ 2 * q \in Nat \ {0}
  OBVIOUS
<1>2. r \in Nat /\ (2 * q) * r <= 2 * n + q /\ 2 * n + q < (2 * q) * (r + 1)
  BY <1>1, DivBounds
<1> HIDE DEF r
<1>3. q * r \in Nat /\ (2 * q) * r = 2 * (q * r)
  BY <1>2
<1>4. q * (r + 1) \in Nat /\ (2 * q) * (r + 1) = 2 * (q * (r + 1))
  BY <1>2
<1>5. n < q * (r + 1)
  BY <1>2, <1>4
<1>6. q * (r + 1) = q * r + q
  BY <1>2
<1>7. 2 * n <= 2 * (q * r) + q
  BY <1>2, <1>3, <1>4, <1>6
<1>8. QED
  BY <1>2, <1>3, <1>5, <1>7 DEF RoundedDiv, r

\* Min of two numbers.
LEMMA MinOfTwo ==
    ASSUME NEW a \in Int, NEW b \in Int
    PROVE  Min({a, b}) = IF a <= b THEN a ELSE b
<1>1. \E x \in {a, b} : \A y \in {a, b} : x <= y
  OBVIOUS
<1>2. QED
  BY <1>1 DEF Min
-----------------------------------------------------------------------------
(* Sums over finite sets, as the folds of fills and of positions take them. *)

Pick(s) == CHOOSE x \in s : TRUE

\* g adds up f over the subsets of S, by the rule that SumFunctionOnSet folds by.
Adds(g, f, S) ==
    g = [s \in SUBSET S |-> IF s = {} THEN 0 ELSE f[Pick(s)] + g[s \ {Pick(s)}]]

\* Induction over the subsets of a finite set, about a set of them: a subset
\* that is not in Good, and least among those, is empty or follows from others.
LEMMA SubsetInduction ==
    ASSUME NEW S, IsFiniteSet(S), NEW Good,
           \A T \in SUBSET S : (\A U \in SUBSET T : U # T => U \in Good) => T \in Good
    PROVE  \A T \in SUBSET S : T \in Good
<1> DEFINE Bad == (SUBSET S) \ Good
<1> SUFFICES ASSUME Bad # {}
             PROVE  FALSE
  OBVIOUS
<1>1. IsWellFoundedOn(StrictSubsetOrdering(S), SUBSET S)
  <2>1. IsWellFoundedOn(StrictSubsetOrdering(S), FiniteSubsetsOf(S))
    BY FS_StrictSubsetOrderingWellFounded
  <2>2. FiniteSubsetsOf(S) = SUBSET S
    BY FS_FiniteSubsetsOfFinite
  <2>3. QED
    BY <2>1, <2>2
<1>2. Bad \subseteq SUBSET S
  OBVIOUS
<1>3. \E T \in Bad : \A U \in Bad : ~ (<<U, T>> \in StrictSubsetOrdering(S))
  <2> HIDE DEF Bad
  <2>1. QED
    BY <1>1, <1>2, WFMin
<1>4. \E T \in Bad : \A U \in Bad : U \subseteq T => U = T
  <2> HIDE DEF Bad
  <2>1. QED
    BY <1>2, <1>3 DEF StrictSubsetOrdering
<1>5. PICK T \in SUBSET S : T \notin Good /\ \A U \in SUBSET T : U # T => U \in Good
  BY <1>4
<1>6. QED
  BY <1>5

\* The community modules' definition, unfolded.
LEMMA SumIs ==
    ASSUME NEW f, NEW S
    PROVE  SumFunctionOnSet(f, S) = (CHOOSE g : Adds(g, f, S))[S]
  BY DEF SumFunctionOnSet, FoldFunctionOnSet, MapThenFoldSet, Adds, Pick

\* The element a fold takes next is one of the set.
LEMMA PickIn ==
    ASSUME NEW s, s # {}
    PROVE  Pick(s) \in s
  BY DEF Pick

\* Two such functions agree where both are defined.
LEMMA AddsUnique ==
    ASSUME NEW f, NEW S, NEW T \in SUBSET S, IsFiniteSet(S),
           NEW g, Adds(g, f, S), NEW h, Adds(h, f, T)
    PROVE  g[T] = h[T]
<1> DEFINE Good == {s \in SUBSET T : g[s] = h[s]}
<1>1. IsFiniteSet(T)
  BY FS_Subset
<1>2. ASSUME NEW s \in SUBSET T, \A u \in SUBSET s : u # s => u \in Good
      PROVE  s \in Good
  <2>1. /\ g[s] = IF s = {} THEN 0 ELSE f[Pick(s)] + g[s \ {Pick(s)}]
        /\ h[s] = IF s = {} THEN 0 ELSE f[Pick(s)] + h[s \ {Pick(s)}]
    BY DEF Adds
  <2>2. s # {} => g[s \ {Pick(s)}] = h[s \ {Pick(s)}]
    BY <1>2, PickIn
  <2>3. QED
    BY <2>1, <2>2
<1>3. T \in Good
  <2> HIDE DEF Good
  <2>1. QED
    BY <1>1, <1>2, SubsetInduction
<1>4. QED
  BY <1>3

\* What the sum of a set is made of, where there are such functions.
LEMMA SumFrom ==
    ASSUME NEW f, NEW S, IsFiniteSet(S), S # {},
           \E g : Adds(g, f, S), \E g : Adds(g, f, S \ {Pick(S)})
    PROVE  SumFunctionOnSet(f, S) = f[Pick(S)] + SumFunctionOnSet(f, S \ {Pick(S)})
<1> DEFINE T == S \ {Pick(S)}
           g == CHOOSE k : Adds(k, f, S)
           h == CHOOSE k : Adds(k, f, T)
<1>1. Adds(g, f, S) /\ Adds(h, f, T)
  OBVIOUS
<1> HIDE DEF g, h
<1>2. g[S] = f[Pick(S)] + g[T]
  BY <1>1 DEF Adds
<1>3. g[T] = h[T]
  BY <1>1, AddsUnique
<1>4. SumFunctionOnSet(f, S) = g[S] /\ SumFunctionOnSet(f, T) = h[T]
  BY SumIs DEF g, h
<1>5. QED
  BY <1>2, <1>3, <1>4

\* Nothing adds up to zero.
LEMMA SumEmpty ==
    ASSUME NEW f
    PROVE  (\E g : Adds(g, f, {})) /\ SumFunctionOnSet(f, {}) = 0
<1> DEFINE g == CHOOSE k : Adds(k, f, {})
           z == [s \in SUBSET {} |-> 0]
<1>1. Adds(z, f, {})
  BY DEF Adds
<1>2. Adds(g, f, {})
  BY <1>1
<1> HIDE DEF g
<1>3. g[{}] = 0
  BY <1>2 DEF Adds
<1>4. QED
  BY <1>1, <1>3, SumIs DEF g

\* There are such functions: the fold of a finite set is what its equation says.
LEMMA AddsExists ==
    ASSUME NEW f, NEW S, IsFiniteSet(S)
    PROVE  \E g : Adds(g, f, S)
<1> DEFINE Good == {T \in SUBSET S : \E g : Adds(g, f, T)}
<1>1. ASSUME NEW T \in SUBSET S, \A U \in SUBSET T : U # T => U \in Good
      PROVE  T \in Good
  <2>1. CASE T = {}
    BY <2>1, SumEmpty
  <2>2. CASE T # {}
    <3> DEFINE top == f[Pick(T)] + SumFunctionOnSet(f, T \ {Pick(T)})
               g == [s \in SUBSET T |-> IF s = T THEN top ELSE SumFunctionOnSet(f, s)]
    <3>1. Pick(T) \in T
      BY <2>2, PickIn
    <3>2. \A U \in SUBSET T : U # T => \E k : Adds(k, f, U)
      BY <1>1
    <3>3. ASSUME NEW s \in SUBSET T
          PROVE  g[s] = IF s = {} THEN 0 ELSE f[Pick(s)] + g[s \ {Pick(s)}]
      <4>1. CASE s = {}
        BY <2>2, <4>1, SumEmpty
      <4>2. CASE s # {} /\ s # T
        <5>1. /\ Pick(s) \in s /\ IsFiniteSet(s)
              /\ s \ {Pick(s)} \in SUBSET T /\ s \ {Pick(s)} # T
          BY <4>2, PickIn, FS_Subset
        <5>2. SumFunctionOnSet(f, s) = f[Pick(s)] + SumFunctionOnSet(f, s \ {Pick(s)})
          BY <3>2, <4>2, <5>1, SumFrom
        <5>3. QED
          BY <4>2, <5>1, <5>2
      <4>3. CASE s = T
        BY <2>2, <3>1, <4>3
      <4>4. QED
        BY <4>1, <4>2, <4>3
    <3>4. Adds(g, f, T)
      BY <3>3 DEF Adds
    <3>5. QED
      BY <3>4
  <2>3. QED
    BY <2>1, <2>2
<1>2. S \in Good
  <2> HIDE DEF Good
  <2>1. QED
    BY <1>1, SubsetInduction
<1>3. QED
  BY <1>2

\* One element, the one the fold takes, apart from the others.
LEMMA SumPick ==
    ASSUME NEW f, NEW S, IsFiniteSet(S), S # {}
    PROVE  /\ Pick(S) \in S
           /\ SumFunctionOnSet(f, S) = f[Pick(S)] + SumFunctionOnSet(f, S \ {Pick(S)})
<1>1. IsFiniteSet(S \ {Pick(S)})
  BY FS_RemoveElement
<1>2. QED
  BY <1>1, AddsExists, SumFrom, PickIn

\* A sum of integers is an integer, one of natural numbers a natural number,
\* and one of zeros zero.
LEMMA SumType ==
    ASSUME NEW f, NEW S, IsFiniteSet(S), NEW N \in {Nat, Int, {0}}, \A x \in S : f[x] \in N
    PROVE  SumFunctionOnSet(f, S) \in N
<1> DEFINE Good == {T \in SUBSET S : SumFunctionOnSet(f, T) \in N}
<1>1. ASSUME NEW T \in SUBSET S, \A U \in SUBSET T : U # T => U \in Good
      PROVE  T \in Good
  <2>1. CASE T = {}
    BY <2>1, SumEmpty
  <2>2. CASE T # {}
    <3>1. IsFiniteSet(T)
      BY FS_Subset
    <3>2. /\ Pick(T) \in T
          /\ SumFunctionOnSet(f, T) = f[Pick(T)] + SumFunctionOnSet(f, T \ {Pick(T)})
      BY <2>2, <3>1, SumPick
    <3>3. SumFunctionOnSet(f, T \ {Pick(T)}) \in N /\ f[Pick(T)] \in N
      BY <1>1, <3>2
    <3>4. QED
      BY <3>2, <3>3
  <2>3. QED
    BY <2>1, <2>2
<1>2. S \in Good
  <2> HIDE DEF Good
  <2>1. QED
    BY <1>1, SubsetInduction
<1>3. QED
  BY <1>2

\* Any element can be taken apart from the others.
LEMMA SumRemove ==
    ASSUME NEW f, NEW S, IsFiniteSet(S), \A x \in S : f[x] \in Int, NEW e \in S
    PROVE  SumFunctionOnSet(f, S) = f[e] + SumFunctionOnSet(f, S \ {e})
<1> DEFINE Splits(T, x) == SumFunctionOnSet(f, T) = f[x] + SumFunctionOnSet(f, T \ {x})
           Good == {T \in SUBSET S : \A x \in T : Splits(T, x)}
<1>1. ASSUME NEW T \in SUBSET S, \A U \in SUBSET T : U # T => U \in Good
      PROVE  T \in Good
  <2> SUFFICES ASSUME NEW x \in T
               PROVE  Splits(T, x)
    OBVIOUS
  <2> DEFINE y == Pick(T)
             V == (T \ {x}) \ {y}
  <2>1. IsFiniteSet(T) /\ T # {}
    BY FS_Subset
  <2>2. y \in T /\ Splits(T, y)
    BY <2>1, SumPick
  <2> HIDE DEF y
  <2>3. CASE x = y
    BY <2>2, <2>3
  <2>4. CASE x # y
    <3>1. T \ {x} \in Good /\ T \ {y} \in Good
      BY <1>1, <2>2
    <3>2. SumFunctionOnSet(f, T \ {y}) = f[x] + SumFunctionOnSet(f, (T \ {y}) \ {x})
      BY <2>4, <3>1
    <3>3. SumFunctionOnSet(f, T \ {x}) = f[y] + SumFunctionOnSet(f, V)
      BY <2>2, <2>4, <3>1
    <3>4. (T \ {y}) \ {x} = V
      OBVIOUS
    <3>5. IsFiniteSet(V) /\ V \in SUBSET S
      BY FS_Subset
    <3>6. SumFunctionOnSet(f, V) \in Int /\ f[x] \in Int /\ f[y] \in Int
      BY <2>2, <3>5, SumType
    <3>7. SumFunctionOnSet(f, T) = f[y] + (f[x] + SumFunctionOnSet(f, V))
      BY <2>2, <3>2, <3>4
    <3>8. QED
      BY <3>3, <3>6, <3>7
  <2>5. QED
    BY <2>3, <2>4
<1>2. S \in Good
  <2> HIDE DEF Good
  <2>1. QED
    BY <1>1, SubsetInduction
<1>3. QED
  BY <1>2

\* What is added to a set is added to its sum.
LEMMA SumAdd ==
    ASSUME NEW f, NEW S, IsFiniteSet(S), \A x \in S : f[x] \in Int,
           NEW e, e \notin S, f[e] \in Int
    PROVE  SumFunctionOnSet(f, S \cup {e}) = SumFunctionOnSet(f, S) + f[e]
<1>1. IsFiniteSet(S \cup {e}) /\ (S \cup {e}) \ {e} = S
  BY FS_AddElement
<1>2. SumFunctionOnSet(f, S \cup {e}) = f[e] + SumFunctionOnSet(f, S)
  BY <1>1, SumRemove
<1>3. SumFunctionOnSet(f, S) \in Int
  BY SumType
<1>4. QED
  BY <1>2, <1>3

\* A sum looks at the values on its set alone.
LEMMA SumSame ==
    ASSUME NEW f, NEW g, NEW S, IsFiniteSet(S), \A x \in S : f[x] = g[x]
    PROVE  SumFunctionOnSet(f, S) = SumFunctionOnSet(g, S)
<1> DEFINE Good == {T \in SUBSET S : SumFunctionOnSet(f, T) = SumFunctionOnSet(g, T)}
<1>1. ASSUME NEW T \in SUBSET S, \A U \in SUBSET T : U # T => U \in Good
      PROVE  T \in Good
  <2>1. CASE T = {}
    BY <2>1, SumEmpty
  <2>2. CASE T # {}
    <3>1. IsFiniteSet(T)
      BY FS_Subset
    <3>2. /\ Pick(T) \in T
          /\ SumFunctionOnSet(f, T) = f[Pick(T)] + SumFunctionOnSet(f, T \ {Pick(T)})
          /\ SumFunctionOnSet(g, T) = g[Pick(T)] + SumFunctionOnSet(g, T \ {Pick(T)})
      BY <2>2, <3>1, SumPick
    <3>3. SumFunctionOnSet(f, T \ {Pick(T)}) = SumFunctionOnSet(g, T \ {Pick(T)})
      BY <1>1, <3>2
    <3>4. QED
      BY <3>2, <3>3
  <2>3. QED
    BY <2>1, <2>2
<1>2. S \in Good
  <2> HIDE DEF Good
  <2>1. QED
    BY <1>1, SubsetInduction
<1>3. QED
  BY <1>2

\* A value that changes at one place changes the sum by the difference.
LEMMA SumUpdate ==
    ASSUME NEW S, IsFiniteSet(S), NEW f \in [S -> Int], NEW e \in S, NEW v \in Int
    PROVE  /\ SumFunctionOnSet([f EXCEPT ![e] = v], S) = SumFunctionOnSet(f, S) - f[e] + v
           /\ SumFunctionOnSet(f, S) \in Int
<1> DEFINE g == [f EXCEPT ![e] = v]
           T == S \ {e}
<1>1. IsFiniteSet(T)
  BY FS_RemoveElement
<1>2. SumFunctionOnSet(f, S) = f[e] + SumFunctionOnSet(f, T)
  BY SumRemove
<1>3. g \in [S -> Int] /\ g[e] = v /\ \A x \in T : f[x] = g[x]
  OBVIOUS
<1> HIDE DEF g
<1>4. SumFunctionOnSet(g, S) = v + SumFunctionOnSet(g, T)
  BY <1>3, SumRemove
<1>5. SumFunctionOnSet(f, T) = SumFunctionOnSet(g, T)
  BY <1>1, <1>3, SumSame
<1>6. SumFunctionOnSet(f, T) \in Int
  BY <1>1, SumType
<1>7. f[e] \in Int
  OBVIOUS
<1>8. SumFunctionOnSet(g, S) = SumFunctionOnSet(f, S) - f[e] + v
  BY <1>2, <1>4, <1>5, <1>6, <1>7
<1>9. QED
  BY <1>2, <1>6, <1>7, <1>8 DEF g
=============================================================================
