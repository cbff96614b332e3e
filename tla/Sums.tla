------------------------------- MODULE Sums -------------------------------
(* Facts about SumFunctionOnSet, the sum of a function over a finite set, for  *)
(* the proofs about stock, money and points.  It is defined by recursion on    *)
(* subsets, and the installed provers cannot use an induction theorem with an  *)
(* operator for its parameter: the induction is drawn from well-foundedness,   *)
(* which speaks of a set, as the minimal counterexample that does not exist.   *)
EXTENDS Functions, FiniteSets, FiniteSetTheorems, WellFoundedInduction, TLAPS

\* The element a sum over s takes first.
Pick(s) == CHOOSE x \in s : TRUE

\* g adds up f over each set of D, one element after the other.
Adds(f, D, g) ==
  g = [s \in D |-> IF s = {} THEN 0 ELSE f[Pick(s)] + g[s \ {Pick(s)}]]

\* The same over all subsets of S.
SumsUp(f, S, g) == Adds(f, SUBSET S, g)

\* g is f over S with n added at y.
DiffersAt(f, g, S, y, n) ==
  /\ y \in S /\ n \in Int /\ \A x \in S : f[x] \in Int
  /\ \A x \in S \ {y} : g[x] = f[x]
  /\ g[y] = f[y] + n

\* g over T is nowhere more than f over S, a larger set.
Below(g, T, f, S) ==
  T \subseteq S /\ \A x \in S : f[x] \in Nat /\ g[x] \in Nat /\ g[x] <= f[x]

\* Pick takes an element of a set that has one.
LEMMA PickIsIn == ASSUME NEW s, s # {} PROVE Pick(s) \in s
BY DEF Pick

\* SumFunctionOnSet, its definition expanded: the recursion on subsets that folds make.
LEMMA SumUnfolds ==
  ASSUME NEW f, NEW S
  PROVE  SumFunctionOnSet(f, S) = (CHOOSE g : SumsUp(f, S, g))[S]
BY DEF SumFunctionOnSet, FoldFunctionOnSet, MapThenFoldSet, SumsUp, Adds, Pick

\* A set of natural numbers that is not empty has a least one.
LEMMA LeastNatural ==
  ASSUME NEW T \in SUBSET Nat, T # {}
  PROVE  \E n \in T : \A m \in T : n <= m
<1>1. IsWellFoundedOn(OpToRel(<, Nat), Nat)
  BY NatLessThanWellFounded
<1>2. PICK n \in T : \A m \in T : ~(<<m, n>> \in OpToRel(<, Nat))
  BY <1>1, WFMin
<1>3. ASSUME NEW m \in T PROVE n <= m
  <2>1. <<m, n>> \in Nat \X Nat OBVIOUS
  <2>2. ~(m < n) BY <1>2, <2>1 DEF OpToRel
  <2> QED BY <2>2
<1> QED BY <1>3

\* A set of subsets of a finite set that is not empty has a minimal one.
LEMMA LeastSubset ==
  ASSUME NEW S, IsFiniteSet(S), NEW T \in SUBSET (SUBSET S), T # {}
  PROVE  \E s \in T : \A t \in T : ~(t \subseteq s /\ t # s)
<1> DEFINE N == {n \in Nat : \E t \in T : n = Cardinality(t)}
<1>1. ASSUME NEW t \in T PROVE IsFiniteSet(t) /\ Cardinality(t) \in N
  BY FS_Subset, FS_CardinalityType
<1>2. N # {} /\ N \in SUBSET Nat
  BY <1>1
<1>3. PICK n \in N : \A m \in N : n <= m
  BY <1>2, LeastNatural
<1>4. PICK s \in T : n = Cardinality(s)
  OBVIOUS
<1>5. ASSUME NEW t \in T, t \subseteq s PROVE t = s
  <2>1. n <= Cardinality(t)
    BY <1>1, <1>3
  <2>2. Cardinality(t) <= Cardinality(s) /\ (Cardinality(s) = Cardinality(t) => s = t)
    BY <1>1, <1>5, FS_Subset
  <2>3. Cardinality(t) \in Nat /\ Cardinality(s) \in Nat
    BY <1>1
  <2> QED BY <1>4, <2>1, <2>2, <2>3
<1> QED BY <1>5

\* Induction over the subsets of a finite set, the induction hypothesis as a set:
\* what holds of {} and of T whenever it holds of T less any of its elements holds
\* of the whole.
LEMMA SetInduction ==
  ASSUME NEW S, IsFiniteSet(S), NEW Good, {} \in Good,
         \A T \in SUBSET S : T # {} /\ (\A x \in T : T \ {x} \in Good) => T \in Good
  PROVE  S \in Good
<1> DEFINE Bad == {s \in SUBSET S : s \notin Good}
<1>1. ASSUME Bad # {} PROVE FALSE
  <2>1. Bad \in SUBSET (SUBSET S)
    OBVIOUS
  <2>2. PICK s \in Bad : \A t \in Bad : ~(t \subseteq s /\ t # s)
    <3> HIDE DEF Bad
    <3> QED BY <1>1, <2>1, LeastSubset
  <2>3. \A x \in s : s \ {x} \in Good
    BY <2>2
  <2> QED BY <2>3
<1> QED BY <1>1

\* The recursion that defines a sum has a solution on a finite set ...
LEMMA AddsExists ==
  ASSUME NEW f, NEW S, IsFiniteSet(S)
  PROVE  \E g : SumsUp(f, S, g)
<1> DEFINE D(n) == {s \in SUBSET S : Cardinality(s) <= n}
           Bad  == {n \in Nat : ~ \E g : Adds(f, D(n), g)}
<1>0. ASSUME NEW s \in SUBSET S
      PROVE  IsFiniteSet(s) /\ Cardinality(s) \in Nat /\ Cardinality(s) <= Cardinality(S)
  BY FS_Subset, FS_CardinalityType
<1>1. 0 \notin Bad
  <2>1. ASSUME NEW s \in D(0) PROVE s = {}
    BY <1>0, FS_EmptySet
  <2> DEFINE g == [s \in D(0) |-> 0]
  <2>2. Adds(f, D(0), g)
    BY <2>1 DEF Adds
  <2> QED BY <2>2
<1>2. ASSUME NEW n \in Nat, n \notin Bad PROVE n + 1 \notin Bad
  <2>1. PICK g : Adds(f, D(n), g)
    BY <1>2
  <2> DEFINE h == [s \in D(n + 1) |-> IF s = {} THEN 0 ELSE f[Pick(s)] + g[s \ {Pick(s)}]]
  <2>2. ASSUME NEW s \in D(n) PROVE s \in D(n + 1) /\ h[s] = g[s]
    <3>1. s \in D(n + 1)
      BY <1>0
    <3>2. g[s] = IF s = {} THEN 0 ELSE f[Pick(s)] + g[s \ {Pick(s)}]
      BY <2>1 DEF Adds
    <3> QED BY <3>1, <3>2
  <2>3. ASSUME NEW s \in D(n + 1), s # {} PROVE s \ {Pick(s)} \in D(n)
    <3>1. Cardinality(s \ {Pick(s)}) = Cardinality(s) - 1
      BY <1>0, <2>3, PickIsIn, FS_RemoveElement
    <3> QED BY <3>1, <1>0
  <2>4. Adds(f, D(n + 1), h)
    <3>1. ASSUME NEW s \in D(n + 1)
          PROVE  h[s] = IF s = {} THEN 0 ELSE f[Pick(s)] + h[s \ {Pick(s)}]
      <4>1. CASE s = {}
        BY <4>1
      <4>2. CASE s # {}
        <5>1. h[s \ {Pick(s)}] = g[s \ {Pick(s)}]
          BY <4>2, <2>2, <2>3
        <5> QED BY <4>2, <5>1
      <4> QED BY <4>1, <4>2
    <3>2. h = [s \in D(n + 1) |-> h[s]]
      OBVIOUS
    <3> HIDE DEF h
    <3> QED BY <3>1, <3>2 DEF Adds
  <2> HIDE DEF D
  <2> QED BY <2>4
<1>3. Bad = {}
  <2> SUFFICES ASSUME Bad # {} PROVE FALSE
    OBVIOUS
  <2>1. PICK n \in Bad : \A m \in Bad : n <= m
    BY LeastNatural
  <2>2. n # 0
    BY <1>1
  <2>3. n - 1 \in Nat /\ n = (n - 1) + 1 /\ ~(n <= n - 1)
    BY <2>2
  <2>4. n - 1 \notin Bad
    <3> HIDE DEF Bad
    <3> QED BY <2>1, <2>3
  <2> HIDE DEF Bad
  <2> QED BY <2>3, <2>4, <1>2
<1>4. D(Cardinality(S)) = SUBSET S /\ Cardinality(S) \in Nat
  BY <1>0, FS_CardinalityType
<1>5. \E g : Adds(f, D(Cardinality(S)), g)
  BY <1>3, <1>4
<1> HIDE DEF D
<1> QED BY <1>4, <1>5 DEF SumsUp

\* ... and only one value: that of a subset does not depend on what else is summed.
LEMMA AddsAgree ==
  ASSUME NEW f, NEW S, IsFiniteSet(S), NEW T \in SUBSET S,
         NEW g, SumsUp(f, S, g), NEW h, SumsUp(f, T, h)
  PROVE  g[T] = h[T]
<1> DEFINE Good == {s \in SUBSET T : g[s] = h[s]}
<1>1. ASSUME NEW s \in SUBSET T
      PROVE  /\ g[s] = IF s = {} THEN 0 ELSE f[Pick(s)] + g[s \ {Pick(s)}]
             /\ h[s] = IF s = {} THEN 0 ELSE f[Pick(s)] + h[s \ {Pick(s)}]
  BY DEF SumsUp, Adds
<1>2. {} \in Good
  BY <1>1
<1>3. ASSUME NEW s \in SUBSET T, s # {}, \A x \in s : s \ {x} \in Good
      PROVE  s \in Good
  BY <1>1, <1>3, PickIsIn
<1>4. T \in Good
  <2>1. IsFiniteSet(T)
    BY FS_Subset
  <2> HIDE DEF Good
  <2> QED BY <1>2, <1>3, <2>1, SetInduction
<1> QED BY <1>4

\* A sum is the element taken first and the sum of the rest.
LEMMA SumStep ==
  ASSUME NEW f, NEW S, IsFiniteSet(S)
  PROVE  SumFunctionOnSet(f, S) =
           IF S = {} THEN 0
           ELSE f[Pick(S)] + SumFunctionOnSet(f, S \ {Pick(S)})
<1> DEFINE T == S \ {Pick(S)}
           g == CHOOSE g : SumsUp(f, S, g)
           h == CHOOSE h : SumsUp(f, T, h)
<1>1. T \in SUBSET S /\ IsFiniteSet(T)
  BY FS_RemoveElement
<1>2. SumsUp(f, S, g)
  BY AddsExists
<1>3. SumsUp(f, T, h)
  <2> HIDE DEF T
  <2> QED BY <1>1, AddsExists
<1>4. g[T] = h[T]
  <2> HIDE DEF g, h, T
  <2> QED BY <1>1, <1>2, <1>3, AddsAgree
<1>5. SumFunctionOnSet(f, S) = g[S] /\ SumFunctionOnSet(f, T) = h[T]
  BY SumUnfolds
<1>6. g[S] = IF S = {} THEN 0 ELSE f[Pick(S)] + g[T]
  <2> HIDE DEF g
  <2> QED BY <1>2 DEF SumsUp, Adds
<1> QED BY <1>4, <1>5, <1>6

\* The sum of nothing is 0.
LEMMA SumEmpty == ASSUME NEW f PROVE SumFunctionOnSet(f, {}) = 0
BY SumStep, FS_EmptySet

\* A sum of integers is an integer ...
LEMMA SumInt ==
  ASSUME NEW S, IsFiniteSet(S), NEW f, \A x \in S : f[x] \in Int
  PROVE  SumFunctionOnSet(f, S) \in Int
<1> DEFINE Good == {s \in SUBSET S : SumFunctionOnSet(f, s) \in Int}
<1>1. {} \in Good
  BY SumEmpty
<1>2. ASSUME NEW s \in SUBSET S, s # {}, \A x \in s : s \ {x} \in Good
      PROVE  s \in Good
  <2>1. IsFiniteSet(s) /\ Pick(s) \in s
    BY <1>2, FS_Subset, PickIsIn
  <2>2. s \ {Pick(s)} \in Good
    BY <1>2, <2>1
  <2> QED BY <1>2, <2>1, <2>2, SumStep
<1>3. S \in Good
  <2> HIDE DEF Good
  <2> QED BY <1>1, <1>2, SetInduction
<1> QED BY <1>3

\* ... a sum of natural numbers is a natural number ...
LEMMA SumNat ==
  ASSUME NEW S, IsFiniteSet(S), NEW f, \A x \in S : f[x] \in Nat
  PROVE  SumFunctionOnSet(f, S) \in Nat
<1> DEFINE Good == {s \in SUBSET S : SumFunctionOnSet(f, s) \in Nat}
<1>1. {} \in Good
  BY SumEmpty
<1>2. ASSUME NEW s \in SUBSET S, s # {}, \A x \in s : s \ {x} \in Good
      PROVE  s \in Good
  <2>1. IsFiniteSet(s) /\ Pick(s) \in s
    BY <1>2, FS_Subset, PickIsIn
  <2>2. s \ {Pick(s)} \in Good
    BY <1>2, <2>1
  <2> QED BY <1>2, <2>1, <2>2, SumStep
<1>3. S \in Good
  <2> HIDE DEF Good
  <2> QED BY <1>1, <1>2, SetInduction
<1> QED BY <1>3

\* ... and a sum of integers none of which is positive is not positive.
LEMMA SumNegative ==
  ASSUME NEW S, IsFiniteSet(S), NEW f, \A x \in S : f[x] \in Int /\ f[x] <= 0
  PROVE  SumFunctionOnSet(f, S) \in Int /\ SumFunctionOnSet(f, S) <= 0
<1> DEFINE Good == {s \in SUBSET S : /\ SumFunctionOnSet(f, s) \in Int
                                      /\ SumFunctionOnSet(f, s) <= 0}
<1>1. {} \in Good
  BY SumEmpty
<1>2. ASSUME NEW s \in SUBSET S, s # {}, \A x \in s : s \ {x} \in Good
      PROVE  s \in Good
  <2>1. IsFiniteSet(s) /\ Pick(s) \in s
    BY <1>2, FS_Subset, PickIsIn
  <2>2. s \ {Pick(s)} \in Good
    BY <1>2, <2>1
  <2> QED BY <1>2, <2>1, <2>2, SumStep
<1>3. S \in Good
  <2> HIDE DEF Good
  <2> QED BY <1>1, <1>2, SetInduction
<1> QED BY <1>3

\* Any element can be taken out first: the order of a sum does not matter.
LEMMA SumRemove ==
  ASSUME NEW S, IsFiniteSet(S), NEW f, \A x \in S : f[x] \in Int, NEW y \in S
  PROVE  SumFunctionOnSet(f, S) = f[y] + SumFunctionOnSet(f, S \ {y})
<1> DEFINE Total(s) == SumFunctionOnSet(f, s)
           Good == {s \in SUBSET S : \A z \in s : Total(s) = f[z] + Total(s \ {z})}
<1>1. {} \in Good
  OBVIOUS
<1>2. ASSUME NEW s \in SUBSET S, s # {}, \A x \in s : s \ {x} \in Good, NEW z \in s
      PROVE  Total(s) = f[z] + Total(s \ {z})
  <2> DEFINE x == Pick(s)
  <2>1. x \in s
    BY PickIsIn
  <2>2. Total(s) = f[x] + Total(s \ {x})
    BY <1>2, FS_Subset, SumStep
  <2>3. CASE x # z
    <3>1. s \ {x} \in Good /\ s \ {z} \in Good
      BY <1>2, <2>1
    <3>2. Total(s \ {x}) = f[z] + Total((s \ {x}) \ {z})
      BY <3>1, <2>3
    <3>3. Total(s \ {z}) = f[x] + Total((s \ {z}) \ {x})
      <4>1. x \in s \ {z}
        BY <2>1, <2>3
      <4> HIDE DEF x
      <4> QED BY <3>1, <4>1
    <3>4. Total((s \ {x}) \ {z}) = Total((s \ {z}) \ {x})
      <4>1. (s \ {x}) \ {z} = (s \ {z}) \ {x}
        OBVIOUS
      <4> QED BY <4>1, Zenon
    <3>5. f[x] \in Int /\ f[z] \in Int /\ Total((s \ {z}) \ {x}) \in Int
      <4>1. IsFiniteSet((s \ {z}) \ {x})
        BY FS_Subset
      <4>2. \A w \in (s \ {z}) \ {x} : f[w] \in Int
        OBVIOUS
      <4> QED BY <2>1, <4>1, <4>2, SumInt
    <3> HIDE DEF Total, x
    <3> QED BY <2>2, <3>2, <3>3, <3>4, <3>5
  <2> HIDE DEF x, Total
  <2>4. CASE x = z
    BY <2>2, <2>4
  <2> QED BY <2>3, <2>4
<1>3. S \in Good
  <2> HIDE DEF Total
  <2>1. \A s \in SUBSET S : s # {} /\ (\A x \in s : s \ {x} \in Good) => s \in Good
    BY <1>2
  <2> HIDE DEF Good
  <2> QED BY <1>1, <2>1, SetInduction
<1> QED BY <1>3

\* A new element adds its value.
LEMMA SumAdd ==
  ASSUME NEW S, IsFiniteSet(S), NEW y, y \notin S,
         NEW f, \A x \in S \union {y} : f[x] \in Int
  PROVE  SumFunctionOnSet(f, S \union {y}) = SumFunctionOnSet(f, S) + f[y]
<1>1. (S \union {y}) \ {y} = S /\ IsFiniteSet(S \union {y})
  BY FS_AddElement
<1>2. SumFunctionOnSet(f, S) \in Int
  BY SumInt
<1> QED BY <1>1, <1>2, SumRemove

\* Functions that agree on a set have the same sum over it.
LEMMA SumSame ==
  ASSUME NEW S, IsFiniteSet(S), NEW f, NEW g, \A x \in S : f[x] = g[x]
  PROVE  SumFunctionOnSet(f, S) = SumFunctionOnSet(g, S)
<1> DEFINE Good == {s \in SUBSET S : SumFunctionOnSet(f, s) = SumFunctionOnSet(g, s)}
<1>1. {} \in Good
  BY SumEmpty
<1>2. ASSUME NEW s \in SUBSET S, s # {}, \A x \in s : s \ {x} \in Good
      PROVE  s \in Good
  <2>1. IsFiniteSet(s) /\ Pick(s) \in s
    BY <1>2, FS_Subset, PickIsIn
  <2>2. s \ {Pick(s)} \in Good
    BY <1>2, <2>1
  <2> QED BY <1>2, <2>1, <2>2, SumStep
<1>3. S \in Good
  <2> HIDE DEF Good
  <2> QED BY <1>1, <1>2, SetInduction
<1> QED BY <1>3

\* A change at one element changes the sum by as much.
LEMMA SumChange ==
  ASSUME NEW S, IsFiniteSet(S), NEW f, NEW g, NEW y, NEW n, DiffersAt(f, g, S, y, n)
  PROVE  SumFunctionOnSet(g, S) = SumFunctionOnSet(f, S) + n
<1> USE DEF DiffersAt
<1> DEFINE T == S \ {y}
<1>1. IsFiniteSet(T) /\ \A x \in T : f[x] \in Int /\ g[x] = f[x]
  BY FS_RemoveElement
<1>2. SumFunctionOnSet(f, S) = f[y] + SumFunctionOnSet(f, T)
  BY SumRemove DEF DiffersAt
<1>3. SumFunctionOnSet(g, S) = g[y] + SumFunctionOnSet(g, T)
  <2>1. \A x \in S : g[x] \in Int
    OBVIOUS
  <2> QED BY <2>1, SumRemove
<1>4. SumFunctionOnSet(g, T) = SumFunctionOnSet(f, T) /\ SumFunctionOnSet(f, T) \in Int
  <2> HIDE DEF T
  <2> QED BY <1>1, SumSame, SumInt
<1>5. f[y] \in Int
  OBVIOUS
<1> HIDE DEF T
<1> QED BY <1>2, <1>3, <1>4, <1>5

\* A sum of sums.
LEMMA SumPlus ==
  ASSUME NEW S, IsFiniteSet(S), NEW f, NEW g, NEW h,
         \A x \in S : f[x] \in Int /\ g[x] \in Int /\ h[x] = f[x] + g[x]
  PROVE  SumFunctionOnSet(h, S) = SumFunctionOnSet(f, S) + SumFunctionOnSet(g, S)
<1> DEFINE Good == {s \in SUBSET S :
                      SumFunctionOnSet(h, s) = SumFunctionOnSet(f, s) + SumFunctionOnSet(g, s)}
<1>1. {} \in Good
  BY SumEmpty
<1>2. ASSUME NEW s \in SUBSET S, s # {}, \A x \in s : s \ {x} \in Good
      PROVE  s \in Good
  <2>1. IsFiniteSet(s) /\ Pick(s) \in s
    BY <1>2, FS_Subset, PickIsIn
  <2>2. s \ {Pick(s)} \in Good
    BY <1>2, <2>1
  <2>3. /\ SumFunctionOnSet(f, s) = f[Pick(s)] + SumFunctionOnSet(f, s \ {Pick(s)})
        /\ SumFunctionOnSet(g, s) = g[Pick(s)] + SumFunctionOnSet(g, s \ {Pick(s)})
        /\ SumFunctionOnSet(h, s) = h[Pick(s)] + SumFunctionOnSet(h, s \ {Pick(s)})
    BY <1>2, <2>1, SumStep
  <2>4. /\ SumFunctionOnSet(f, s \ {Pick(s)}) \in Int
        /\ SumFunctionOnSet(g, s \ {Pick(s)}) \in Int
    <3>1. s \ {Pick(s)} \in SUBSET S /\ IsFiniteSet(s \ {Pick(s)})
      BY <2>1, FS_Subset
    <3> QED
      BY <3>1, SumInt
  <2> QED BY <2>1, <2>2, <2>3, <2>4
<1>3. S \in Good
  <2> HIDE DEF Good
  <2> QED BY <1>1, <1>2, SetInduction
<1> QED BY <1>3

\* A sum of zeros is 0.
LEMMA SumZero ==
  ASSUME NEW S, IsFiniteSet(S), NEW f, \A x \in S : f[x] = 0
  PROVE  SumFunctionOnSet(f, S) = 0
<1> DEFINE Good == {s \in SUBSET S : SumFunctionOnSet(f, s) = 0}
<1>1. {} \in Good
  BY SumEmpty
<1>2. ASSUME NEW s \in SUBSET S, s # {}, \A x \in s : s \ {x} \in Good
      PROVE  s \in Good
  <2>1. IsFiniteSet(s) /\ Pick(s) \in s
    BY <1>2, FS_Subset, PickIsIn
  <2>2. s \ {Pick(s)} \in Good
    BY <1>2, <2>1
  <2> QED BY <1>2, <2>1, <2>2, SumStep
<1>3. S \in Good
  <2> HIDE DEF Good
  <2> QED BY <1>1, <1>2, SetInduction
<1> QED BY <1>3

\* The sum over two disjoint sets is the sum of the two sums.
LEMMA SumUnion ==
  ASSUME NEW S, IsFiniteSet(S), NEW T, IsFiniteSet(T), S \cap T = {},
         NEW f, \A x \in S \union T : f[x] \in Int
  PROVE  SumFunctionOnSet(f, S \union T) = SumFunctionOnSet(f, S) + SumFunctionOnSet(f, T)
<1> DEFINE Total(s) == SumFunctionOnSet(f, s)
           Good == {s \in SUBSET T : Total(S \union s) = Total(S) + Total(s)}
<1>1. Total(S) \in Int /\ S \union {} = S /\ Total({}) = 0
  BY SumInt, SumEmpty
<1>2. {} \in Good
  <2> HIDE DEF Total
  <2> QED BY <1>1
<1>3. ASSUME NEW s \in SUBSET T, s # {}, \A x \in s : s \ {x} \in Good
      PROVE  s \in Good
  <2>1. PICK x \in s : TRUE
    BY <1>3
  <2>2. IsFiniteSet(s) /\ \A y \in s : f[y] \in Int
    BY FS_Subset
  <2>3. Total(S \union (s \ {x})) = Total(S) + Total(s \ {x})
    BY <1>3
  <2>4. Total(s) = f[x] + Total(s \ {x})
    BY <2>2, SumRemove
  <2>5. Total(S \union s) = f[x] + Total(S \union (s \ {x}))
    <3>1. (S \union s) \ {x} = S \union (s \ {x}) /\ IsFiniteSet(S \union s)
      BY <2>2, FS_Union
    <3>2. x \in S \union s /\ \A y \in S \union s : f[y] \in Int
      OBVIOUS
    <3> QED BY <3>1, <3>2, SumRemove
  <2>6. f[x] \in Int /\ Total(s \ {x}) \in Int
    BY <2>2, FS_Subset, SumInt
  <2> HIDE DEF Total
  <2> QED BY <1>1, <2>3, <2>4, <2>5, <2>6
<1>4. T \in Good
  <2> HIDE DEF Good
  <2> QED BY <1>2, <1>3, SetInduction
<1> QED BY <1>4

\* Less of less is less.
LEMMA SumBelow ==
  ASSUME NEW S, IsFiniteSet(S), NEW T, NEW f, NEW g, Below(g, T, f, S)
  PROVE  SumFunctionOnSet(g, T) <= SumFunctionOnSet(f, S)
<1> DEFINE Rest == S \ T
           Good == {s \in SUBSET T : SumFunctionOnSet(g, s) <= SumFunctionOnSet(f, s)}
<1>1. \A x \in S : f[x] \in Nat /\ g[x] \in Nat /\ g[x] <= f[x]
  BY DEF Below
<1>2. T \in SUBSET S /\ IsFiniteSet(T) /\ IsFiniteSet(Rest)
  BY FS_Subset DEF Below
<1>3. {} \in Good
  BY SumEmpty
<1>4. ASSUME NEW s \in SUBSET T, s # {}, \A x \in s : s \ {x} \in Good
      PROVE  s \in Good
  <2>1. IsFiniteSet(s) /\ Pick(s) \in s /\ s \in SUBSET S
    BY <1>2, <1>4, FS_Subset, PickIsIn
  <2>2. s \ {Pick(s)} \in Good
    BY <1>4, <2>1
  <2>3. /\ SumFunctionOnSet(f, s) = f[Pick(s)] + SumFunctionOnSet(f, s \ {Pick(s)})
        /\ SumFunctionOnSet(g, s) = g[Pick(s)] + SumFunctionOnSet(g, s \ {Pick(s)})
    BY <1>4, <2>1, SumStep
  <2>4. /\ SumFunctionOnSet(f, s \ {Pick(s)}) \in Nat
        /\ SumFunctionOnSet(g, s \ {Pick(s)}) \in Nat
    <3>1. s \ {Pick(s)} \in SUBSET S /\ IsFiniteSet(s \ {Pick(s)})
      BY <2>1, FS_Subset
    <3> QED
      BY <1>1, <3>1, SumNat
  <2> QED
    BY <1>1, <2>1, <2>2, <2>3, <2>4
<1>5. T \in Good
  <2> HIDE DEF Good
  <2> QED
    BY <1>2, <1>3, <1>4, SetInduction
<1>6. SumFunctionOnSet(f, T \union Rest) = SumFunctionOnSet(f, T) + SumFunctionOnSet(f, Rest)
  <2>1. T \intersect Rest = {} /\ \A x \in T \union Rest : f[x] \in Int
    BY <1>1, <1>2
  <2> HIDE DEF Rest
  <2> QED
    BY <1>2, <2>1, SumUnion
<1>7. SumFunctionOnSet(f, S) = SumFunctionOnSet(f, T \union Rest)
  <2>1. S = T \union Rest
    BY <1>2
  <2> QED
    BY <2>1, Zenon
<1>8. /\ SumFunctionOnSet(f, Rest) \in Nat /\ SumFunctionOnSet(f, T) \in Nat
      /\ SumFunctionOnSet(g, T) \in Nat
  <2>1. /\ \A x \in Rest : f[x] \in Nat
        /\ \A x \in T : f[x] \in Nat /\ g[x] \in Nat
    BY <1>1, <1>2
  <2> HIDE DEF Rest
  <2> QED
    BY <1>2, <2>1, SumNat
<1> HIDE DEF Rest
<1> QED
  BY <1>5, <1>6, <1>7, <1>8
=============================================================================
