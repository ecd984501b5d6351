-------------------------------- MODULE Sums --------------------------------
(***************************************************************************)
(* SumFunctionOnSet over finite sets: what it adds up to when an index is  *)
(* taken away or a value changes.  The library states such facts with an   *)
(* operator as a parameter; here the values are those of a function.       *)
(*                                                                         *)
(* Such an operator is a recursive function on the subsets of the indices. *)
(* Induction over them takes the least size of a counterexample.           *)
(***************************************************************************)
EXTENDS Integers, FiniteSets, Functions, FiniteSetTheorems, WellFoundedInduction, TLAPS

\* A set of natural numbers that is not empty has a least element.
LEMMA LeastNatural ==
  ASSUME NEW T, T \subseteq Nat, T # {}
  PROVE  \E x \in T : \A y \in T : ~(y < x)
<1>1. PICK x \in T : \A y \in T : <<y, x>> \notin OpToRel(<, Nat)
  BY WFMin, NatLessThanWellFounded, Zenon
<1> QED
  BY <1>1, Zenon DEF OpToRel

\* And one that is bounded has a greatest.
LEMMA GreatestNatural ==
  ASSUME NEW n \in Nat, NEW s \in SUBSET (1..n), s # {}
  PROVE  \E x \in s : \A y \in s : x >= y
<1> DEFINE T == {n - x : x \in s}
<1>1. PICK t \in T : \A u \in T : ~(u < t)
  <2>1. \A x \in s : n - x \in Nat
    OBVIOUS
  <2>2. T \subseteq Nat
    BY <2>1
  <2>3. PICK x \in s : TRUE
    OBVIOUS
  <2>4. n - x \in T
    OBVIOUS
  <2> HIDE DEF T
  <2> QED
    BY <2>2, <2>4, LeastNatural
<1> QED
  BY <1>1

\* The index that is taken first, and the equation of the recursive function.
First(s) == CHOOSE x \in s : TRUE

Sums(f, it, s) ==
  IF s = {} THEN 0 ELSE f[First(s)] + it[s \ {First(s)}]

LEMMA FirstIn == \A s : s # {} => First(s) \in s
  BY DEF First

LEMMA SumUnfolds ==
  ASSUME NEW f, NEW S
  PROVE  SumFunctionOnSet(f, S) =
           (CHOOSE it : it = [s \in SUBSET S |-> Sums(f, it, s)])[S]
  BY DEF SumFunctionOnSet, FoldFunctionOnSet, MapThenFoldSet, Sums, First

IsSum(f, it, S) == it = [s \in SUBSET S |-> Sums(f, it, s)]

-----------------------------------------------------------------------------
\* A recursive function on the subsets of S exists, that takes one member after the
\* other: by induction on the size of the subsets, one exists that satisfies the
\* equation up to this size.
Folds(first, g, base, it, s) ==
  IF s = {} THEN base ELSE g[<<first[s], it[s \ {first[s]}]>>]

IsFold(first, g, base, it, S) == it = [s \in SUBSET S |-> Folds(first, g, base, it, s)]

LEMMA FoldExists ==
  ASSUME NEW S, IsFiniteSet(S), NEW V, NEW base \in V, NEW g \in [S \X V -> V],
         NEW first, \A s \in SUBSET S : s # {} => first[s] \in s
  PROVE  \E it \in [SUBSET S -> V] : IsFold(first, g, base, it, S)
<1> DEFINE Solves(it, n) ==
             \A s \in SUBSET S : Cardinality(s) <= n => it[s] = Folds(first, g, base, it, s)
           Solvable(n) == \E it \in [SUBSET S -> V] : Solves(it, n)
           Bad == {n \in Nat : ~Solvable(n)}
<1>1. \A s \in SUBSET S : IsFiniteSet(s) /\ Cardinality(s) \in Nat
                         /\ Cardinality(s) <= Cardinality(S)
  BY FS_Subset, FS_CardinalityType
<1>2. \A s \in SUBSET S : s # {} =>
        /\ first[s] \in S /\ s \ {first[s]} \in SUBSET S
        /\ Cardinality(s \ {first[s]}) = Cardinality(s) - 1
  BY <1>1, FS_RemoveElement
<1>3. ASSUME NEW it \in [SUBSET S -> V], NEW s \in SUBSET S
      PROVE  Folds(first, g, base, it, s) \in V
  <2>1. s # {} => <<first[s], it[s \ {first[s]}]>> \in S \X V
    BY <1>2
  <2> QED
    BY <2>1 DEF Folds
<1>4. Bad = {}
  <2> SUFFICES ASSUME Bad # {} PROVE FALSE
    OBVIOUS
  <2>1. PICK n \in Bad : \A m \in Bad : ~(m < n)
    BY LeastNatural
  <2>2. CASE n = 0
    <3> DEFINE it == [s \in SUBSET S |-> base]
    <3>1. \A s \in SUBSET S : Cardinality(s) <= 0 => s = {}
      BY <1>1, FS_EmptySet
    <3>2. it \in [SUBSET S -> V] /\ Solves(it, n)
      BY <2>2, <3>1 DEF Folds
    <3>3. Solvable(n)
      <4> HIDE DEF it, Solves
      <4> QED
        BY <3>2
    <3> HIDE DEF Solvable
    <3> QED
      BY <3>3
  <2>3. CASE n # 0
    <3>1. n \in Nat /\ n - 1 \in Nat /\ Solvable(n - 1)
      <4> HIDE DEF Solvable
      <4> QED
        BY <2>1, <2>3
    <3>2. PICK it \in [SUBSET S -> V] : Solves(it, n - 1)
      BY <3>1
    <3> DEFINE jt == [s \in SUBSET S |->
                        IF Cardinality(s) <= n - 1 THEN it[s]
                        ELSE Folds(first, g, base, it, s)]
    <3>3. jt \in [SUBSET S -> V]
      BY <1>3
    <3>4. ASSUME NEW s \in SUBSET S, Cardinality(s) <= n
          PROVE  jt[s] = Folds(first, g, base, jt, s)
      <4>1. jt[s] = Folds(first, g, base, it, s)
        BY <3>2
      <4>2. s # {} => jt[s \ {first[s]}] = it[s \ {first[s]}]
        BY <1>1, <1>2, <3>1, <3>4
      <4> QED
        BY <4>1, <4>2 DEF Folds
    <3>5. Solvable(n)
      <4>1. Solves(jt, n)
        BY <3>4
      <4> HIDE DEF jt, Solves
      <4> QED
        BY <3>3, <4>1
    <3> HIDE DEF Solvable
    <3> QED
      BY <3>5
  <2> QED
    BY <2>2, <2>3
<1>5. PICK it \in [SUBSET S -> V] : Solves(it, Cardinality(S))
  <2>1. Solvable(Cardinality(S))
    <3> HIDE DEF Solvable
    <3> QED
      BY <1>1, <1>4
  <2> QED
    BY <2>1
<1>6. it = [s \in SUBSET S |-> Folds(first, g, base, it, s)]
  BY <1>1, <1>5
<1> QED
  BY <1>6 DEF IsFold

\* What it says of no member, and of one more whenever it says it of the others, it
\* says of all.
LEMMA FoldTyped ==
  ASSUME NEW S, IsFiniteSet(S), NEW V, NEW it, it[{}] \in V,
         NEW first, \A s \in SUBSET S : s # {} => first[s] \in s,
         \A s \in SUBSET S : s # {} /\ it[s \ {first[s]}] \in V => it[s] \in V
  PROVE  \A s \in SUBSET S : it[s] \in V
<1> DEFINE Bad == {s \in SUBSET S : it[s] \notin V}
           Sizes == {n \in Nat : \E s \in Bad : n = Cardinality(s)}
<1> SUFFICES ASSUME Bad # {} PROVE FALSE
  OBVIOUS
<1>1. \A s \in SUBSET S : IsFiniteSet(s) /\ Cardinality(s) \in Nat
  BY FS_Subset, FS_CardinalityType
<1>2. PICK n \in Sizes : \A m \in Sizes : ~(m < n)
  <2>1. PICK s \in Bad : TRUE
    OBVIOUS
  <2>2. Cardinality(s) \in Sizes
    BY <1>1, <2>1
  <2>3. Sizes \in SUBSET Nat /\ Sizes # {}
    BY <2>2
  <2> HIDE DEF Sizes
  <2> QED
    BY <2>3, LeastNatural
<1>3. PICK s \in Bad : n = Cardinality(s)
  OBVIOUS
<1>4. s # {}
  BY <1>3
<1> DEFINE t == s \ {first[s]}
<1>5. t \in SUBSET S /\ Cardinality(t) = n - 1
  BY <1>1, <1>3, <1>4, FS_RemoveElement
<1>6. it[t] \in V
  BY <1>1, <1>2, <1>5
<1> QED
  BY <1>3, <1>4, <1>6

LEMMA SumExists ==
  ASSUME NEW f, NEW S, IsFiniteSet(S), \A x \in S : f[x] \in Int
  PROVE  \E it \in [SUBSET S -> Int] : IsSum(f, it, S)
<1> DEFINE first == [s \in SUBSET S |-> First(s)]
           g == [p \in S \X Int |-> f[p[1]] + p[2]]
<1>1. \A s \in SUBSET S : s # {} => first[s] = First(s) /\ first[s] \in s
  BY FirstIn
<1>2. g \in [S \X Int -> Int]
  OBVIOUS
<1>3. PICK it \in [SUBSET S -> Int] : IsFold(first, g, 0, it, S)
  <2> HIDE DEF first, g
  <2>1. \A s \in SUBSET S : s # {} => first[s] \in s
    BY <1>1
  <2>2. 0 \in Int
    OBVIOUS
  <2> QED
    BY <1>2, <2>1, <2>2, FoldExists
<1>4. ASSUME NEW s \in SUBSET S PROVE Folds(first, g, 0, it, s) = Sums(f, it, s)
  <2>1. s # {} => /\ First(s) \in S /\ it[s \ {First(s)}] \in Int
                  /\ first[s] = First(s)
    BY <1>1
  <2> QED
    BY <2>1 DEF Folds, Sums
<1>5. it = [s \in SUBSET S |-> Sums(f, it, s)]
  <2> HIDE DEF first, g
  <2> QED
    BY <1>3, <1>4 DEF IsFold
<1> QED
  BY <1>5 DEF IsSum

\* Of a set and a subset of it, and of functions that agree on the subset, the
\* recursive functions agree.
LEMMA SumUnique ==
  ASSUME NEW f, NEW g, NEW S, NEW T \in SUBSET S, IsFiniteSet(S), \A x \in T : f[x] = g[x],
         NEW it, IsSum(f, it, S), NEW jt, IsSum(g, jt, T)
  PROVE  \A s \in SUBSET T : it[s] = jt[s]
<1> DEFINE Bad == {s \in SUBSET T : it[s] # jt[s]}
           Sizes == {n \in Nat : \E s \in Bad : n = Cardinality(s)}
<1> SUFFICES ASSUME Bad # {} PROVE FALSE
  OBVIOUS
<1>1. \A s \in SUBSET T : IsFiniteSet(s) /\ Cardinality(s) \in Nat
  BY FS_Subset, FS_CardinalityType
<1>2. PICK n \in Sizes : \A m \in Sizes : ~(m < n)
  BY <1>1, LeastNatural
<1>3. PICK s \in Bad : n = Cardinality(s)
  OBVIOUS
<1>4. it[s] = Sums(f, it, s) /\ jt[s] = Sums(g, jt, s)
  BY DEF IsSum
<1>5. s # {}
  BY <1>3, <1>4 DEF Sums
<1> DEFINE t == s \ {First(s)}
<1>6. First(s) \in T /\ t \in SUBSET T /\ Cardinality(t) = n - 1
  BY <1>1, <1>3, <1>5, FirstIn, FS_RemoveElement
<1>7. it[t] = jt[t]
  BY <1>1, <1>2, <1>6
<1> QED
  BY <1>3, <1>4, <1>6, <1>7 DEF Sums

\* SumFunctionOnSet is the value of a recursive function.
LEMMA SumIsSum ==
  ASSUME NEW f, NEW S, IsFiniteSet(S), \A x \in S : f[x] \in Int
  PROVE  \E it \in [SUBSET S -> Int] : IsSum(f, it, S) /\ SumFunctionOnSet(f, S) = it[S]
<1> DEFINE jt == CHOOSE it : it = [s \in SUBSET S |-> Sums(f, it, s)]
<1>1. PICK it \in [SUBSET S -> Int] : IsSum(f, it, S)
  BY SumExists
<1>2. IsSum(f, jt, S)
  BY <1>1 DEF IsSum
<1>3. \A s \in SUBSET S : it[s] = jt[s]
  BY <1>1, <1>2, SumUnique
<1>4. SumFunctionOnSet(f, S) = it[S]
  BY <1>3, SumUnfolds
<1> QED
  BY <1>1, <1>4

-----------------------------------------------------------------------------
(* What the other modules use                                              *)

LEMMA SumEmpty ==
  ASSUME NEW f
  PROVE  SumFunctionOnSet(f, {}) = 0
<1>1. IsFiniteSet({})
  BY FS_EmptySet
<1>2. PICK it \in [SUBSET {} -> Int] : IsSum(f, it, {}) /\ SumFunctionOnSet(f, {}) = it[{}]
  BY <1>1, SumIsSum
<1> QED
  BY <1>2 DEF IsSum, Sums

LEMMA SumType ==
  ASSUME NEW f, NEW S, IsFiniteSet(S), \A x \in S : f[x] \in Int
  PROVE  SumFunctionOnSet(f, S) \in Int
<1>1. PICK it \in [SUBSET S -> Int] : SumFunctionOnSet(f, S) = it[S]
  BY SumIsSum
<1> QED
  BY <1>1

\* The sum depends on the values at the indices only.
LEMMA SumSame ==
  ASSUME NEW f, NEW g, NEW S, IsFiniteSet(S),
         \A x \in S : f[x] \in Int, \A x \in S : f[x] = g[x]
  PROVE  SumFunctionOnSet(f, S) = SumFunctionOnSet(g, S)
<1>1. PICK it \in [SUBSET S -> Int] : IsSum(f, it, S) /\ SumFunctionOnSet(f, S) = it[S]
  BY SumIsSum
<1>2. \A x \in S : g[x] \in Int
  OBVIOUS
<1>3. PICK jt \in [SUBSET S -> Int] : IsSum(g, jt, S) /\ SumFunctionOnSet(g, S) = jt[S]
  BY <1>2, SumIsSum
<1> QED
  BY <1>1, <1>3, SumUnique

LEMMA SumZero ==
  ASSUME NEW f, NEW S, IsFiniteSet(S), \A x \in S : f[x] = 0
  PROVE  SumFunctionOnSet(f, S) = 0
<1> DEFINE zero == [s \in SUBSET S |-> 0]
<1>1. \A s : s # {} => First(s) \in s
  BY FirstIn
<1>2. \A s \in SUBSET S : Sums(f, zero, s) = 0
  BY <1>1 DEF Sums
<1>3. IsSum(f, zero, S)
  BY <1>2 DEF IsSum
<1>4. \A x \in S : f[x] \in Int
  OBVIOUS
<1> HIDE DEF zero
<1>5. PICK it \in [SUBSET S -> Int] : IsSum(f, it, S) /\ SumFunctionOnSet(f, S) = it[S]
  BY <1>4, SumIsSum
<1>6. it[S] = zero[S]
  BY <1>3, <1>5, SumUnique
<1> QED
  BY <1>5, <1>6 DEF zero

\* Any index may be taken first.
LEMMA SumRemove ==
  ASSUME NEW f, NEW S, IsFiniteSet(S), \A y \in S : f[y] \in Int, NEW x \in S
  PROVE  SumFunctionOnSet(f, S) = f[x] + SumFunctionOnSet(f, S \ {x})
<1>1. PICK it \in [SUBSET S -> Int] : IsSum(f, it, S) /\ SumFunctionOnSet(f, S) = it[S]
  BY SumIsSum
<1> DEFINE Taken(s, y) == it[s] = f[y] + it[s \ {y}]
           Bad == {s \in SUBSET S : \E y \in s : ~Taken(s, y)}
           Sizes == {n \in Nat : \E s \in Bad : n = Cardinality(s)}
<1>2. \A s \in SUBSET S : IsFiniteSet(s) /\ Cardinality(s) \in Nat
  BY FS_Subset, FS_CardinalityType
<1>3. \A s \in SUBSET S : s # {} => First(s) \in s /\ Taken(s, First(s))
  BY <1>1, FirstIn DEF IsSum, Sums
<1>4. Bad = {}
  <2> SUFFICES ASSUME Bad # {} PROVE FALSE
    OBVIOUS
  <2>1. PICK n \in Sizes : \A m \in Sizes : ~(m < n)
    <3>1. Sizes \subseteq Nat /\ Sizes # {}
      BY <1>2
    <3> HIDE DEF Sizes
    <3> QED
      BY <3>1, LeastNatural
  <2>2. PICK s \in Bad : n = Cardinality(s)
    OBVIOUS
  <2>3. PICK y \in s : ~Taken(s, y)
    OBVIOUS
  <2> DEFINE z == First(s)
  <2>4. z \in s /\ z # y /\ Taken(s, z)
    BY <1>3, <2>3
  <2>5. ASSUME NEW t \in SUBSET S, Cardinality(t) = n - 1, NEW w \in t
        PROVE  Taken(t, w)
    <3>1. n \in Nat /\ n - 1 \in Nat /\ n - 1 \notin Sizes
      BY <1>2, <2>1, <2>5
    <3>2. t \notin Bad
      BY <2>5, <3>1
    <3> HIDE DEF Taken
    <3> QED
      BY <3>2
  <2>6. /\ s \ {y} \in SUBSET S /\ Cardinality(s \ {y}) = n - 1
        /\ s \ {z} \in SUBSET S /\ Cardinality(s \ {z}) = n - 1
    BY <1>2, <2>2, <2>3, <2>4, FS_RemoveElement
  <2>7. Taken(s \ {y}, z) /\ Taken(s \ {z}, y)
    <3> HIDE DEF Taken
    <3> QED
      BY <2>3, <2>4, <2>5, <2>6
  <2>8. (s \ {y}) \ {z} = (s \ {z}) \ {y}
    OBVIOUS
  <2>9. /\ f[y] \in Int /\ f[z] \in Int
        /\ it[s] \in Int /\ it[(s \ {y}) \ {z}] \in Int
    BY <2>2, <2>3, <2>4
  <2>10. /\ it[s] = f[z] + it[s \ {z}] /\ it[s \ {z}] = f[y] + it[(s \ {z}) \ {y}]
         /\ it[s \ {y}] = f[z] + it[(s \ {y}) \ {z}]
    BY <2>4, <2>7
  <2>11. it[s] = f[y] + it[s \ {y}]
    <3>1. it[(s \ {z}) \ {y}] = it[(s \ {y}) \ {z}]
      BY <2>8
    <3>2. it[s] = f[z] + (f[y] + it[(s \ {y}) \ {z}])
      BY <2>10, <3>1
    <3>3. f[z] + (f[y] + it[(s \ {y}) \ {z}]) = f[y] + (f[z] + it[(s \ {y}) \ {z}])
      BY <2>9
    <3> QED
      BY <2>10, <3>2, <3>3
  <2> QED
    BY <2>3, <2>11
<1>5. it[S] = f[x] + it[S \ {x}]
  BY <1>4
<1>6. IsFiniteSet(S \ {x}) /\ \A y \in S \ {x} : f[y] \in Int
  BY FS_RemoveElement
<1>7. PICK jt \in [SUBSET (S \ {x}) -> Int] :
        IsSum(f, jt, S \ {x}) /\ SumFunctionOnSet(f, S \ {x}) = jt[S \ {x}]
  BY <1>6, SumIsSum
<1>8. it[S \ {x}] = jt[S \ {x}]
  <2>1. S \ {x} \in SUBSET S
    OBVIOUS
  <2>2. \A s \in SUBSET (S \ {x}) : it[s] = jt[s]
    BY <1>1, <1>7, <2>1, SumUnique
  <2> QED
    BY <2>2
<1> QED
  BY <1>1, <1>5, <1>7, <1>8

\* An index that is added, and one whose value changes.
LEMMA SumAdd ==
  ASSUME NEW f, NEW S, IsFiniteSet(S), NEW x, x \notin S,
         \A y \in S \cup {x} : f[y] \in Int
  PROVE  SumFunctionOnSet(f, S \cup {x}) = SumFunctionOnSet(f, S) + f[x]
<1> DEFINE T == S \cup {x}
<1>1. IsFiniteSet(T) /\ x \in T /\ T \ {x} = S
  BY FS_AddElement
<1>2. SumFunctionOnSet(f, T) = f[x] + SumFunctionOnSet(f, T \ {x})
  <2> HIDE DEF T
  <2> QED
    BY <1>1, SumRemove DEF T
<1>3. SumFunctionOnSet(f, S) \in Int /\ f[x] \in Int
  BY SumType
<1>4. SumFunctionOnSet(f, T) = f[x] + SumFunctionOnSet(f, S)
  BY <1>1, <1>2
<1> QED
  BY <1>3, <1>4

LEMMA SumChange ==
  ASSUME NEW f, NEW g, NEW S, IsFiniteSet(S), NEW x \in S,
         \A y \in S : f[y] \in Int /\ g[y] \in Int,
         \A y \in S : y # x => f[y] = g[y]
  PROVE  SumFunctionOnSet(g, S) = SumFunctionOnSet(f, S) - f[x] + g[x]
<1>1. /\ SumFunctionOnSet(f, S) = f[x] + SumFunctionOnSet(f, S \ {x})
      /\ SumFunctionOnSet(g, S) = g[x] + SumFunctionOnSet(g, S \ {x})
  BY SumRemove
<1>2. IsFiniteSet(S \ {x}) /\ \A y \in S \ {x} : f[y] \in Int /\ f[y] = g[y]
  BY FS_RemoveElement
<1>3. /\ SumFunctionOnSet(f, S \ {x}) = SumFunctionOnSet(g, S \ {x})
      /\ SumFunctionOnSet(f, S \ {x}) \in Int
  BY <1>2, SumSame, SumType
<1> QED
  BY <1>1, <1>3

\* A sum of naturals is one.
LEMMA SumNat ==
  ASSUME NEW f, NEW S, IsFiniteSet(S), \A x \in S : f[x] \in Nat
  PROVE  SumFunctionOnSet(f, S) \in Nat
<1> DEFINE Bad == {s \in SUBSET S : SumFunctionOnSet(f, s) \notin Nat}
           Sizes == {n \in Nat : \E s \in Bad : n = Cardinality(s)}
<1> SUFFICES ASSUME Bad # {} PROVE FALSE
  OBVIOUS
<1>1. \A s \in SUBSET S : IsFiniteSet(s) /\ Cardinality(s) \in Nat
  BY FS_Subset, FS_CardinalityType
<1>2. PICK n \in Sizes : \A m \in Sizes : ~(m < n)
  BY <1>1, LeastNatural
<1>3. PICK s \in Bad : n = Cardinality(s)
  OBVIOUS
<1>4. PICK x \in s : x \in S
  BY <1>3, SumEmpty
<1> DEFINE t == s \ {x}
<1>5. t \in SUBSET S /\ Cardinality(t) = n - 1 /\ Cardinality(t) \in Nat
  BY <1>1, <1>3, <1>4, FS_RemoveElement
<1>6. SumFunctionOnSet(f, t) \in Nat
  BY <1>1, <1>2, <1>5
<1>7. SumFunctionOnSet(f, s) = f[x] + SumFunctionOnSet(f, t)
  BY <1>1, <1>3, <1>4, SumRemove
<1> QED
  BY <1>3, <1>4, <1>6, <1>7


-----------------------------------------------------------------------------
(* Lists in the order of a relation                                        *)

Orders(S, R) ==
  /\ \A x \in S : <<x, x>> \notin R
  /\ \A x, y, z \in S : <<x, y>> \in R /\ <<y, z>> \in R => <<x, z>> \in R
  /\ \A x, y \in S : x = y \/ <<x, y>> \in R \/ <<y, x>> \in R

Ordered(list, n, R) == \A i, j \in 1..n : i < j => <<list[i], list[j]>> \in R

NumberBefore(x, S, R) == Cardinality({u \in S : <<u, x>> \in R})

\* Every member has a place, one more than the number of those before it.
Ranked(list, n, S, R) ==
  /\ \A x \in S : \E i \in 1..n : list[i] = x
  /\ \A i \in 1..n : NumberBefore(list[i], S, R) = i - 1

\* The members of a finite set that are in order make a list.
LEMMA OrderedList ==
  ASSUME NEW S, IsFiniteSet(S), NEW R, Orders(S, R)
  PROVE  \E list \in [1..Cardinality(S) -> S] : Ordered(list, Cardinality(S), R)
<1> DEFINE n == Cardinality(S)
           Before(x) == {u \in S : <<u, x>> \in R}
           rank == [x \in S |-> Cardinality(Before(x)) + 1]
<1>0. n \in Nat /\ IsFiniteSet(1..n) /\ Cardinality(1..n) = n
  BY FS_CardinalityType, FS_Interval
<1>1. ASSUME NEW x \in S PROVE IsFiniteSet(Before(x)) /\ Cardinality(Before(x)) \in Nat
  BY FS_Subset, FS_CardinalityType
<1>2. ASSUME NEW x \in S, NEW T \in SUBSET S, Before(x) \cup {x} \subseteq T
      PROVE  Cardinality(Before(x)) + 1 <= Cardinality(T)
  <2>1. x \notin Before(x)
    BY DEF Orders
  <2>2. Cardinality(Before(x) \cup {x}) = Cardinality(Before(x)) + 1
    BY <1>1, <2>1, FS_AddElement
  <2>3. IsFiniteSet(T) /\ Cardinality(Before(x) \cup {x}) <= Cardinality(T)
    BY <1>2, FS_Subset
  <2> QED
    BY <2>2, <2>3
<1>3. rank \in [S -> 1..n]
  <2>1. ASSUME NEW x \in S PROVE Cardinality(Before(x)) + 1 \in 1..n
    <3>1. Before(x) \cup {x} \subseteq S
      OBVIOUS
    <3>2. Cardinality(Before(x)) + 1 <= n
      BY <1>2, <3>1
    <3> HIDE DEF Before, n
    <3> QED
      BY <1>0, <1>1, <3>2
  <2> HIDE DEF Before, n
  <2> QED
    BY <2>1
<1>4. ASSUME NEW x \in S, NEW y \in S, <<x, y>> \in R PROVE rank[x] < rank[y]
  <2>1. Before(x) \cup {x} \subseteq Before(y)
    BY <1>4 DEF Orders
  <2>2. Cardinality(Before(x)) + 1 <= Cardinality(Before(y))
    BY <1>2, <2>1
  <2> QED
    BY <1>1, <2>2
<1>5. ASSUME NEW x \in S, NEW y \in S, rank[x] = rank[y] PROVE x = y
  <2> HIDE DEF rank
  <2>1. rank[x] \in Int /\ rank[y] \in Int
    BY <1>0, <1>3
  <2>2. ~(<<x, y>> \in R) /\ ~(<<y, x>> \in R)
    BY <1>4, <1>5, <2>1
  <2> QED
    BY <2>2 DEF Orders
<1>6. \A i \in 1..n : \E x \in S : rank[x] = i
  <2> HIDE DEF rank
  <2>1. rank \in Injection(S, 1..n)
    BY <1>3, <1>5 DEF Injection, IsInjective
  <2>2. rank \in Surjection(S, 1..n)
    BY <1>0, <2>1, FS_Injection
  <2> QED
    BY <2>2 DEF Surjection
<1> DEFINE list == [i \in 1..n |-> CHOOSE x \in S : rank[x] = i]
<1>7. \A i \in 1..n : list[i] \in S /\ rank[list[i]] = i
  <2> HIDE DEF rank
  <2> QED
    BY <1>6
<1>8. list \in [1..n -> S]
  <2> HIDE DEF rank
  <2> QED
    BY <1>7
<1> HIDE DEF list, rank
<1>9. ASSUME NEW i \in 1..n, NEW j \in 1..n, i < j PROVE <<list[i], list[j]>> \in R
  <2>1. /\ list[i] \in S /\ list[j] \in S
        /\ rank[list[i]] = i /\ rank[list[j]] = j
    BY <1>7
  <2>2. i \in Int /\ j \in Int /\ ~(j < i) /\ i # j
    BY <1>0, <1>9
  <2>3. ~(<<list[j], list[i]>> \in R)
    BY <1>4, <2>1, <2>2
  <2> QED
    BY <2>1, <2>2, <2>3 DEF Orders
<1> QED
  BY <1>8, <1>9 DEF Ordered

\* In an ordered list, each is at its rank.
LEMMA RankInList ==
  ASSUME NEW S, IsFiniteSet(S), NEW R, Orders(S, R), NEW n \in Nat, n = Cardinality(S),
         NEW list \in [1..n -> S], Ordered(list, n, R)
  PROVE  Ranked(list, n, S, R)
<1>0. n \in Nat /\ IsFiniteSet(1..n) /\ Cardinality(1..n) = n
  BY FS_CardinalityType, FS_Interval
<1>1. ASSUME NEW i \in 1..n, NEW j \in 1..n, <<list[j], list[i]>> \in R \/ list[i] = list[j]
      PROVE  i = j \/ j < i
  <2>1. i \in Int /\ j \in Int
    BY <1>0
  <2>2. ~(i < j)
    <3>1. i < j => <<list[i], list[j]>> \in R
      BY DEF Ordered
    <3>2. list[i] \in S /\ list[j] \in S
      OBVIOUS
    <3> QED
      BY <1>1, <3>1, <3>2 DEF Orders
  <2> QED
    BY <2>1, <2>2
<1>2. list \in Injection(1..n, S)
  <2>1. ASSUME NEW i \in 1..n, NEW j \in 1..n, list[i] = list[j] PROVE i = j
    <3>1. i \in Int /\ j \in Int
      BY <1>0
    <3>2. (i = j \/ j < i) /\ (i = j \/ i < j)
      BY <1>1, <2>1
    <3> QED
      BY <3>1, <3>2
  <2> QED
    BY <2>1 DEF Injection, IsInjective
<1>3. list \in Surjection(1..n, S)
  BY <1>0, <1>2, FS_Injection
<1>4. \A x \in S : \E i \in 1..n : list[i] = x
  BY <1>3 DEF Surjection
<1>5. ASSUME NEW i \in 1..n PROVE Cardinality({u \in S : <<u, list[i]>> \in R}) = i - 1
  <2> DEFINE B == {u \in S : <<u, list[i]>> \in R}
             K == 1..(i - 1)
             f == [j \in K |-> list[j]]
  <2>0. i \in Nat /\ 1 \in Int /\ i - 1 \in Int /\ (IF 1 > i - 1 THEN 0 ELSE (i - 1) - 1 + 1) = i - 1
    BY <1>0
  <2>1. IsFiniteSet(K) /\ Cardinality(K) = i - 1 /\ K \subseteq 1..n
    <3>1. K \subseteq 1..n
      BY <1>0
    <3> QED
      BY <2>0, <3>1, FS_Interval
  <2>2. \A j \in K : list[j] \in B
    BY <1>0, <2>1 DEF Ordered
  <2>3. \A u \in B : \E j \in K : list[j] = u
    <3>1. ASSUME NEW u \in B PROVE \E j \in K : list[j] = u
      <4>1. PICK j \in 1..n : list[j] = u
        BY <1>4
      <4>2. j # i /\ <<list[j], list[i]>> \in R
        BY <4>1 DEF Orders
      <4> QED
        BY <1>0, <1>1, <4>1, <4>2
    <3> QED
      BY <3>1
  <2> HIDE DEF B, K
  <2>4. f \in Bijection(K, B)
    BY <1>2, <2>1, <2>2, <2>3 DEF Bijection, Injection, Surjection, IsInjective
  <2>5. Cardinality(B) = Cardinality(K)
    BY <2>1, <2>4, FS_Bijection DEF ExistsBijection
  <2> QED
    BY <2>1, <2>5 DEF B
<1> QED
  BY <1>4, <1>5 DEF NumberBefore, Ranked
=============================================================================
