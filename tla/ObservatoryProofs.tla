-------------------------- MODULE ObservatoryProofs --------------------------
(***************************************************************************)
(* Theorems about Observatory, for any elements, tiles, edits, command     *)
(* lines, budgets and mishaps: what the tables add up to, what the event   *)
(* history holds, what a rebuild finds, and what the site publishes.       *)
(***************************************************************************)
EXTENDS Observatory, SequenceTheorems, FiniteSetTheorems, WellFoundedInduction, TLAPS

-----------------------------------------------------------------------------
(* Sums over finite sets.                                                  *)

\* A set of naturals that is not empty has a least.
LEMMA LeastNatural ==
    ASSUME NEW S, S \subseteq Nat, S # {}
    PROVE  \E x \in S : \A y \in S : x <= y
<1>1. PICK x \in S : \A y \in S : ~ (<<y, x>> \in OpToRel(<, Nat))
  BY NatLessThanWellFounded, WFMin
<1>2. \A y \in S : ~ (y < x)
  BY <1>1 DEF OpToRel
<1> QED
  BY <1>2

\* A property that a set has when all the sets one smaller have it, every subset of a
\* finite set has: the smallest that had it not would have it.
LEMMA SetInduction ==
    ASSUME NEW S, IsFiniteSet(S), NEW Good,
           \A T \in SUBSET S : (\A x \in T : T \ {x} \in Good) => T \in Good
    PROVE  \A T \in SUBSET S : T \in Good
<1> DEFINE Bad == {T \in SUBSET S : T \notin Good}
           Sizes == {Cardinality(T) : T \in Bad}
<1>1. \A T \in SUBSET S : IsFiniteSet(T) /\ Cardinality(T) \in Nat
  BY FS_Subset, FS_CardinalityType
<1>2. SUFFICES ASSUME Bad # {} PROVE FALSE
  OBVIOUS
<1>3. Sizes \subseteq Nat /\ Sizes # {}
  BY <1>1, <1>2
<1>4. PICK n \in Sizes : \A k \in Sizes : n <= k
  <2> HIDE DEF Sizes
  <2> QED
    BY <1>3, LeastNatural
<1>5. PICK T \in Bad : Cardinality(T) = n
  OBVIOUS
<1>6. ASSUME NEW x \in T PROVE T \ {x} \in Good
  <2>1. IsFiniteSet(T) /\ Cardinality(T) \in Nat
    BY <1>1, <1>5
  <2>2. Cardinality(T \ {x}) = Cardinality(T) - 1
    BY <2>1, FS_RemoveElement
  <2>3. T \ {x} \in SUBSET S
    BY <1>5
  <2>4. T \ {x} \in Bad => n <= Cardinality(T \ {x})
    BY <1>4
  <2>5. T \ {x} \notin Bad
    BY <1>5, <2>1, <2>2, <2>4
  <2> QED
    BY <2>3, <2>5
<1> QED
  BY <1>5, <1>6

\* The running totals of a sum, as the fold that MapThenSumSet is defined by keeps them.
Folds(total, f, S) ==
    total = [s \in SUBSET S |->
                IF s = {} THEN 0
                ELSE f[CHOOSE x \in s : TRUE] + total[s \ {CHOOSE x \in s : TRUE}]]

SumOf(f, S) == (CHOOSE total : Folds(total, f, S))[S]

Summable(f, S) == IsFiniteSet(S) /\ \A x \in S : f[x] \in Int

LEMMA PickedIsThere ==
    ASSUME NEW s, s # {}
    PROVE  (CHOOSE x \in s : TRUE) \in s
OBVIOUS

\* There are such totals: those of the sets of up to n elements give those of one more.
LEMMA FoldExists ==
    ASSUME NEW f, NEW S, IsFiniteSet(S)
    PROVE  \E total : Folds(total, f, S)
<1> DEFINE Upto(n) == {s \in SUBSET S : Cardinality(s) <= n}
           IsPart(total, n) ==
               total = [s \in Upto(n) |->
                           IF s = {} THEN 0
                           ELSE f[CHOOSE x \in s : TRUE] + total[s \ {CHOOSE x \in s : TRUE}]]
           Missing == {n \in Nat : ~ \E total : IsPart(total, n)}
<1>1. \A s \in SUBSET S : IsFiniteSet(s) /\ Cardinality(s) \in Nat
  BY FS_Subset, FS_CardinalityType
<1>2. \A s \in SUBSET S : Cardinality(s) = 0 <=> s = {}
  BY <1>1, FS_EmptySet
<1>3. \A s \in SUBSET S : \A x \in s : Cardinality(s \ {x}) = Cardinality(s) - 1
  BY <1>1, FS_RemoveElement
<1>4. \E total : IsPart(total, 0)
  <2> DEFINE total == [s \in Upto(0) |-> 0]
  <2>1. \A s \in Upto(0) : s = {}
    BY <1>1, <1>2
  <2>2. IsPart(total, 0)
    BY <2>1
  <2> QED
    BY <2>2
<1>5. ASSUME NEW n \in Nat, NEW part, IsPart(part, n)
      PROVE  \E total : IsPart(total, n + 1)
  <2> DEFINE picked(s) == CHOOSE x \in s : TRUE
             total == [s \in Upto(n + 1) |-> IF s = {} THEN 0 ELSE f[picked(s)] + part[s \ {picked(s)}]]
  <2>1. ASSUME NEW s \in Upto(n + 1), s # {}
        PROVE  s \ {picked(s)} \in Upto(n) /\ s \ {picked(s)} \in Upto(n + 1)
    <3>1. picked(s) \in s
      BY <2>1, PickedIsThere
    <3>2. Cardinality(s \ {picked(s)}) = Cardinality(s) - 1 /\ Cardinality(s) \in Nat
      BY <1>1, <1>3, <3>1
    <3>3. s \ {picked(s)} \in SUBSET S /\ Cardinality(s) <= n + 1
      OBVIOUS
    <3> HIDE DEF picked
    <3>4. Cardinality(s \ {picked(s)}) <= n /\ Cardinality(s \ {picked(s)}) <= n + 1
      BY <3>2, <3>3
    <3> QED
      BY <3>3, <3>4
  <2>2. ASSUME NEW t \in Upto(n), t \in Upto(n + 1)
        PROVE  part[t] = total[t]
    <3>1. part[t] = IF t = {} THEN 0 ELSE f[picked(t)] + part[t \ {picked(t)}]
      BY <1>5
    <3>2. total[t] = IF t = {} THEN 0 ELSE f[picked(t)] + part[t \ {picked(t)}]
      BY <2>2
    <3> QED
      BY <3>1, <3>2
  <2>3. ASSUME NEW s \in Upto(n + 1)
        PROVE  total[s] = IF s = {} THEN 0 ELSE f[picked(s)] + total[s \ {picked(s)}]
    <3>1. total[s] = IF s = {} THEN 0 ELSE f[picked(s)] + part[s \ {picked(s)}]
      OBVIOUS
    <3>2. s # {} => part[s \ {picked(s)}] = total[s \ {picked(s)}]
      BY <2>1, <2>2
    <3> HIDE DEF total, picked
    <3> QED
      BY <3>1, <3>2
  <2>4. total = [s \in Upto(n + 1) |-> total[s]]
    OBVIOUS
  <2> HIDE DEF total
  <2>5. IsPart(total, n + 1)
    BY <2>3, <2>4
  <2> QED
    BY <2>5
<1>6. \A n \in Nat : \E total : IsPart(total, n)
  <2> HIDE DEF IsPart
  <2> SUFFICES ASSUME Missing # {} PROVE FALSE
    OBVIOUS
  <2>1. PICK n \in Missing : \A k \in Missing : n <= k
    BY LeastNatural
  <2>2. n # 0 /\ n \in Nat
    BY <1>4
  <2>3. n - 1 \in Nat /\ n - 1 \notin Missing
    BY <2>1, <2>2
  <2>4. PICK part : IsPart(part, n - 1)
    BY <2>3
  <2>5. \E total : IsPart(total, n - 1 + 1)
    BY <1>5, <2>3, <2>4
  <2>6. n - 1 + 1 = n
    BY <2>2
  <2> QED
    BY <2>5, <2>6
<1>7. PICK total : IsPart(total, Cardinality(S))
  <2> HIDE DEF IsPart
  <2> QED
    BY <1>1, <1>6
<1>8. Upto(Cardinality(S)) = SUBSET S
  BY FS_Subset
<1>9. Folds(total, f, S)
  <2> HIDE DEF Upto
  <2> QED
    BY <1>7, <1>8 DEF Folds
<1> QED
  BY <1>9

\* Whatever keeps such totals has the same ones on every subset.
LEMMA FoldIsSum ==
    ASSUME NEW f, NEW S, IsFiniteSet(S), NEW total, Folds(total, f, S)
    PROVE  \A T \in SUBSET S : total[T] = SumOf(f, T)
<1> DEFINE picked(s) == CHOOSE x \in s : TRUE
<1> SUFFICES ASSUME NEW T \in SUBSET S PROVE total[T] = SumOf(f, T)
  OBVIOUS
<1> DEFINE sum == CHOOSE it : Folds(it, f, T)
<1>1. Folds(sum, f, T)
  <2>1. IsFiniteSet(T)
    BY FS_Subset
  <2>2. \E it : Folds(it, f, T)
    BY <2>1, FoldExists
  <2> QED
    BY <2>2
<1> HIDE DEF sum
<1> DEFINE Good == {s \in SUBSET T : total[s] = sum[s]}
<1>2. ASSUME NEW s \in SUBSET T, \A x \in s : s \ {x} \in Good
      PROVE  s \in Good
  <2>1. total[s] = IF s = {} THEN 0 ELSE f[picked(s)] + total[s \ {picked(s)}]
    BY DEF Folds
  <2>2. sum[s] = IF s = {} THEN 0 ELSE f[picked(s)] + sum[s \ {picked(s)}]
    BY <1>1 DEF Folds
  <2>3. s # {} => picked(s) \in s
    BY PickedIsThere
  <2> HIDE DEF picked
  <2>4. s # {} => total[s \ {picked(s)}] = sum[s \ {picked(s)}]
    BY <1>2, <2>3
  <2> QED
    BY <2>1, <2>2, <2>4
<1>3. IsFiniteSet(T)
  BY FS_Subset
<1>4. T \in Good
  <2>1. T \in SUBSET T
    OBVIOUS
  <2>2. \A s \in SUBSET T : (\A x \in s : s \ {x} \in Good) => s \in Good
    BY <1>2
  <2> HIDE DEF Good
  <2> QED
    BY <1>3, <2>1, <2>2, SetInduction
<1>5. sum[T] = SumOf(f, T)
  BY DEF sum, SumOf
<1> QED
  BY <1>4, <1>5

\* A sum is that of nothing, or any term and the sum of the others.
LEMMA SumSplits ==
    ASSUME NEW f, NEW S, Summable(f, S)
    PROVE  /\ S = {} => SumOf(f, S) = 0
           /\ SumOf(f, S) \in Int
           /\ \A x \in S : SumOf(f, S) = f[x] + SumOf(f, S \ {x})
<1> DEFINE picked(s) == CHOOSE x \in s : TRUE
<1>1. IsFiniteSet(S) /\ \A x \in S : f[x] \in Int
  BY DEF Summable
<1>2. PICK total : Folds(total, f, S)
  BY <1>1, FoldExists
<1>3. \A s \in SUBSET S : total[s] = IF s = {} THEN 0 ELSE f[picked(s)] + total[s \ {picked(s)}]
  BY <1>2 DEF Folds
<1>4. \A s \in SUBSET S : s # {} => picked(s) \in s
  BY PickedIsThere
<1> HIDE DEF picked
<1> DEFINE Whole == {s \in SUBSET S : total[s] \in Int}
           Good == {s \in SUBSET S : \A x \in s : total[s] = f[x] + total[s \ {x}]}
<1>5. \A s \in SUBSET S : s \in Whole
  <2>1. ASSUME NEW s \in SUBSET S, \A x \in s : s \ {x} \in Whole
        PROVE  s \in Whole
    <3>1. CASE s = {}
      <4>1. total[s] = 0
        BY <1>3, <3>1
      <4> QED
        BY <4>1
    <3>2. CASE s # {}
      <4>1. picked(s) \in s /\ f[picked(s)] \in Int
        BY <1>1, <1>4, <3>2
      <4>2. total[s \ {picked(s)}] \in Int
        BY <2>1, <4>1
      <4>3. total[s] = f[picked(s)] + total[s \ {picked(s)}]
        BY <1>3, <3>2
      <4> QED
        BY <4>1, <4>2, <4>3
    <3> QED
      BY <3>1, <3>2
  <2> HIDE DEF Whole
  <2> QED
    BY <1>1, <2>1, SetInduction
<1>6. \A s \in SUBSET S : s \in Good
  <2>1. ASSUME NEW s \in SUBSET S, \A x \in s : s \ {x} \in Good
        PROVE  s \in Good
    <3> SUFFICES ASSUME NEW x \in s PROVE total[s] = f[x] + total[s \ {x}]
      OBVIOUS
    <3> DEFINE p == picked(s)
    <3>1. p \in s /\ total[s] = f[p] + total[s \ {p}]
      BY <1>3, <1>4
    <3> HIDE DEF p
    <3>2. CASE x = p
      BY <3>1, <3>2
    <3>3. CASE x # p
      <4>1. x \in s \ {p} /\ p \in s \ {x} /\ s \ {p} \in Good /\ s \ {x} \in Good
        BY <2>1, <3>1, <3>3
      <4>2. total[s \ {p}] = f[x] + total[(s \ {p}) \ {x}]
        BY <4>1
      <4>3. total[s \ {x}] = f[p] + total[(s \ {x}) \ {p}]
        BY <4>1
      <4>4. (s \ {p}) \ {x} = (s \ {x}) \ {p}
        OBVIOUS
      <4>5. total[(s \ {x}) \ {p}] \in Int /\ f[x] \in Int /\ f[p] \in Int
        BY <1>1, <1>5, <3>1
      <4> DEFINE rest == total[(s \ {x}) \ {p}]
      <4> HIDE DEF Good, rest
      <4>6. total[s] = f[p] + (f[x] + rest)
        BY <3>1, <4>2, <4>4 DEF rest
      <4>7. f[x] + total[s \ {x}] = f[x] + (f[p] + rest)
        BY <4>3 DEF rest
      <4>8. rest \in Int
        BY <4>5 DEF rest
      <4>9. \A a, b, c \in Int : a + (b + c) = b + (a + c)
        OBVIOUS
      <4> QED
        BY <4>5, <4>6, <4>7, <4>8, <4>9
    <3> QED
      BY <3>2, <3>3
  <2> HIDE DEF Good
  <2> QED
    BY <1>1, <2>1, SetInduction
<1>7. \A s \in SUBSET S : total[s] = SumOf(f, s)
  BY <1>1, <1>2, FoldIsSum
<1>8. S \in SUBSET S /\ \A x \in S : S \ {x} \in SUBSET S
  OBVIOUS
<1>9. S = {} => total[S] = 0
  BY <1>3, <1>8
<1> QED
  BY <1>5, <1>6, <1>7, <1>8, <1>9

LEMMA SummableParts ==
    ASSUME NEW f, NEW S, Summable(f, S), NEW T \in SUBSET S
    PROVE  Summable(f, T)
BY FS_Subset DEF Summable

\* The sum of two sets that are apart is that of their union.
LEMMA SumOfUnion ==
    ASSUME NEW f, NEW S, NEW T, Summable(f, S), Summable(f, T), S \cap T = {}
    PROVE  SumOf(f, S \cup T) = SumOf(f, S) + SumOf(f, T)
<1> DEFINE Good == {s \in SUBSET S : SumOf(f, s \cup T) = SumOf(f, s) + SumOf(f, T)}
<1>1. IsFiniteSet(S) /\ IsFiniteSet(T)
  BY DEF Summable
<1>2. \A s \in SUBSET S : Summable(f, s)
  BY SummableParts
<1>3. \A s \in SUBSET S : Summable(f, s \cup T)
  <2>1. \A s \in SUBSET S : IsFiniteSet(s \cup T)
    BY <1>1, FS_Subset, FS_Union
  <2> QED
    BY <2>1 DEF Summable
<1>4. ASSUME NEW s \in SUBSET S, \A x \in s : s \ {x} \in Good
      PROVE  s \in Good
  <2>1. CASE s = {}
    <3>1. SumOf(f, s) = 0 /\ SumOf(f, T) \in Int
      BY <1>2, <2>1, SumSplits
    <3>2. s \cup T = T
      BY <2>1
    <3>3. SumOf(f, s \cup T) = SumOf(f, s) + SumOf(f, T)
      BY <3>1, <3>2
    <3> QED
      BY <3>3
  <2>2. CASE s # {}
    <3>1. PICK x \in s : TRUE
      BY <2>2
    <3>2. SumOf(f, s) = f[x] + SumOf(f, s \ {x}) /\ f[x] \in Int
      BY <1>2, SumSplits DEF Summable
    <3>3. SumOf(f, s \cup T) = f[x] + SumOf(f, (s \cup T) \ {x})
      BY <1>3, SumSplits
    <3>4. (s \cup T) \ {x} = (s \ {x}) \cup T
      OBVIOUS
    <3>5. SumOf(f, (s \ {x}) \cup T) = SumOf(f, s \ {x}) + SumOf(f, T)
      BY <1>4
    <3>6. SumOf(f, s \ {x}) \in Int /\ SumOf(f, T) \in Int
      <4>1. Summable(f, s \ {x})
        BY <1>2
      <4> QED
        BY <4>1, SumSplits
    <3> HIDE DEF Good
    <3>7. SumOf(f, s \cup T) = f[x] + (SumOf(f, s \ {x}) + SumOf(f, T))
      BY <3>3, <3>4, <3>5
    <3>8. \A a, b, c \in Int : a + (b + c) = (a + b) + c
      OBVIOUS
    <3>9. SumOf(f, s \cup T) = SumOf(f, s) + SumOf(f, T)
      BY <3>2, <3>6, <3>7, <3>8
    <3> QED
      BY <3>9 DEF Good
  <2> QED
    BY <2>1, <2>2
<1>5. S \in Good
  <2>1. S \in SUBSET S
    OBVIOUS
  <2> HIDE DEF Good
  <2> QED
    BY <1>1, <1>4, <2>1, SetInduction
<1> QED
  BY <1>5

\* The parts of a partition add up to the whole.
LEMMA SumOfParts ==
    ASSUME NEW f, NEW S, Summable(f, S), NEW K, IsFiniteSet(K),
           NEW part, \A k \in K : part[k] \in SUBSET S,
           \A j, k \in K : j # k => part[j] \cap part[k] = {},
           \A x \in S : \E k \in K : x \in part[k],
           NEW g, \A k \in K : g[k] = SumOf(f, part[k])
    PROVE  Summable(g, K) /\ SumOf(g, K) = SumOf(f, S)
<1> DEFINE Within(J) == UNION {part[k] : k \in J}
           Good == {J \in SUBSET K : SumOf(g, J) = SumOf(f, Within(J))}
<1>1. \A T \in SUBSET S : Summable(f, T)
  BY SummableParts
<1>2. \A T \in SUBSET S : SumOf(f, T) \in Int
  BY <1>1, SumSplits
<1>3. Summable(g, K)
  BY <1>2 DEF Summable
<1>4. \A J \in SUBSET K : Summable(g, J) /\ Within(J) \in SUBSET S
  BY <1>3, SummableParts
<1>5. ASSUME NEW J \in SUBSET K, \A k \in J : J \ {k} \in Good
      PROVE  J \in Good
  <2>1. CASE J = {}
    <3>1. Within(J) = {}
      BY <2>1
    <3>2. SumOf(g, J) = 0
      BY <1>4, <2>1, SumSplits
    <3>3. SumOf(f, Within(J)) = 0
      BY <1>1, <1>4, <3>1, SumSplits
    <3> QED
      BY <3>2, <3>3
  <2>2. CASE J # {}
    <3>1. PICK k \in J : TRUE
      BY <2>2
    <3> DEFINE rest == Within(J \ {k})
    <3>2. SumOf(g, J) = g[k] + SumOf(g, J \ {k})
      BY <1>4, SumSplits
    <3>3. SumOf(g, J \ {k}) = SumOf(f, rest)
      BY <1>5
    <3>4. Within(J) = part[k] \cup rest
      OBVIOUS
    <3>5. part[k] \cap rest = {}
      OBVIOUS
    <3>6. part[k] \in SUBSET S /\ rest \in SUBSET S
      BY <1>4
    <3>7. Summable(f, part[k]) /\ Summable(f, rest)
      BY <1>1, <3>6
    <3> HIDE DEF rest
    <3>8. SumOf(f, part[k] \cup rest) = SumOf(f, part[k]) + SumOf(f, rest)
      BY <3>5, <3>7, SumOfUnion
    <3>9. g[k] = SumOf(f, part[k])
      OBVIOUS
    <3> HIDE DEF Within
    <3>10. SumOf(g, J) = SumOf(f, Within(J))
      BY <3>2, <3>3, <3>4, <3>8, <3>9
    <3> QED
      BY <3>10
  <2> QED
    BY <2>1, <2>2
<1>6. K \in Good
  <2>1. K \in SUBSET K
    OBVIOUS
  <2> HIDE DEF Good
  <2> QED
    BY <1>5, <2>1, SetInduction
<1>7. Within(K) = S
  OBVIOUS
<1> QED
  BY <1>3, <1>6, <1>7

\* What counts one for each element counts the elements.
LEMMA SumOfOnes ==
    ASSUME NEW f, NEW S, IsFiniteSet(S), \A x \in S : f[x] = 1
    PROVE  Summable(f, S) /\ SumOf(f, S) = Cardinality(S)
<1> DEFINE Good == {s \in SUBSET S : SumOf(f, s) = Cardinality(s)}
<1>1. Summable(f, S)
  BY DEF Summable
<1>2. ASSUME NEW s \in SUBSET S, \A x \in s : s \ {x} \in Good
      PROVE  s \in Good
  <2>1. Summable(f, s) /\ IsFiniteSet(s) /\ Cardinality(s) \in Nat
    BY <1>1, SummableParts, FS_Subset, FS_CardinalityType
  <2>2. CASE s = {}
    BY <2>1, <2>2, SumSplits, FS_EmptySet
  <2>3. CASE s # {}
    <3>1. PICK x \in s : TRUE
      BY <2>3
    <3>2. SumOf(f, s) = 1 + SumOf(f, s \ {x})
      BY <2>1, SumSplits
    <3>3. SumOf(f, s \ {x}) = Cardinality(s \ {x})
      BY <1>2
    <3>4. Cardinality(s \ {x}) = Cardinality(s) - 1
      BY <2>1, FS_RemoveElement
    <3> HIDE DEF Good
    <3>5. SumOf(f, s) = Cardinality(s)
      BY <2>1, <3>2, <3>3, <3>4
    <3> QED
      BY <3>5 DEF Good
  <2> QED
    BY <2>2, <2>3
<1>3. S \in Good
  <2>1. S \in SUBSET S
    OBVIOUS
  <2> HIDE DEF Good
  <2> QED
    BY <1>2, <2>1, SetInduction
<1> QED
  BY <1>1, <1>3

-----------------------------------------------------------------------------
(* The totals of the tables are such sums.                                 *)

WeightOf(weights) == MapThenSumSet(LAMBDA e : weights[e][1], DOMAIN weights)

DirectionOf(rows) == MapThenSumSet(Direction, rows)

FamilyCount(table, kind, m) ==
    MapThenSumSet(LAMBDA r : CountAt(table, r, m), kind \cap DOMAIN table)

LEMMA WholeIsSum ==
    ASSUME NEW f, NEW S, Summable(f, S), NEW total, Folds(total, f, S)
    PROVE  total[S] = SumOf(f, S)
<1>1. IsFiniteSet(S) /\ S \in SUBSET S
  BY DEF Summable
<1> QED
  BY <1>1, FoldIsSum

\* Each fold of the tables is the sum of the function it maps, whichever element it picks
\* first.
LEMMA AreasAreSummed ==
    ASSUME NEW rows, NEW class, NEW f, Summable(f, OfClass(rows, class)),
           \A x \in OfClass(rows, class) : f[x] = Area[x.id]
    PROVE  AreaOfClass(rows, class) = SumOf(f, OfClass(rows, class))
<1> DEFINE S == OfClass(rows, class)
           Keeps(total) ==
               total = [s \in SUBSET S |->
                           IF s = {} THEN 0
                           ELSE Area[(CHOOSE x \in s : TRUE).id] + total[s \ {CHOOSE x \in s : TRUE}]]
           sum == CHOOSE total : Keeps(total)
<1>1. AreaOfClass(rows, class) = sum[S]
  BY DEF MapThenSumSet, MapThenFoldSet, AreaOfClass
<1>2. \A total : Folds(total, f, S) <=> Keeps(total)
  <2>1. \A s \in SUBSET S : s # {} => f[CHOOSE x \in s : TRUE] = Area[(CHOOSE x \in s : TRUE).id]
    BY PickedIsThere
  <2> QED
    BY <2>1 DEF Folds
<1>3. \E total : Folds(total, f, S)
  BY FoldExists DEF Summable
<1> HIDE DEF Keeps
<1>4. Keeps(sum)
  BY <1>2, <1>3
<1>5. Folds(sum, f, S)
  BY <1>2, <1>4
<1> HIDE DEF sum
<1> QED
  BY <1>1, <1>5, WholeIsSum

LEMMA DirectionsAreSummed ==
    ASSUME NEW S, NEW f, Summable(f, S),
           \A x \in S : f[x] = Direction(x)
    PROVE  DirectionOf(S) = SumOf(f, S)
<1> DEFINE Keeps(total) ==
               total = [s \in SUBSET S |->
                           IF s = {} THEN 0
                           ELSE Direction(CHOOSE x \in s : TRUE) + total[s \ {CHOOSE x \in s : TRUE}]]
           sum == CHOOSE total : Keeps(total)
<1>1. DirectionOf(S) = sum[S]
  BY DEF MapThenSumSet, MapThenFoldSet, DirectionOf
<1>2. \A total : Folds(total, f, S) <=> Keeps(total)
  <2>1. \A s \in SUBSET S : s # {} => f[CHOOSE x \in s : TRUE] = Direction(CHOOSE x \in s : TRUE)
    BY PickedIsThere
  <2> QED
    BY <2>1 DEF Folds
<1>3. \E total : Folds(total, f, S)
  BY FoldExists DEF Summable
<1> HIDE DEF Keeps
<1>4. Keeps(sum)
  BY <1>2, <1>3
<1>5. Folds(sum, f, S)
  BY <1>2, <1>4
<1> HIDE DEF sum
<1> QED
  BY <1>1, <1>5, WholeIsSum

LEMMA CountsAreSummed ==
    ASSUME NEW table, NEW kind, NEW f, Summable(f, kind \cap DOMAIN table),
           \A x \in kind \cap DOMAIN table : f[x] = table[x].facility_count
    PROVE  CountIn(table, kind) = SumOf(f, kind \cap DOMAIN table)
<1> DEFINE S == kind \cap DOMAIN table
           Keeps(total) ==
               total = [s \in SUBSET S |->
                           IF s = {} THEN 0
                           ELSE table[CHOOSE x \in s : TRUE].facility_count + total[s \ {CHOOSE x \in s : TRUE}]]
           sum == CHOOSE total : Keeps(total)
<1>1. CountIn(table, kind) = sum[S]
  BY DEF MapThenSumSet, MapThenFoldSet, CountIn
<1>2. \A total : Folds(total, f, S) <=> Keeps(total)
  <2>1. \A s \in SUBSET S : s # {} => f[CHOOSE x \in s : TRUE] = table[CHOOSE x \in s : TRUE].facility_count
    BY PickedIsThere
  <2> QED
    BY <2>1 DEF Folds
<1>3. \E total : Folds(total, f, S)
  BY FoldExists DEF Summable
<1> HIDE DEF Keeps
<1>4. Keeps(sum)
  BY <1>2, <1>3
<1>5. Folds(sum, f, S)
  BY <1>2, <1>4
<1> HIDE DEF sum
<1> QED
  BY <1>1, <1>5, WholeIsSum

LEMMA PowerIsSummed ==
    ASSUME NEW table, NEW kind, NEW f, Summable(f, kind \cap DOMAIN table),
           \A x \in kind \cap DOMAIN table : f[x] = table[x].share[1]
    PROVE  PowerIn(table, kind) = SumOf(f, kind \cap DOMAIN table)
<1> DEFINE S == kind \cap DOMAIN table
           Keeps(total) ==
               total = [s \in SUBSET S |->
                           IF s = {} THEN 0
                           ELSE table[CHOOSE x \in s : TRUE].share[1] + total[s \ {CHOOSE x \in s : TRUE}]]
           sum == CHOOSE total : Keeps(total)
<1>1. PowerIn(table, kind) = sum[S]
  BY DEF MapThenSumSet, MapThenFoldSet, PowerIn
<1>2. \A total : Folds(total, f, S) <=> Keeps(total)
  <2>1. \A s \in SUBSET S : s # {} => f[CHOOSE x \in s : TRUE] = table[CHOOSE x \in s : TRUE].share[1]
    BY PickedIsThere
  <2> QED
    BY <2>1 DEF Folds
<1>3. \E total : Folds(total, f, S)
  BY FoldExists DEF Summable
<1> HIDE DEF Keeps
<1>4. Keeps(sum)
  BY <1>2, <1>3
<1>5. Folds(sum, f, S)
  BY <1>2, <1>4
<1> HIDE DEF sum
<1> QED
  BY <1>1, <1>5, WholeIsSum

LEMMA WeightsAreSummed ==
    ASSUME NEW weights, NEW f, Summable(f, DOMAIN weights),
           \A x \in DOMAIN weights : f[x] = weights[x][1]
    PROVE  WeightOf(weights) = SumOf(f, DOMAIN weights)
<1> DEFINE S == DOMAIN weights
           Keeps(total) ==
               total = [s \in SUBSET S |->
                           IF s = {} THEN 0
                           ELSE weights[CHOOSE x \in s : TRUE][1] + total[s \ {CHOOSE x \in s : TRUE}]]
           sum == CHOOSE total : Keeps(total)
<1>1. WeightOf(weights) = sum[S]
  BY DEF MapThenSumSet, MapThenFoldSet, WeightOf
<1>2. \A total : Folds(total, f, S) <=> Keeps(total)
  <2>1. \A s \in SUBSET S : s # {} => f[CHOOSE x \in s : TRUE] = weights[CHOOSE x \in s : TRUE][1]
    BY PickedIsThere
  <2> QED
    BY <2>1 DEF Folds
<1>3. \E total : Folds(total, f, S)
  BY FoldExists DEF Summable
<1> HIDE DEF Keeps
<1>4. Keeps(sum)
  BY <1>2, <1>3
<1>5. Folds(sum, f, S)
  BY <1>2, <1>4
<1> HIDE DEF sum
<1> QED
  BY <1>1, <1>5, WholeIsSum

LEMMA MonthIsSummed ==
    ASSUME NEW table, NEW m, NEW kind, NEW f, Summable(f, kind \cap DOMAIN table),
           \A x \in kind \cap DOMAIN table : f[x] = CountAt(table, x, m)
    PROVE  FamilyCount(table, kind, m) = SumOf(f, kind \cap DOMAIN table)
<1> DEFINE S == kind \cap DOMAIN table
           Keeps(total) ==
               total = [s \in SUBSET S |->
                           IF s = {} THEN 0
                           ELSE CountAt(table, (CHOOSE x \in s : TRUE), m) + total[s \ {CHOOSE x \in s : TRUE}]]
           sum == CHOOSE total : Keeps(total)
<1>1. FamilyCount(table, kind, m) = sum[S]
  BY DEF MapThenSumSet, MapThenFoldSet, FamilyCount
<1>2. \A total : Folds(total, f, S) <=> Keeps(total)
  <2>1. \A s \in SUBSET S : s # {} => f[CHOOSE x \in s : TRUE] = CountAt(table, (CHOOSE x \in s : TRUE), m)
    BY PickedIsThere
  <2> QED
    BY <2>1 DEF Folds
<1>3. \E total : Folds(total, f, S)
  BY FoldExists DEF Summable
<1> HIDE DEF Keeps
<1>4. Keeps(sum)
  BY <1>2, <1>3
<1>5. Folds(sum, f, S)
  BY <1>2, <1>4
<1> HIDE DEF sum
<1> QED
  BY <1>1, <1>5, WholeIsSum

\* Rows of a table that some county, or none, is given for.
AreRows(rows) == IsFiniteSet(rows) /\ \A r \in rows : r.county \in Counties \cup {NoCounty}

Families == {Counties, States}

LEMMA FamiliesAreFinite ==
    \A kind \in Families : IsFiniteSet(kind)
<1>1. IsFiniteSet(Counties)
  BY TheMapIsFinite
<1>2. IsFiniteSet(States)
  <2> DEFINE state == [c \in Counties |-> StateOf[c]]
  <2>1. state \in Surjection(Counties, States)
    BY DEF Surjection, States
  <2> QED
    BY <1>1, <2>1, FS_Surjection
<1> QED
  BY <1>1, <1>2 DEF Families

\* A row that is placed is in one county and in one state.
LEMMA RowsArePartitioned ==
    ASSUME NEW rows, AreRows(rows), NEW kind \in Families
    PROVE  /\ \A k \in kind : RowsIn(rows, k) \in SUBSET PlacedRows(rows)
           /\ \A j, k \in kind : j # k => RowsIn(rows, j) \cap RowsIn(rows, k) = {}
           /\ \A r \in PlacedRows(rows) :
                \E k \in kind \cap (CountiesOf(rows) \cup StatesOf(rows)) : r \in RowsIn(rows, k)
<1>1. kind = Counties \/ kind = States
  BY DEF Families
<1>2. Counties \cap States = {} /\ Nation \notin Counties \cup States
  BY TheMapIsFinite DEF States
<1>3. \A r \in PlacedRows(rows) : r \in rows /\ r.county \in Counties /\ r.county # NoCounty
  BY DEF PlacedRows, AreRows
<1>4. \A r \in rows : r.county = NoCounty => RegionsOf(r) = {Nation}
  BY DEF RegionsOf
<1>5. \A r \in PlacedRows(rows) : RegionsOf(r) = {Nation, r.county, StateOf[r.county]}
  BY <1>3 DEF RegionsOf
<1>6. \A r \in PlacedRows(rows) : r.county \in Counties /\ StateOf[r.county] \in States
  BY <1>3 DEF States
<1>7. \A k \in kind : RowsIn(rows, k) \in SUBSET PlacedRows(rows)
  BY <1>1, <1>2, <1>4 DEF RowsIn, PlacedRows
<1>8. ASSUME NEW j \in kind, NEW k \in kind, j # k, NEW r \in RowsIn(rows, j), r \in RowsIn(rows, k)
      PROVE  FALSE
  <2>1. r \in PlacedRows(rows)
    BY <1>7
  <2>2. j \in {Nation, r.county, StateOf[r.county]} /\ k \in {Nation, r.county, StateOf[r.county]}
    BY <1>5, <1>8, <2>1 DEF RowsIn
  <2>3. r.county \in Counties /\ StateOf[r.county] \in States
    BY <1>6, <2>1
  <2>4. CASE kind = Counties
    BY <1>2, <1>8, <2>2, <2>3, <2>4
  <2>5. CASE kind = States
    BY <1>2, <1>8, <2>2, <2>3, <2>5
  <2> QED
    BY <1>1, <2>4, <2>5
<1>9. ASSUME NEW r \in PlacedRows(rows)
      PROVE  \E k \in kind \cap (CountiesOf(rows) \cup StatesOf(rows)) : r \in RowsIn(rows, k)
  <2>1. r.county \in CountiesOf(rows) /\ StateOf[r.county] \in StatesOf(rows)
    BY DEF CountiesOf, StatesOf
  <2>2. r \in RowsIn(rows, r.county) /\ r \in RowsIn(rows, StateOf[r.county])
    BY <1>3, <1>5 DEF RowsIn
  <2> QED
    BY <1>1, <1>6, <2>1, <2>2
<1> QED
  BY <1>7, <1>8, <1>9

\* What a family of regions is given for its rows adds up to what they all are given.
LEMMA RegionsAddUp ==
    ASSUME NEW rows, AreRows(rows), NEW kind \in Families,
           NEW K \in SUBSET kind, kind \cap (CountiesOf(rows) \cup StatesOf(rows)) \subseteq K,
           NEW f, Summable(f, PlacedRows(rows)),
           NEW g, \A k \in K : g[k] = SumOf(f, RowsIn(rows, k))
    PROVE  Summable(g, K) /\ SumOf(g, K) = SumOf(f, PlacedRows(rows))
<1> DEFINE part == [k \in K |-> RowsIn(rows, k)]
           S == PlacedRows(rows)
<1>1. IsFiniteSet(K)
  BY FamiliesAreFinite, FS_Subset
<1>2. \A k \in K : part[k] = RowsIn(rows, k)
  OBVIOUS
<1>3. \A k \in K : part[k] \in SUBSET S
  BY RowsArePartitioned
<1>4. \A j, k \in K : j # k => part[j] \cap part[k] = {}
  BY RowsArePartitioned
<1>5. \A r \in S : \E k \in K : r \in part[k]
  BY RowsArePartitioned
<1>6. \A k \in K : g[k] = SumOf(f, part[k])
  BY <1>2
<1> HIDE DEF part
<1> QED
  BY <1>1, <1>3, <1>4, <1>5, <1>6, SumOfParts

IsPlaced(rows) == IsFiniteSet(rows) /\ \A r \in rows : r.county \in Counties

Areas(rows) == [r \in rows |-> Area[r.id]]

LEMMA PlacedAreRows ==
    ASSUME NEW rows, IsPlaced(rows), NEW part \in SUBSET rows
    PROVE  IsPlaced(part) /\ AreRows(part) /\ PlacedRows(part) = part
<1>1. IsFiniteSet(part)
  BY FS_Subset DEF IsPlaced
<1>2. \A r \in part : r.county \in Counties /\ r.county # NoCounty
  BY TheMapIsFinite DEF IsPlaced
<1> QED
  BY <1>1, <1>2 DEF IsPlaced, AreRows, PlacedRows

\* The area of a class is the sum of the areas of its rows.
LEMMA AreaIsSum ==
    ASSUME NEW rows, IsFiniteSet(rows), \A r \in rows : r.id \in Elements,
           NEW part \in SUBSET rows, NEW class
    PROVE  /\ Summable(Areas(rows), OfClass(part, class))
           /\ AreaOfClass(part, class) = SumOf(Areas(rows), OfClass(part, class))
<1> DEFINE S == OfClass(part, class)
           f == Areas(rows)
<1>1. S \in SUBSET rows
  BY DEF OfClass
<1>2. IsFiniteSet(S)
  <2> HIDE DEF S
  <2> QED
    BY <1>1, FS_Subset
<1>3. \A r \in S : f[r] = Area[r.id] /\ f[r] \in Int
  <2>1. \A r \in rows : Area[r.id] \in Int
    BY TheMapIsFinite
  <2> HIDE DEF S
  <2> QED
    BY <1>1, <2>1 DEF Areas
<1> HIDE DEF f
<1>4. Summable(f, S)
  <2> HIDE DEF S
  <2> QED
    BY <1>2, <1>3 DEF Summable
<1>5. AreaOfClass(part, class) = SumOf(f, S)
  BY <1>3, <1>4, AreasAreSummed
<1> QED
  BY <1>4, <1>5 DEF f

\* regions.csv with its power columns.
LEMMA PowerTable ==
    ASSUME NEW rows
    PROVE  LET table == Allocated(BuildRegions(rows), rows)
           IN  /\ DOMAIN table = CountiesOf(rows) \cup StatesOf(rows)
               /\ \A r \in DOMAIN table :
                    /\ table[r].facility_count = Cardinality(RowsIn(rows, r))
                    /\ table[r].share[1] = AreaOfClass(RowsIn(rows, r), "building")
                    /\ table[r].share[2] = AreaOfClass(rows, "building")
<1> DEFINE whole == AreaOfClass(rows, "building")
           built == BuildRegions(rows)
           table == Allocated(built, rows)
           D == CountiesOf(rows) \cup StatesOf(rows)
<1>1. DOMAIN built = D /\ \A r \in D : built[r] = Totals(RowsIn(rows, r))
  BY DEF BuildRegions
<1> HIDE DEF built
<1>2. DOMAIN table = D /\ \A r \in D : table[r] = [built[r] EXCEPT !.share = <<built[r].footprint, whole>>]
  BY <1>1 DEF Allocated
<1> HIDE DEF table, D, whole
<1>3. ASSUME NEW r \in D
      PROVE  /\ table[r].facility_count = Cardinality(RowsIn(rows, r))
             /\ table[r].share[1] = AreaOfClass(RowsIn(rows, r), "building")
             /\ table[r].share[2] = whole
  <2> DEFINE own == RowsIn(rows, r)
             total == Totals(own)
  <2> HIDE DEF own
  <2>1. /\ total.facility_count = Cardinality(own)
        /\ total.footprint = AreaOfClass(own, "building")
        /\ "share" \in DOMAIN total
    BY DEF Totals
  <2>2. table[r] = [total EXCEPT !.share = <<total.footprint, whole>>]
    BY <1>1, <1>2 DEF own
  <2> HIDE DEF total
  <2>3. table[r].facility_count = total.facility_count /\ table[r].share = <<total.footprint, whole>>
    BY <2>1, <2>2
  <2>4. table[r].share[1] = total.footprint /\ table[r].share[2] = whole
    BY <2>3
  <2> QED
    BY <2>1, <2>3, <2>4 DEF own
<1>4. DOMAIN table = D
  BY <1>2
<1> QED
  BY <1>3, <1>4 DEF table, D, whole, built

\* The facilities of a family of regions are all that are on the map, and its power is
\* that of the nation.
LEMMA FamilyAddsUp ==
    ASSUME NEW rows, IsPlaced(rows), \A r \in rows : r.id \in Elements, NEW kind \in Families
    PROVE  LET table == Allocated(BuildRegions(rows), rows)
           IN  /\ CountIn(table, kind) = Cardinality(rows)
               /\ PowerIn(table, kind) = AreaOfClass(rows, "building")
<1> DEFINE table == Allocated(BuildRegions(rows), rows)
           K == kind \cap DOMAIN table
           class == OfClass(rows, "building")
<1>1. DOMAIN table = CountiesOf(rows) \cup StatesOf(rows)
  BY PowerTable
<1>2. \A r \in K : /\ table[r].facility_count = Cardinality(RowsIn(rows, r))
                   /\ table[r].share[1] = AreaOfClass(RowsIn(rows, r), "building")
  BY PowerTable
<1> HIDE DEF table
<1>3. K \in SUBSET kind /\ kind \cap (CountiesOf(rows) \cup StatesOf(rows)) \subseteq K
  BY <1>1
<1> HIDE DEF K
<1>4. AreRows(rows) /\ PlacedRows(rows) = rows /\ IsFiniteSet(rows)
  BY PlacedAreRows DEF IsPlaced
<1>5. \A k \in kind : RowsIn(rows, k) \in SUBSET rows
  BY <1>4, RowsArePartitioned
<1>6. CountIn(table, kind) = Cardinality(rows)
  <2> DEFINE one == [r \in rows |-> 1]
             g == [k \in K |-> table[k].facility_count]
  <2>1. Summable(one, rows) /\ SumOf(one, rows) = Cardinality(rows)
    <3>1. \A r \in rows : one[r] = 1
      OBVIOUS
    <3> HIDE DEF one
    <3> QED
      BY <1>4, <3>1, SumOfOnes
  <2>2. ASSUME NEW k \in K PROVE g[k] = SumOf(one, RowsIn(rows, k))
    <3> DEFINE own == RowsIn(rows, k)
    <3>1. own \in SUBSET rows
      BY <1>3, <1>5
    <3> HIDE DEF own
    <3>2. IsFiniteSet(own)
      BY <1>4, <3>1, FS_Subset
    <3>3. \A r \in own : one[r] = 1
      BY <3>1
    <3> HIDE DEF one
    <3>4. SumOf(one, own) = Cardinality(own)
      BY <3>2, <3>3, SumOfOnes
    <3> QED
      BY <1>2, <3>4 DEF own
  <2>3. \A k \in K : g[k] = table[k].facility_count
    OBVIOUS
  <2> HIDE DEF one, g
  <2>4. Summable(g, K) /\ SumOf(g, K) = Cardinality(rows)
    BY <1>3, <1>4, <2>1, <2>2, RegionsAddUp
  <2>5. CountIn(table, kind) = SumOf(g, K)
    BY <2>3, <2>4, CountsAreSummed DEF K
  <2> QED
    BY <2>4, <2>5
<1>7. PowerIn(table, kind) = AreaOfClass(rows, "building")
  <2> DEFINE f == Areas(rows)
             g == [k \in K |-> table[k].share[1]]
  <2> HIDE DEF f
  <2>1. class \in SUBSET rows
    BY DEF OfClass
  <2>2. AreRows(class) /\ PlacedRows(class) = class
    <3> HIDE DEF class
    <3> QED
      BY <2>1, PlacedAreRows
  <2>3. Summable(f, class) /\ AreaOfClass(rows, "building") = SumOf(f, class)
    BY <1>4, AreaIsSum DEF f
  <2>4. ASSUME NEW k \in K PROVE g[k] = SumOf(f, RowsIn(class, k))
    <3>1. RowsIn(rows, k) \in SUBSET rows
      BY <1>3, <1>5
    <3>2. OfClass(RowsIn(rows, k), "building") = RowsIn(class, k)
      BY DEF OfClass, RowsIn
    <3>3. AreaOfClass(RowsIn(rows, k), "building") = SumOf(f, OfClass(RowsIn(rows, k), "building"))
      BY <1>4, <3>1, AreaIsSum DEF f
    <3> QED
      BY <1>2, <3>2, <3>3
  <2>5. CountiesOf(class) \subseteq CountiesOf(rows) /\ StatesOf(class) \subseteq StatesOf(rows)
    BY <1>4, <2>1, <2>2 DEF CountiesOf, StatesOf
  <2>6. kind \cap (CountiesOf(class) \cup StatesOf(class)) \subseteq K
    BY <1>3, <2>5
  <2>7. \A k \in K : g[k] = table[k].share[1]
    OBVIOUS
  <2> HIDE DEF g, class
  <2>8. Summable(g, K) /\ SumOf(g, K) = SumOf(f, class)
    BY <1>3, <2>2, <2>3, <2>4, <2>6, RegionsAddUp
  <2>9. PowerIn(table, kind) = SumOf(g, K)
    BY <2>7, <2>8, PowerIsSummed DEF K
  <2> QED
    BY <2>3, <2>8, <2>9
<1> QED
  BY <1>6, <1>7 DEF table

\* What is counted for a region of the grid is what is placed in it, an asset being a
\* substation or a plant; a region with no row of its own has nothing in it.
LEMMA GridOfRegion ==
    ASSUME NEW rows, AreRows(rows), NEW kind \in Families, NEW r \in kind
    PROVE  LET table == BuildGridRegions(rows)
               own == RowsIn(PlacedRows(rows), r)
           IN  IF r \in DOMAIN table
               THEN table[r].substation_count + table[r].plant_count = Cardinality(own)
               ELSE own = {}
<1> DEFINE table == BuildGridRegions(rows)
           own == RowsIn(rows, r)
           substations == {a \in own : Assets[a.id].kind = "substation"}
           plants == own \ substations
<1>1. own = RowsIn(PlacedRows(rows), r) /\ own \in SUBSET PlacedRows(rows)
  <2>1. own \in SUBSET PlacedRows(rows)
    BY RowsArePartitioned
  <2> QED
    BY <2>1 DEF RowsIn, PlacedRows
<1>2. DOMAIN table = CountiesOf(rows) \cup StatesOf(rows)
      /\ \A k \in DOMAIN table : table[k] = GridTotals(RowsIn(rows, k))
  BY DEF BuildGridRegions
<1>3. CASE r \in DOMAIN table
  <2>1. table[r] = GridTotals(own)
    BY <1>2, <1>3
  <2>2. GridTotals(own).substation_count = Cardinality(substations)
        /\ GridTotals(own).plant_count = Cardinality(plants)
    BY DEF GridTotals
  <2>3. substations \cup plants = own /\ substations \cap plants = {}
    OBVIOUS
  <2>4. IsFiniteSet(own)
    BY FS_Subset DEF AreRows, RowsIn
  <2>5. IsFiniteSet(substations) /\ IsFiniteSet(plants)
    BY <2>4, FS_Subset
  <2> HIDE DEF substations, plants, own, table
  <2>6. Cardinality(own) = Cardinality(substations) + Cardinality(plants) - Cardinality({})
    BY <2>3, <2>5, FS_Union
  <2>7. Cardinality({}) = 0 /\ Cardinality(substations) \in Nat /\ Cardinality(plants) \in Nat
    BY <2>5, FS_EmptySet, FS_CardinalityType
  <2>8. table[r].substation_count + table[r].plant_count = Cardinality(own)
    BY <2>1, <2>2, <2>6, <2>7
  <2> QED
    BY <1>1, <1>3, <2>8 DEF table
<1>4. CASE r \notin DOMAIN table
  <2>1. own = {}
    <3> SUFFICES ASSUME NEW a \in own PROVE FALSE
      OBVIOUS
    <3>1. a \in PlacedRows(rows)
      BY <1>1
    <3>2. PICK k \in kind \cap (CountiesOf(rows) \cup StatesOf(rows)) : a \in RowsIn(rows, k)
      BY <3>1, RowsArePartitioned
    <3>3. r # k
      BY <1>2, <1>4
    <3>4. RowsIn(rows, r) \cap RowsIn(rows, k) = {}
      BY <3>3, RowsArePartitioned
    <3> QED
      BY <3>2, <3>4
  <2> QED
    BY <1>1, <1>4, <2>1
<1> QED
  BY <1>3, <1>4

\* A weight for each building, and no element has two rows.
LEMMA WeightsAddUp ==
    ASSUME NEW rows, IsFiniteSet(rows), \A r \in rows : r.id \in Elements,
           \A r, s \in rows : r.id = s.id => r = s
    PROVE  WeightOf(MapWeights(rows)) = AreaOfClass(rows, "building")
<1> DEFINE weights == MapWeights(rows)
           S == OfClass(rows, "building")
           K == {r.id : r \in S}
           f == Areas(rows)
           g == [k \in K |-> Area[k]]
           part == [k \in K |-> {r \in S : r.id = k}]
<1>1. DOMAIN weights = K /\ \A k \in K : weights[k][1] = Area[k]
  BY DEF MapWeights
<1>2. S \in SUBSET rows
  BY DEF OfClass
<1>3. Summable(f, S) /\ AreaOfClass(rows, "building") = SumOf(f, S)
  BY AreaIsSum
<1>4. \A r \in S : f[r] = Area[r.id]
  BY <1>2 DEF Areas
<1> HIDE DEF S, f, weights
<1>5. K \in SUBSET Elements
  BY <1>2
<1>6. IsFiniteSet(K)
  <2> HIDE DEF K
  <2> QED
    BY <1>5, FS_Subset, TheMapIsFinite
<1>7. /\ \A k \in K : part[k] \in SUBSET S
      /\ \A j, k \in K : j # k => part[j] \cap part[k] = {}
      /\ \A r \in S : \E k \in K : r \in part[k]
  OBVIOUS
<1>8. ASSUME NEW k \in K PROVE g[k] = SumOf(f, part[k])
  <2>1. PICK r \in S : k = r.id
    OBVIOUS
  <2>2. part[k] = {r}
    BY <1>2, <2>1
  <2>3. Summable(f, part[k])
    BY <1>3, <1>7, SummableParts
  <2>4. SumOf(f, part[k]) = f[r] + SumOf(f, part[k] \ {r})
    BY <2>2, <2>3, SumSplits
  <2> DEFINE none == part[k] \ {r}
  <2>5. none = {} /\ none \in SUBSET S
    BY <2>2
  <2> HIDE DEF none
  <2>6. SumOf(f, none) = 0
    <3>1. Summable(f, none)
      BY <1>3, <2>5, SummableParts
    <3> QED
      BY <2>5, <3>1, SumSplits
  <2>7. f[r] \in Int /\ f[r] = Area[k] /\ g[k] = Area[k]
    BY <1>3, <1>4, <2>1 DEF Summable
  <2>8. SumOf(f, part[k]) = f[r] + 0
    BY <2>4, <2>6 DEF none
  <2> HIDE DEF g, part
  <2> QED
    BY <2>7, <2>8
<1>9. \A k \in K : g[k] = weights[k][1]
  BY <1>1
<1> HIDE DEF K, part, g
<1>10. Summable(g, K) /\ SumOf(g, K) = SumOf(f, S)
  BY <1>3, <1>6, <1>7, <1>8, SumOfParts
<1>11. WeightOf(weights) = SumOf(g, K)
  BY <1>1, <1>9, <1>10, WeightsAreSummed
<1> QED
  BY <1>3, <1>10, <1>11 DEF weights

\* A finite set of numbers that is not empty has a least and a greatest.
LEMMA Extremes ==
    ASSUME NEW S, IsFiniteSet(S), S # {}, S \subseteq Int
    PROVE  /\ Max(S) \in S /\ \A x \in S : x <= Max(S)
           /\ Min(S) \in S /\ \A x \in S : Min(S) <= x
<1> DEFINE Good == {T \in SUBSET S :
                       T = {} \/ \E lo, hi \in T : \A x \in T : lo <= x /\ x <= hi}
<1>1. ASSUME NEW T \in SUBSET S, \A x \in T : T \ {x} \in Good
      PROVE  T \in Good
  <2>1. CASE T = {}
    BY <2>1
  <2>2. CASE T # {}
    <3>1. PICK y \in T : TRUE
      BY <2>2
    <3>2. y \in Int
      OBVIOUS
    <3>3. CASE T \ {y} = {}
      <4>1. \A x \in T : y <= x /\ x <= y
        BY <3>2, <3>3
      <4> QED
        BY <4>1
    <3>4. CASE T \ {y} # {}
      <4>1. PICK lo, hi \in T \ {y} : \A x \in T \ {y} : lo <= x /\ x <= hi
        BY <1>1, <3>1, <3>4
      <4>2. lo \in Int /\ hi \in Int /\ lo \in T /\ hi \in T
        OBVIOUS
      <4> DEFINE low == IF y <= lo THEN y ELSE lo
                 high == IF y >= hi THEN y ELSE hi
      <4>3. low \in T /\ high \in T
        BY <4>2
      <4>4. ASSUME NEW x \in T PROVE low <= x /\ x <= high
        <5>1. CASE x = y
          BY <3>2, <4>2, <5>1
        <5>2. CASE x # y
          <6>1. lo <= x /\ x <= hi /\ x \in Int
            BY <4>1, <5>2
          <6> QED
            BY <3>2, <4>2, <6>1
        <5> QED
          BY <5>1, <5>2
      <4> HIDE DEF low, high
      <4> QED
        BY <4>3, <4>4
    <3> QED
      BY <3>3, <3>4
  <2> QED
    BY <2>1, <2>2
<1>2. S \in Good
  <2>1. S \in SUBSET S
    OBVIOUS
  <2> HIDE DEF Good
  <2> QED
    BY <1>1, <2>1, SetInduction
<1>3. PICK lo, hi \in S : \A x \in S : lo <= x /\ x <= hi
  BY <1>2
<1>4. Max(S) \in S /\ \A x \in S : Max(S) >= x
  <2>1. \A x \in S : hi >= x
    BY <1>3
  <2> QED
    BY <2>1 DEF Max
<1>5. Min(S) \in S /\ \A x \in S : Min(S) <= x
  BY <1>3 DEF Min
<1>6. Max(S) \in Int
  BY <1>4
<1> QED
  BY <1>4, <1>5, <1>6

\* The series of a region, as build_series writes it.
SeriesMonths(history, region) == {Month(e.day) : e \in RowsIn(Counted(history), region)}

Until(history, region, m) == {e \in RowsIn(Counted(history), region) : Month(e.day) <= m}

LEMMA SeriesTable ==
    ASSUME NEW history, NEW rows
    PROVE  LET table == BuildSeries(history, rows)
           IN  /\ DOMAIN table = UNION {RegionsOf(e) : e \in Counted(history)}
               /\ \A r \in DOMAIN table :
                    LET months == SeriesMonths(history, r)
                    IN  /\ DOMAIN table[r] = Min(months)..Max(months)
                        /\ \A m \in DOMAIN table[r] :
                             table[r][m].count = DirectionOf(Until(history, r, m))
BY Zenon DEF BuildSeries, SeriesMonths, Until, DirectionOf

Directions(history) == [e \in history |-> Direction(e)]

IsHistory(history) == IsPlaced(history) /\ \A e \in history : e.day \in Nat

\* A count at the end of any month, before the first of its region's and after the last,
\* is the sum of the directions of the events until then.
LEMMA CountIsSum ==
    ASSUME NEW history, IsHistory(history), NEW rows,
           NEW region \in DOMAIN BuildSeries(history, rows), NEW m \in Int
    PROVE  /\ Summable(Directions(history), Until(history, region, m))
           /\ CountAt(BuildSeries(history, rows), region, m) =
                SumOf(Directions(history), Until(history, region, m))
<1> DEFINE table == BuildSeries(history, rows)
           own == RowsIn(Counted(history), region)
           months == SeriesMonths(history, region)
           f == Directions(history)
           reached == {n \in DOMAIN table[region] : n <= m}
<1>1. own \in SUBSET history
  BY DEF RowsIn, Counted, Creations
<1>2. IsFiniteSet(own)
  <2> HIDE DEF own
  <2> QED
    BY <1>1, FS_Subset DEF IsHistory, IsPlaced
<1>3. own # {}
  <2>1. region \in UNION {RegionsOf(e) : e \in Counted(history)}
    BY SeriesTable
  <2>2. PICK e \in Counted(history) : region \in RegionsOf(e)
    BY <2>1
  <2> QED
    BY <2>2 DEF RowsIn
<1>4. \A e \in own : Month(e.day) \in Int
  <2>1. \A d \in Nat : Month(d) \in Int
    BY TheMapIsFinite DEF Month
  <2> HIDE DEF own
  <2> QED
    BY <1>1, <2>1 DEF IsHistory
<1>5. IsFiniteSet(months) /\ months # {} /\ months \subseteq Int
  <2> DEFINE month == [e \in own |-> Month(e.day)]
  <2>1. months = {Month(e.day) : e \in own}
    BY DEF SeriesMonths
  <2> HIDE DEF months, own
  <2>2. month \in Surjection(own, months)
    BY <2>1 DEF Surjection
  <2>3. IsFiniteSet(months)
    BY <1>2, <2>2, FS_Surjection
  <2> QED
    BY <1>3, <1>4, <2>1, <2>3
<1>6. /\ Max(months) \in Int /\ \A n \in months : n <= Max(months)
      /\ Min(months) \in Int /\ \A n \in months : Min(months) <= n
      /\ Min(months) <= Max(months)
  <2> HIDE DEF months
  <2> QED
    BY <1>5, Extremes
<1>7. \A e \in own : Month(e.day) \in months
  BY DEF SeriesMonths
<1>8. /\ DOMAIN table[region] = Min(months)..Max(months)
      /\ \A n \in DOMAIN table[region] : table[region][n].count = DirectionOf(Until(history, region, n))
  BY SeriesTable
<1>9. \A n : Until(history, region, n) = {e \in own : Month(e.day) <= n}
  BY DEF Until
<1>10. \A n : /\ Summable(f, Until(history, region, n))
              /\ DirectionOf(Until(history, region, n)) = SumOf(f, Until(history, region, n))
  <2> SUFFICES ASSUME NEW n
               PROVE  /\ Summable(f, Until(history, region, n))
                      /\ DirectionOf(Until(history, region, n)) = SumOf(f, Until(history, region, n))
    OBVIOUS
  <2> DEFINE S == Until(history, region, n)
  <2>1. S \in SUBSET own
    BY <1>9
  <2> HIDE DEF S, own
  <2>2. IsFiniteSet(S) /\ S \in SUBSET history
    BY <1>1, <1>2, <2>1, FS_Subset
  <2>3. \A e \in S : f[e] = Direction(e) /\ f[e] \in Int
    BY <2>2 DEF Directions, Direction
  <2> HIDE DEF f
  <2>4. Summable(f, S)
    BY <2>2, <2>3 DEF Summable
  <2>5. DirectionOf(S) = SumOf(f, S)
    BY <2>3, <2>4, DirectionsAreSummed
  <2> QED
    BY <2>4, <2>5 DEF S
<1>11. CountAt(table, region, m) =
          IF reached = {} THEN 0 ELSE table[region][Max(reached)].count
  BY DEF CountAt
<1> HIDE DEF table, months, f, own
<1>12. CASE m < Min(months)
  <2>1. reached = {}
    BY <1>6, <1>8, <1>12
  <2>2. Until(history, region, m) = {}
    <3>1. \A e \in own : Min(months) <= Month(e.day) /\ Month(e.day) \in Int
      BY <1>4, <1>6, <1>7
    <3>2. \A e \in own : ~ (Month(e.day) <= m)
      BY <1>6, <1>12, <3>1
    <3> QED
      BY <1>9, <3>2
  <2>3. SumOf(f, Until(history, region, m)) = 0
    BY <1>10, <2>2, SumSplits
  <2> QED
    BY <1>10, <1>11, <2>1, <2>3 DEF table, f
<1>13. CASE Min(months) <= m
  <2> DEFINE top == IF m <= Max(months) THEN m ELSE Max(months)
  <2>1. top \in reached /\ \A n \in reached : n <= top
    BY <1>6, <1>8, <1>13
  <2>2. top \in Int /\ reached \subseteq Int
    BY <1>6, <1>8
  <2>3. \A e \in own : Month(e.day) <= top <=> Month(e.day) <= m
    <3>1. \A e \in own : Month(e.day) <= Max(months) /\ Month(e.day) \in Int
      BY <1>4, <1>6, <1>7
    <3> QED
      BY <1>6, <3>1
  <2> HIDE DEF top, reached
  <2>4. Max(reached) = top
    <3>1. \A x \in reached : (\A n \in reached : x >= n) => x = top
      BY <2>1, <2>2
    <3>2. \A n \in reached : top >= n
      BY <2>1, <2>2
    <3> QED
      BY <2>1, <3>1, <3>2 DEF Max
  <2>5. Until(history, region, top) = Until(history, region, m)
    BY <1>9, <2>3
  <2>6. top \in DOMAIN table[region]
    BY <2>1 DEF reached
  <2>7. table[region][top].count = SumOf(f, Until(history, region, top))
    BY <1>8, <1>10, <2>6
  <2>8. reached # {}
    BY <2>1
  <2> QED
    BY <1>10, <1>11, <2>4, <2>5, <2>7, <2>8 DEF table, f
<1> QED
  BY <1>6, <1>12, <1>13

\* In every month of the nation's series its count is the sum of a family's: an event of
\* the nation is one of one county and of one state.
LEMMA SeriesAddsUp ==
    ASSUME NEW history, IsHistory(history), NEW rows, NEW kind \in Families,
           Nation \in DOMAIN BuildSeries(history, rows),
           NEW m \in DOMAIN BuildSeries(history, rows)[Nation]
    PROVE  BuildSeries(history, rows)[Nation][m].count = FamilyCount(BuildSeries(history, rows), kind, m)
<1> DEFINE table == BuildSeries(history, rows)
           C == Counted(history)
           S == {e \in C : Month(e.day) <= m}
           K == kind \cap DOMAIN table
           f == Directions(history)
           g == [k \in K |-> CountAt(table, k, m)]
<1>1. C \in SUBSET history
  BY DEF Counted, Creations
<1>2. S \in SUBSET history
  BY <1>1
<1>3. RowsIn(C, Nation) = C
  BY DEF RowsIn, RegionsOf
<1>4. Until(history, Nation, m) = S
  BY <1>3 DEF Until
<1>5. m \in Int
  <2>1. m \in Min(SeriesMonths(history, Nation))..Max(SeriesMonths(history, Nation))
    BY SeriesTable
  <2> QED
    BY <2>1
<1>6. Summable(f, S)
  BY <1>4, <1>5, CountIsSum
<1>7. table[Nation][m].count = SumOf(f, S)
  <2>1. table[Nation][m].count = DirectionOf(Until(history, Nation, m))
    BY SeriesTable
  <2>2. \A e \in S : f[e] = Direction(e)
    BY <1>2 DEF Directions
  <2> HIDE DEF f, S
  <2>3. DirectionOf(S) = SumOf(f, S)
    BY <1>6, <2>2, DirectionsAreSummed
  <2> QED
    BY <1>4, <2>1, <2>3
<1>8. AreRows(S) /\ PlacedRows(S) = S
  <2> HIDE DEF S
  <2> QED
    BY <1>2, PlacedAreRows DEF IsHistory
<1>9. kind \cap (CountiesOf(S) \cup StatesOf(S)) \subseteq K
  <2>1. DOMAIN table = UNION {RegionsOf(e) : e \in C}
    BY SeriesTable
  <2>2. \A e \in S : e \in C /\ e.county # NoCounty
    BY <1>2, TheMapIsFinite DEF IsHistory, IsPlaced
  <2>3. \A e \in S : e.county \in RegionsOf(e) /\ StateOf[e.county] \in RegionsOf(e)
    BY <2>2 DEF RegionsOf
  <2>4. \A e \in S : e.county \in DOMAIN table /\ StateOf[e.county] \in DOMAIN table
    BY <2>1, <2>2, <2>3
  <2>5. CountiesOf(S) \subseteq DOMAIN table
    BY <2>4 DEF CountiesOf, PlacedRows
  <2>6. StatesOf(S) \subseteq DOMAIN table
    BY <2>4 DEF StatesOf, CountiesOf, PlacedRows
  <2> QED
    BY <2>5, <2>6
<1>10. ASSUME NEW k \in K PROVE g[k] = SumOf(f, RowsIn(S, k))
  <2>1. Until(history, k, m) = RowsIn(S, k)
    BY DEF Until, RowsIn
  <2>2. k \in DOMAIN table
    OBVIOUS
  <2>3. CountAt(table, k, m) = SumOf(f, Until(history, k, m))
    BY <1>5, <2>2, CountIsSum
  <2> QED
    BY <2>1, <2>3
<1>11. \A k \in K : g[k] = CountAt(table, k, m)
  OBVIOUS
<1>12. K \in SUBSET kind
  OBVIOUS
<1> HIDE DEF table, S, f, g, K
<1>13. Summable(g, K) /\ SumOf(g, K) = SumOf(f, S)
  BY <1>6, <1>8, <1>9, <1>10, <1>12, RegionsAddUp
<1>14. FamilyCount(table, kind, m) = SumOf(g, K)
  BY <1>11, <1>13, MonthIsSummed DEF K
<1> QED
  BY <1>7, <1>13, <1>14 DEF table

-----------------------------------------------------------------------------
USE LatenessIsCovered, UpstreamIsTiled DEF HISTORY_START

(* Rows                                                                    *)

Kinds == {"creation", "deletion", "tag_change"}

EditsUntil(n) == [id : Elements, day : 1..n, kind : Kinds]

KeysOf(rows) == {EventKey(r) : r \in rows}

\* A bounded set of days that is not empty has a last one.
LEMMA LastDayIsLast ==
    ASSUME NEW rows, rows # {}, NEW n \in Nat, \A r \in rows : r.day \in Nat /\ r.day <= n
    PROVE  /\ \E r \in rows : r.day = LastDay(rows)
           /\ \A r \in rows : r.day <= LastDay(rows)
<1> DEFINE D == {r.day : r \in rows}
           U == {n - d : d \in D}
<1>1. D # {} /\ D \subseteq Nat /\ \A d \in D : d <= n
  OBVIOUS
<1> HIDE DEF D
<1>2. U # {} /\ U \subseteq Nat
  <2>1. PICK d \in D : TRUE
    BY <1>1
  <2>2. n - d \in U
    BY <2>1
  <2>3. ASSUME NEW x \in D PROVE n - x \in Nat
    BY <1>1
  <2> QED
    BY <2>2, <2>3
<1>3. PICK u \in U : \A v \in U : u <= v
  <2> HIDE DEF U
  <2> QED
    BY <1>2, LeastNatural
<1>4. PICK m \in D : u = n - m
  OBVIOUS
<1>5. ASSUME NEW d \in D PROVE m >= d
  <2>1. n - m <= n - d
    BY <1>3, <1>4
  <2>2. m \in Nat /\ d \in Nat
    BY <1>1
  <2> HIDE DEF U
  <2> QED
    BY <2>1, <2>2
<1>6. \A x \in D : (\A d \in D : x >= d) => x = m
  <2> HIDE DEF U
  <2> QED
    BY <1>1, <1>4, <1>5
<1>7. Max(D) = m
  <2> HIDE DEF U
  <2> QED
    BY <1>4, <1>5, <1>6 DEF Max
<1>8. \A d \in D : d <= m
  <2> HIDE DEF U
  <2> QED
    BY <1>1, <1>4, <1>5
<1>9. LastDay(rows) = m
  BY <1>7 DEF LastDay, D
<1> HIDE DEF U
<1> QED
  BY <1>4, <1>8, <1>9 DEF D

IsRow(r) == r = [id |-> r.id, day |-> r.day, kind |-> r.kind, county |-> r.county, placed |-> r.placed]

\* What every version of the events file is: rows of edits, one for each, an edit
\* with a position in its place, in its county or not yet assigned.
Recorded(rows) ==
    /\ \A r \in rows :
         /\ IsRow(r) /\ EventKey(r) \in KeysOf(edits)
         /\ r.kind # "deletion" => r.placed
         /\ r.county \in {NoCounty, CountyOf[r.id]}
    /\ \A r, s \in rows : EventKey(r) = EventKey(s) => r = s

\* Every edit that a county has and a row can place is recorded, up to a day.
Covered(rows, unchecked, day) ==
    \A x \in edits :
        (/\ x.kind # "deletion" /\ CountyOf[x.id] # NoCounty
         /\ TileOf[x.id] \notin unchecked /\ x.day + Lateness < day)
        => EventKey(x) \in KeysOf(rows)

EditsInv ==
    /\ today \in Nat /\ today >= 1
    /\ edits \subseteq EditsUntil(today)

\* A payload of the day misses no edit of its tile but the very latest.
CacheInv(cache) ==
    \A c \in cache :
        /\ c.edits \subseteq edits
        /\ \A x \in edits : TileOf[x.id] = c.tile /\ x.day >= c.start =>
               x \in c.edits \/ x.day + Lateness >= today

Gapless(rows, complete, unchecked) ==
    complete /\ rows # {} => Covered(rows, unchecked, LastDay(rows))

HistoryInv ==
    /\ EditsInv
    /\ CacheInv(history_cache)
    /\ Recorded(events)
    /\ Gapless(events, marker, skipped)
    /\ mishaps \in Nat

LEMMA RecordedDays ==
    ASSUME EditsInv, NEW rows, Recorded(rows), NEW r \in rows
    PROVE  r.id \in Elements /\ r.day \in 1..today /\ r.kind \in Kinds
<1>1. PICK x \in edits : EventKey(x) = EventKey(r)
  BY DEF Recorded, KeysOf
<1>2. x.id = r.id /\ x.day = r.day /\ x.kind = r.kind
  BY <1>1 DEF EventKey
<1>3. x \in EditsUntil(today)
  BY DEF EditsInv
<1> QED
  BY <1>2, <1>3 DEF EditsUntil

\* The gaps of a history are judged by any day up to which it goes.
LEMMA CoveredGaps ==
    ASSUME EditsInv, NEW rows, Recorded(rows), rows # {}, NEW day \in Nat, NEW unchecked,
           \A r \in rows : r.day <= day, Covered(rows, unchecked, day)
    PROVE  Covered(rows, unchecked, LastDay(rows))
<1>1. \A r \in rows : r.day \in Nat /\ r.day <= day
  BY RecordedDays DEF EditsInv
<1>2. LastDay(rows) \in Nat /\ LastDay(rows) <= day
  BY <1>1, LastDayIsLast
<1>3. \A x \in edits : x.day \in Nat
  BY DEF EditsInv, EditsUntil
<1> QED
  BY <1>2, <1>3 DEF Covered

-----------------------------------------------------------------------------
(* The rows of a fetch.                                                    *)

\* Any part of the recorded rows is recorded.
LEMMA PartIsRecorded ==
    ASSUME NEW rows, Recorded(rows), NEW part, part \subseteq rows
    PROVE  Recorded(part)
BY DEF Recorded

\* The row an edit becomes: no county, and a position unless it is a removal.
FreshRow(r) ==
    /\ IsRow(r) /\ r.county = NoCounty
    /\ r.kind # "deletion" => r.placed

LEMMA EventRowsAreFresh ==
    ASSUME EditsInv, NEW C, C \subseteq edits
    PROVE  /\ \A r \in EventRows(C) : FreshRow(r)
           /\ KeysOf(EventRows(C)) = KeysOf(C)
           /\ Recorded(EventRows(C))
<1> DEFINE row(x) == [id |-> x.id, day |-> x.day, kind |-> x.kind, county |-> NoCounty,
                      placed |-> \E y \in C : y.id = x.id /\ y.kind # "deletion"]
<1>1. EventRows(C) = {row(x) : x \in C}
  BY DEF EventRows
<1>2. \A x \in C : FreshRow(row(x)) /\ EventKey(row(x)) = EventKey(x) /\ row(x).county = NoCounty
  BY DEF FreshRow, IsRow, EventKey
<1>3. \A x, y \in C : EventKey(row(x)) = EventKey(row(y)) => row(x) = row(y)
  BY DEF EventKey
<1> HIDE DEF row
<1>4. \A r \in EventRows(C) : FreshRow(r)
  BY <1>1, <1>2
<1>5. KeysOf(EventRows(C)) = KeysOf(C)
  BY <1>1, <1>2 DEF KeysOf
<1>6. \A r, s \in EventRows(C) : EventKey(r) = EventKey(s) => r = s
  BY <1>1, <1>3
<1>7. ASSUME NEW r \in EventRows(C)
      PROVE  /\ IsRow(r) /\ EventKey(r) \in KeysOf(edits)
             /\ r.kind # "deletion" => r.placed
             /\ r.county \in {NoCounty, CountyOf[r.id]}
  <2>1. PICK x \in C : r = row(x)
    BY <1>1
  <2>2. EventKey(r) \in KeysOf(edits)
    BY <1>2, <2>1 DEF KeysOf
  <2>3. IsRow(r) /\ (r.kind # "deletion" => r.placed)
    BY <1>4 DEF FreshRow
  <2> QED
    BY <1>2, <2>1, <2>2, <2>3
<1>8. Recorded(EventRows(C))
  BY <1>6, <1>7 DEF Recorded
<1> QED
  BY <1>4, <1>5, <1>8

\* What a row becomes in a merge: itself, in the county of the one it replaces.
Taken(existing, n) ==
    IF \E r \in existing : EventKey(r) = EventKey(n)
    THEN [n EXCEPT !.county = (CHOOSE r \in existing : EventKey(r) = EventKey(n)).county]
    ELSE n

LEMMA TakenRow ==
    ASSUME NEW existing, NEW n, FreshRow(n)
    PROVE  /\ IsRow(Taken(existing, n))
           /\ EventKey(Taken(existing, n)) = EventKey(n)
           /\ Taken(existing, n).placed = n.placed
           /\ Taken(existing, n).id = n.id /\ Taken(existing, n).kind = n.kind
           /\ Taken(existing, n).county = NoCounty
              \/ \E r \in existing : EventKey(r) = EventKey(n) /\ Taken(existing, n).county = r.county
<1>1. CASE \E r \in existing : EventKey(r) = EventKey(n)
  <2> DEFINE old == CHOOSE r \in existing : EventKey(r) = EventKey(n)
  <2>1. old \in existing /\ EventKey(old) = EventKey(n)
    BY <1>1
  <2> HIDE DEF old
  <2>2. Taken(existing, n) = [n EXCEPT !.county = old.county]
    BY <1>1 DEF Taken, old
  <2>3. [n EXCEPT !.county = old.county] =
            [id |-> n.id, day |-> n.day, kind |-> n.kind, county |-> old.county, placed |-> n.placed]
    BY DEF FreshRow, IsRow
  <2> QED
    BY <2>1, <2>2, <2>3 DEF EventKey, IsRow
<1>2. CASE ~ \E r \in existing : EventKey(r) = EventKey(n)
  BY <1>2 DEF Taken, FreshRow
<1> QED
  BY <1>1, <1>2

LEMMA MergedShape ==
    ASSUME NEW existing, NEW rows
    PROVE  Merged(existing, rows) = {r \in existing : EventKey(r) \notin KeysOf(rows)}
                                    \cup {Taken(existing, n) : n \in rows}
BY DEF Merged, Taken, KeysOf

\* A merge has the keys of both, and every recorded row that was in a county still is.
LEMMA MergedIsRecorded ==
    ASSUME NEW existing, NEW rows, Recorded(existing), Recorded(rows), \A n \in rows : FreshRow(n)
    PROVE  /\ Recorded(Merged(existing, rows))
           /\ KeysOf(Merged(existing, rows)) = KeysOf(existing) \cup KeysOf(rows)
           /\ KeysOf(PlacedRows(existing)) \subseteq KeysOf(PlacedRows(Merged(existing, rows)))
<1> DEFINE M == Merged(existing, rows)
           kept == {r \in existing : EventKey(r) \notin KeysOf(rows)}
           taken == {Taken(existing, n) : n \in rows}
<1>1. M = kept \cup taken
  BY MergedShape
<1>2. \A n \in rows : EventKey(Taken(existing, n)) = EventKey(n)
  BY TakenRow
<1>3. ASSUME NEW n \in rows
      PROVE  /\ IsRow(Taken(existing, n))
             /\ EventKey(Taken(existing, n)) \in KeysOf(edits)
             /\ Taken(existing, n).kind # "deletion" => Taken(existing, n).placed
             /\ Taken(existing, n).county \in {NoCounty, CountyOf[Taken(existing, n).id]}
  <2>1. /\ IsRow(Taken(existing, n)) /\ EventKey(Taken(existing, n)) = EventKey(n)
        /\ Taken(existing, n).placed = n.placed
        /\ Taken(existing, n).id = n.id /\ Taken(existing, n).kind = n.kind
    BY TakenRow
  <2>2. EventKey(n) \in KeysOf(edits) /\ (n.kind # "deletion" => n.placed)
    BY DEF Recorded
  <2>3. CASE Taken(existing, n).county = NoCounty
    BY <2>1, <2>2, <2>3
  <2>4. CASE \E r \in existing : EventKey(r) = EventKey(n) /\ Taken(existing, n).county = r.county
    <3>1. PICK r \in existing : EventKey(r) = EventKey(n) /\ Taken(existing, n).county = r.county
      BY <2>4
    <3>2. r.id = n.id
      BY <3>1 DEF EventKey
    <3>3. r.county \in {NoCounty, CountyOf[r.id]}
      BY DEF Recorded
    <3> QED
      BY <2>1, <2>2, <3>1, <3>2, <3>3
  <2> QED
    BY <2>3, <2>4, TakenRow
<1>4. Recorded(M)
  <2>1. ASSUME NEW r \in M
        PROVE  /\ IsRow(r) /\ EventKey(r) \in KeysOf(edits)
               /\ r.kind # "deletion" => r.placed
               /\ r.county \in {NoCounty, CountyOf[r.id]}
    <3>1. CASE r \in kept
      BY <3>1 DEF Recorded
    <3>2. CASE r \in taken
      BY <3>2, <1>3
    <3> QED
      BY <1>1, <2>1, <3>1, <3>2
  <2>2. ASSUME NEW r \in M, NEW s \in M, EventKey(r) = EventKey(s) PROVE r = s
    <3> HIDE DEF M
    <3>1. CASE r \in kept /\ s \in kept
      BY <3>1, <2>2 DEF Recorded
    <3>2. CASE r \in kept /\ s \in taken
      BY <3>2, <2>2, <1>2 DEF KeysOf
    <3>3. CASE r \in taken /\ s \in kept
      BY <3>3, <2>2, <1>2 DEF KeysOf
    <3>4. CASE r \in taken /\ s \in taken
      <4>1. PICK n \in rows : r = Taken(existing, n)
        BY <3>4
      <4>2. PICK o \in rows : s = Taken(existing, o)
        BY <3>4
      <4>3. EventKey(n) = EventKey(o)
        BY <2>2, <4>1, <4>2, <1>2
      <4>4. n = o
        BY <4>3 DEF Recorded
      <4> QED
        BY <4>1, <4>2, <4>4
    <3> QED
      BY <1>1, <3>1, <3>2, <3>3, <3>4
  <2> HIDE DEF M
  <2> QED
    BY <2>1, <2>2 DEF Recorded
<1>5. KeysOf(M) = KeysOf(existing) \cup KeysOf(rows)
  <2>1. ASSUME NEW k \in KeysOf(existing) \cup KeysOf(rows) PROVE k \in KeysOf(M)
    <3>1. CASE k \in KeysOf(rows)
      <4>1. PICK n \in rows : k = EventKey(n)
        BY <3>1 DEF KeysOf
      <4>2. Taken(existing, n) \in M /\ EventKey(Taken(existing, n)) = k
        BY <1>1, <1>2, <4>1
      <4> HIDE DEF M
      <4> QED
        BY <4>2 DEF KeysOf
    <3>2. CASE k \in KeysOf(existing) /\ k \notin KeysOf(rows)
      <4>1. PICK r \in existing : k = EventKey(r)
        BY <3>2 DEF KeysOf
      <4>2. r \in M
        BY <1>1, <3>2, <4>1
      <4> HIDE DEF M
      <4> QED
        BY <4>1, <4>2 DEF KeysOf
    <3> QED
      BY <3>1, <3>2
  <2>2. ASSUME NEW k \in KeysOf(M) PROVE k \in KeysOf(existing) \cup KeysOf(rows)
    <3>1. PICK r \in M : k = EventKey(r)
      <4> HIDE DEF M
      <4> QED
        BY DEF KeysOf
    <3> HIDE DEF M
    <3> QED
      BY <1>1, <1>2, <3>1 DEF KeysOf
  <2> QED
    BY <2>1, <2>2
<1>6. ASSUME NEW r \in PlacedRows(existing) PROVE EventKey(r) \in KeysOf(PlacedRows(M))
  <2>1. r \in existing /\ r.county # NoCounty
    BY DEF PlacedRows
  <2>2. CASE EventKey(r) \notin KeysOf(rows)
    <3>1. r \in PlacedRows(M)
      <4> HIDE DEF M
      <4> QED
        BY <1>1, <2>1, <2>2 DEF PlacedRows
    <3> HIDE DEF M
    <3> QED
      BY <3>1 DEF KeysOf
  <2>3. CASE EventKey(r) \in KeysOf(rows)
    <3>1. PICK n \in rows : EventKey(n) = EventKey(r)
      BY <2>3 DEF KeysOf
    <3> DEFINE old == CHOOSE q \in existing : EventKey(q) = EventKey(n)
    <3>2. old \in existing /\ EventKey(old) = EventKey(n)
      BY <2>1, <3>1
    <3> HIDE DEF old
    <3>3. old = r
      BY <2>1, <3>1, <3>2 DEF Recorded
    <3>4. Taken(existing, n) = [n EXCEPT !.county = r.county]
      BY <2>1, <3>1, <3>3 DEF Taken, old
    <3>5. n = [id |-> n.id, day |-> n.day, kind |-> n.kind, county |-> NoCounty, placed |-> n.placed]
      BY DEF FreshRow, IsRow
    <3>6. Taken(existing, n).county = r.county
      BY <3>4, <3>5
    <3>7. Taken(existing, n) \in PlacedRows(M)
      <4>1. Taken(existing, n) \in M
        BY <1>1
      <4> HIDE DEF M
      <4> QED
        BY <4>1, <2>1, <3>6 DEF PlacedRows
    <3>8. EventKey(Taken(existing, n)) = EventKey(r)
      BY <1>2, <3>1
    <3> HIDE DEF M
    <3> QED
      BY <3>7, <3>8 DEF KeysOf
  <2> QED
    BY <2>2, <2>3
<1>7. KeysOf(PlacedRows(existing)) \subseteq KeysOf(PlacedRows(M))
  <2> HIDE DEF M
  <2> QED
    BY <1>6 DEF KeysOf
<1> QED
  BY <1>4, <1>5, <1>7

Payloads(cache, start) == UNION {c.edits : c \in {d \in cache : d.start = start}}

\* Where a fetch reads from: nothing before it is missing.
ReadsFrom(start) ==
    \/ start = HISTORY_START
    \/ /\ Covered(events, skipped, LastDay(events))
       /\ LastDay(events) \in Nat /\ start = LastDay(events) - OverlapDays

\* What is written after a fetch covers every tile that is not left, up to this day.
LEMMA FetchedIsCovered ==
    ASSUME EditsInv, Recorded(events), NEW cache, CacheInv(cache), NEW start, ReadsFrom(start),
           NEW left, Tiles \ left \subseteq {c.tile : c \in {d \in cache : d.start = start}}
    PROVE  LET rows == EventRows(Payloads(cache, start))
           IN  /\ Recorded(Merged(events, rows))
               /\ KeysOf(PlacedRows(events)) \subseteq KeysOf(PlacedRows(Merged(events, rows)))
               /\ Covered(Merged(events, rows), skipped \cup left, today)
<1> DEFINE C == Payloads(cache, start)
           M == Merged(events, EventRows(C))
<1>1. C \subseteq edits
  BY DEF Payloads, CacheInv
<1>2. /\ Recorded(EventRows(C)) /\ \A n \in EventRows(C) : FreshRow(n)
      /\ KeysOf(EventRows(C)) = KeysOf(C)
  <2> HIDE DEF C
  <2> QED
    BY <1>1, EventRowsAreFresh
<1>3. /\ Recorded(M) /\ KeysOf(M) = KeysOf(events) \cup KeysOf(C)
      /\ KeysOf(PlacedRows(events)) \subseteq KeysOf(PlacedRows(M))
  <2> HIDE DEF C
  <2> QED
    BY <1>2, MergedIsRecorded
<1>4. ASSUME NEW x \in edits, x.kind # "deletion", CountyOf[x.id] # NoCounty,
             TileOf[x.id] \notin skipped \cup left, x.day + Lateness < today
      PROVE  EventKey(x) \in KeysOf(M)
  <2>1. x.id \in Elements /\ x.day \in 1..today /\ today \in Nat
    BY DEF EditsInv, EditsUntil
  <2>2. TileOf[x.id] \in Tiles \ left
    BY <1>4, <2>1
  <2>3. PICK c \in cache : c.start = start /\ c.tile = TileOf[x.id]
    BY <2>2
  <2>4. ASSUME x.day >= start PROVE EventKey(x) \in KeysOf(C)
    <3>1. x \in c.edits
      BY <1>4, <2>1, <2>3, <2>4 DEF CacheInv
    <3>2. x \in C
      BY <2>3, <3>1 DEF Payloads
    <3> HIDE DEF C
    <3> QED
      BY <3>2 DEF KeysOf
  <2>5. ASSUME ~ (x.day >= start) PROVE EventKey(x) \in KeysOf(events)
    <3>1. /\ Covered(events, skipped, LastDay(events))
          /\ LastDay(events) \in Nat /\ start = LastDay(events) - OverlapDays
      BY <2>1, <2>5 DEF ReadsFrom
    <3>2. x.day + Lateness < LastDay(events)
      BY <2>1, <2>5, <3>1
    <3> QED
      BY <1>4, <3>1, <3>2 DEF Covered
  <2> HIDE DEF C, M
  <2> QED
    BY <1>3, <2>4, <2>5
<1>5. Covered(M, skipped \cup left, today)
  <2> HIDE DEF M
  <2> QED
    BY <1>4 DEF Covered
<1> HIDE DEF M
<1> QED
  BY <1>3, <1>5 DEF M, C

\* A file cut short in the order of its days loses only what is after its last one.
LEMMA TornIsCovered ==
    ASSUME EditsInv, NEW rows, Recorded(rows), NEW day \in Nat, NEW unchecked,
           \A r \in rows : r.day <= day, Covered(rows, unchecked, day),
           NEW torn, NEW s \in rows, torn = {r \in rows : Precedes(r, s)}
    PROVE  torn # {} => Covered(torn, unchecked, LastDay(torn))
<1>1. torn = {r \in rows : Precedes(r, s)}
  OBVIOUS
<1>3. ASSUME torn # {}, NEW x \in edits, x.kind # "deletion", CountyOf[x.id] # NoCounty,
             TileOf[x.id] \notin unchecked, x.day + Lateness < LastDay(torn)
      PROVE  EventKey(x) \in KeysOf(torn)
  <2>1. \A r \in rows : r.day \in Nat /\ r.day <= day
    BY RecordedDays DEF EditsInv
  <2>2. PICK t \in torn : t.day = LastDay(torn)
    BY <1>1, <1>3, <2>1, LastDayIsLast
  <2>3. t \in rows /\ t.day <= s.day /\ t.day \in Nat /\ s.day \in Nat /\ t.day <= day
    BY <1>1, <2>1, <2>2 DEF Precedes
  <2>4. x.day \in Nat
    BY DEF EditsInv, EditsUntil
  <2>5. x.day + Lateness < day /\ x.day < s.day
    BY <1>3, <2>2, <2>3, <2>4
  <2>6. PICK r \in rows : EventKey(r) = EventKey(x)
    BY <1>3, <2>5 DEF Covered, KeysOf
  <2>7. r.day = x.day
    BY <2>6 DEF EventKey
  <2>8. r \in torn
    BY <1>1, <2>5, <2>7 DEF Precedes
  <2> QED
    BY <2>6, <2>8 DEF KeysOf
<1> QED
  BY <1>3 DEF Covered

\* What a write leaves, cut short or whole.
LEMMA PrefixIsCovered ==
    ASSUME EditsInv, NEW rows, Recorded(rows), NEW day \in Nat, NEW unchecked,
           \A r \in rows : r.day <= day, Covered(rows, unchecked, day),
           NEW left \in Prefixes(rows)
    PROVE  /\ Recorded(left)
           /\ left # {} => Covered(left, unchecked, LastDay(left))
<1>1. Recorded(left)
  <2>1. left \subseteq rows
    BY DEF Prefixes
  <2> QED
    BY <2>1, PartIsRecorded
<1>2. ASSUME left = rows, rows # {} PROVE Covered(left, unchecked, LastDay(left))
  <2>1. Covered(rows, unchecked, LastDay(rows))
    BY <1>2, CoveredGaps
  <2> QED
    BY <1>2, <2>1
<1>3. ASSUME left # rows, left # {} PROVE Covered(left, unchecked, LastDay(left))
  <2>1. PICK s \in rows : left = {r \in rows : Precedes(r, s)}
    BY <1>3 DEF Prefixes
  <2>2. left # {} => Covered(left, unchecked, LastDay(left))
    BY <2>1, TornIsCovered
  <2> QED
    BY <1>3, <2>2
<1> QED
  BY <1>1, <1>2, <1>3

-----------------------------------------------------------------------------
(* The rows of an assignment.                                              *)

AssignedRow(r) == IF r.placed THEN [r EXCEPT !.county = CountyOf[r.id]] ELSE r

LEMMA AssignedRowIsRow ==
    ASSUME NEW r, IsRow(r)
    PROVE  /\ IsRow(AssignedRow(r)) /\ EventKey(AssignedRow(r)) = EventKey(r)
           /\ AssignedRow(r).id = r.id /\ AssignedRow(r).kind = r.kind
           /\ AssignedRow(r).day = r.day
           /\ AssignedRow(r).placed = r.placed
           /\ AssignedRow(r).county = IF r.placed THEN CountyOf[r.id] ELSE r.county
<1>1. [r EXCEPT !.county = CountyOf[r.id]] =
          [id |-> r.id, day |-> r.day, kind |-> r.kind, county |-> CountyOf[r.id], placed |-> r.placed]
  BY DEF IsRow
<1>2. CASE r.placed
  BY <1>1, <1>2 DEF AssignedRow, IsRow, EventKey
<1>3. CASE ~ r.placed
  BY <1>3 DEF AssignedRow
<1> QED
  BY <1>2, <1>3

\* assign_regions drops no edit that a county has and no row that was in one.
LEMMA AssignedIsRecorded ==
    ASSUME Recorded(events)
    PROVE  /\ Recorded(KeptEvents) /\ PlacedRows(KeptEvents) = KeptEvents
           /\ \A r \in KeptEvents : \E e \in events : e.day = r.day
           /\ KeysOf(PlacedRows(events)) \subseteq KeysOf(KeptEvents)
           /\ \A unchecked, day :
                 Covered(events, unchecked, day) => Covered(KeptEvents, unchecked, day)
<1>1. AssignedEvents = {AssignedRow(r) : r \in events}
  BY DEF AssignedEvents, AssignedRow
<1>2. KeptEvents = {r \in AssignedEvents : r.county # NoCounty}
  BY DEF KeptEvents, PlacedRows
<1>3. \A r \in events :
         /\ IsRow(AssignedRow(r)) /\ EventKey(AssignedRow(r)) = EventKey(r)
         /\ AssignedRow(r).id = r.id /\ AssignedRow(r).kind = r.kind
         /\ AssignedRow(r).day = r.day
         /\ AssignedRow(r).placed = r.placed
         /\ AssignedRow(r).county = IF r.placed THEN CountyOf[r.id] ELSE r.county
  BY AssignedRowIsRow DEF Recorded
<1>4. ASSUME NEW r \in events
      PROVE  /\ EventKey(AssignedRow(r)) \in KeysOf(edits)
             /\ AssignedRow(r).kind # "deletion" => AssignedRow(r).placed
             /\ AssignedRow(r).county \in {NoCounty, CountyOf[AssignedRow(r).id]}
  BY <1>3 DEF Recorded
<1>5. Recorded(AssignedEvents)
  <2>1. \A r, s \in events :
           EventKey(AssignedRow(r)) = EventKey(AssignedRow(s)) => AssignedRow(r) = AssignedRow(s)
    BY <1>3 DEF Recorded
  <2> QED
    BY <1>1, <1>3, <1>4, <2>1 DEF Recorded
<1>6. Recorded(KeptEvents) /\ PlacedRows(KeptEvents) = KeptEvents
  BY <1>2, <1>5, PartIsRecorded DEF PlacedRows
<1>7. \A r \in events : CountyOf[r.id] # NoCounty /\ (r.placed \/ r.county # NoCounty)
                           => EventKey(r) \in KeysOf(KeptEvents)
  BY <1>1, <1>2, <1>3 DEF KeysOf
<1>8. \A r \in PlacedRows(events) : EventKey(r) \in KeysOf(KeptEvents)
  BY <1>7 DEF PlacedRows, Recorded
<1>9. ASSUME NEW unchecked, NEW day, Covered(events, unchecked, day)
      PROVE  Covered(KeptEvents, unchecked, day)
  <2> SUFFICES ASSUME NEW x \in edits, x.kind # "deletion", CountyOf[x.id] # NoCounty,
                      TileOf[x.id] \notin unchecked, x.day + Lateness < day
               PROVE  EventKey(x) \in KeysOf(KeptEvents)
    BY DEF Covered
  <2>1. PICK r \in events : EventKey(r) = EventKey(x)
    BY <1>9 DEF Covered, KeysOf
  <2>2. r.id = x.id /\ r.kind = x.kind
    BY <2>1 DEF EventKey
  <2>3. r.placed
    BY <2>2 DEF Recorded
  <2> QED
    BY <1>7, <2>1, <2>2, <2>3
<1>10. KeysOf(PlacedRows(events)) \subseteq KeysOf(KeptEvents)
  BY <1>8 DEF KeysOf
<1>11. \A r \in KeptEvents : \E e \in events : e.day = r.day
  BY <1>1, <1>2, <1>3
<1> QED
  BY <1>6, <1>9, <1>10, <1>11

-----------------------------------------------------------------------------
(* The steps.                                                              *)

\* A step that leaves upstream alone is judged by what it leaves in the files.
LEMMA SameUpstream ==
    ASSUME EditsInv, UNCHANGED upstream,
           NEW cache, NEW rows, NEW complete, NEW unchecked,
           history_cache' = cache, events' = rows, marker' = complete, skipped' = unchecked,
           CacheInv(cache), Recorded(rows), Gapless(rows, complete, unchecked), mishaps' \in Nat
    PROVE  HistoryInv'
<1>1. today' = today /\ edits' = edits
  BY DEF upstream
<1>2. EditsInv'
  BY <1>1 DEF EditsInv
<1>3. CacheInv(history_cache)'
  BY <1>1 DEF CacheInv
<1>4. Recorded(events)'
  BY <1>1 DEF Recorded, KeysOf
<1>5. Gapless(events, marker, skipped)'
  BY <1>1 DEF Gapless, Covered, KeysOf
<1> QED
  BY <1>2, <1>3, <1>4, <1>5 DEF HistoryInv

LEMMA InitialHistory == Init => HistoryInv
<1> SUFFICES ASSUME Init PROVE HistoryInv
  OBVIOUS
<1>1. EditsInv
  BY DEF Init, EditsInv, EditsUntil, Kinds
<1>2. CacheInv(history_cache)
  BY DEF Init, CacheInv
<1>3. Recorded(events) /\ Gapless(events, marker, skipped)
  BY DEF Init, Recorded, Gapless
<1> QED
  BY <1>1, <1>2, <1>3 DEF Init, HistoryInv

\* An edit that appears is too recent to be missing, from a payload or from the file.
LEMMA EditStep ==
    ASSUME HistoryInv, EditUpstream
    PROVE  HistoryInv'
<1>1. PICK e \in Editable, kind \in EditKinds, day \in HISTORY_START..today :
          day + Lateness >= today /\ Edit(e, kind, day)
  BY DEF EditUpstream
<1> DEFINE new == [id |-> e, day |-> day, kind |-> kind]
<1>2. /\ edits' = edits \cup {new} /\ UNCHANGED <<today, mishaps>>
      /\ UNCHANGED <<history_cache, marker, events, skipped>>
  BY <1>1 DEF Edit, caches, placed
<1>3. new \in EditsUntil(today) /\ new.day = day /\ new.id = e /\ new.kind = kind
  BY DEF EditsUntil, Kinds
<1> HIDE DEF new
<1>4. EditsInv'
  BY <1>2, <1>3 DEF HistoryInv, EditsInv
<1>5. CacheInv(history_cache)'
  BY <1>1, <1>2, <1>3 DEF HistoryInv, CacheInv
<1>6. KeysOf(edits) \subseteq KeysOf(edits')
  BY <1>2 DEF KeysOf
<1>7. Recorded(events)'
  BY <1>2, <1>6 DEF HistoryInv, Recorded, KeysOf
<1>8. ASSUME marker, events # {} PROVE Covered(events, skipped, LastDay(events))'
  <2>1. Covered(events, skipped, LastDay(events))
    BY <1>8 DEF HistoryInv, Gapless
  <2>2. \A r \in events : r.day \in Nat /\ r.day <= today
    BY RecordedDays DEF HistoryInv, EditsInv
  <2>3. today \in Nat
    BY DEF HistoryInv, EditsInv
  <2>4. LastDay(events) \in Nat /\ LastDay(events) <= today
    BY <1>8, <2>2, <2>3, LastDayIsLast
  <2>5. ~ (new.day + Lateness < LastDay(events))
    BY <1>1, <1>3, <2>3, <2>4
  <2>6. \A x \in edits' : x \in edits \/ x = new
    BY <1>2
  <2> QED
    BY <1>2, <2>1, <2>5, <2>6 DEF Covered, KeysOf
<1>9. Gapless(events, marker, skipped)'
  BY <1>2, <1>8 DEF Gapless
<1> QED
  BY <1>2, <1>4, <1>5, <1>7, <1>9 DEF HistoryInv

LEMMA NewDayStep ==
    ASSUME HistoryInv, NewDay
    PROVE  HistoryInv'
<1>1. /\ today' \in {today, today + 1} /\ history_cache' = {} /\ UNCHANGED <<edits, mishaps>>
      /\ UNCHANGED <<marker, events, skipped>>
  BY DEF NewDay, placed
<1>2. EditsUntil(today) \subseteq EditsUntil(today + 1)
  BY DEF EditsUntil, HistoryInv, EditsInv
<1>3. EditsInv'
  <2>1. CASE today' = today
    BY <1>1, <2>1 DEF HistoryInv, EditsInv
  <2>2. CASE today' = today + 1
    BY <1>1, <1>2, <2>2 DEF HistoryInv, EditsInv
  <2> QED
    BY <1>1, <2>1, <2>2
<1>4. CacheInv(history_cache)'
  BY <1>1 DEF CacheInv
<1>5. Recorded(events)'
  BY <1>1 DEF HistoryInv, Recorded, KeysOf
<1>6. Gapless(events, marker, skipped)'
  BY <1>1 DEF HistoryInv, Gapless, Covered, KeysOf
<1> QED
  BY <1>1, <1>3, <1>4, <1>5, <1>6 DEF HistoryInv

LEMMA FreshCheckoutStep ==
    ASSUME HistoryInv, FreshCheckout
    PROVE  HistoryInv'
<1>1. history_cache' = {} /\ marker' = FALSE /\ events' = events /\ skipped' = skipped
  BY DEF FreshCheckout, placed
<1>2. UNCHANGED upstream /\ mishaps' \in Nat
  BY DEF FreshCheckout, Mishap, HistoryInv
<1>3. CacheInv({}) /\ Gapless(events, FALSE, skipped)
  BY DEF CacheInv, Gapless
<1> QED
  BY <1>1, <1>2, <1>3, SameUpstream DEF HistoryInv

\* What a fetch caches is all of upstream's edits from its start on.
LEMMA CachingKeeps ==
    ASSUME CacheInv(history_cache), NEW got, NEW start
    PROVE  CacheInv(HistoryCaching(got, start))
<1> DEFINE payload(t) == [tile |-> t, start |-> start,
                          edits |-> {x \in edits : TileOf[x.id] = t /\ x.day >= start}]
<1>1. \A c \in HistoryCaching(got, start) : c \in history_cache \/ \E t \in got : c = payload(t)
  BY DEF HistoryCaching
<1>2. \A t \in got : /\ payload(t).tile = t /\ payload(t).start = start
                     /\ payload(t).edits = {x \in edits : TileOf[x.id] = t /\ x.day >= start}
  OBVIOUS
<1> HIDE DEF payload
<1> QED
  BY <1>1, <1>2 DEF CacheInv

LEMMA FetchHistoryFailsStep ==
    ASSUME HistoryInv, FetchHistoryFails
    PROVE  HistoryInv'
<1>1. PICK got : history_cache' = HistoryCaching(got, HistoryFrom)
  BY DEF FetchHistoryFails
<1>2. CacheInv(HistoryCaching(got, HistoryFrom))
  BY CachingKeeps DEF HistoryInv
<1>3. /\ marker' = marker /\ events' = events /\ skipped' = skipped
      /\ UNCHANGED upstream /\ mishaps' \in Nat
  BY DEF FetchHistoryFails, Mishap, placed, HistoryInv
<1> QED
  BY <1>1, <1>2, <1>3, SameUpstream DEF HistoryInv

\* The start of a fetch is the first day, or leaves nothing out before it.
LEMMA HistoryFromReads ==
    ASSUME HistoryInv
    PROVE  ReadsFrom(HistoryFrom)
<1>1. CASE events = {} \/ ~marker
  BY <1>1 DEF HistoryFrom, ReadsFrom
<1>2. CASE events # {} /\ marker
  <2>1. \A r \in events : r.day \in Nat /\ r.day <= today
    BY RecordedDays DEF HistoryInv, EditsInv
  <2>2. LastDay(events) \in Nat
    BY <1>2, <2>1, LastDayIsLast DEF HistoryInv, EditsInv
  <2> QED
    BY <1>2, <2>2 DEF HistoryFrom, ReadsFrom, HistoryInv, Gapless
<1> QED
  BY <1>1, <1>2

\* The tiles a fetch does not leave are in the cache, from its start on.
LEMMA CachedOrLeft ==
    ASSUME NEW got, NEW start, NEW left, left = (Tiles \ CachedTiles(start)) \ got
    PROVE  Tiles \ left \subseteq
               {c.tile : c \in {d \in HistoryCaching(got, start) : d.start = start}}
<1> DEFINE payload(t) == [tile |-> t, start |-> start,
                          edits |-> {x \in edits : TileOf[x.id] = t /\ x.day >= start}]
           cache == HistoryCaching(got, start)
<1>1. cache = history_cache \cup {payload(t) : t \in got}
  BY DEF HistoryCaching
<1>2. \A t \in got : payload(t).tile = t /\ payload(t).start = start
  OBVIOUS
<1> HIDE DEF payload, cache
<1>3. ASSUME NEW t \in Tiles \ left PROVE \E c \in cache : c.start = start /\ c.tile = t
  <2>1. CASE t \in got
    BY <1>1, <1>2, <2>1
  <2>2. CASE t \in CachedTiles(start)
    BY <1>1, <2>2 DEF CachedTiles
  <2> QED
    BY <2>1, <2>2
<1> QED
  BY <1>3 DEF cache

\* What a run that writes leaves in events.csv.
LEMMA WrittenHistory ==
    ASSUME HistoryInv, NEW cache, CacheInv(cache), NEW left,
           Tiles \ left \subseteq {c.tile : c \in {d \in cache : d.start = HistoryFrom}}
    PROVE  LET rows == Merged(events, EventRows(Payloads(cache, HistoryFrom)))
           IN  /\ Recorded(rows) /\ \A r \in rows : r.day <= today
               /\ Covered(rows, skipped \cup left, today)
               /\ \A complete : Gapless(rows, complete, skipped \cup left)
               /\ KeysOf(PlacedRows(events)) \subseteq KeysOf(PlacedRows(rows))
<1> DEFINE rows == Merged(events, EventRows(Payloads(cache, HistoryFrom)))
<1>1. /\ Recorded(rows) /\ Covered(rows, skipped \cup left, today)
      /\ KeysOf(PlacedRows(events)) \subseteq KeysOf(PlacedRows(rows))
  BY HistoryFromReads, FetchedIsCovered DEF HistoryInv
<1> HIDE DEF rows
<1>2. EditsInv /\ today \in Nat
  BY DEF HistoryInv, EditsInv
<1>3. \A r \in rows : r.day <= today
  BY <1>1, <1>2, RecordedDays
<1>4. rows # {} => Covered(rows, skipped \cup left, LastDay(rows))
  BY <1>1, <1>2, <1>3, CoveredGaps
<1>5. \A complete : Gapless(rows, complete, skipped \cup left)
  BY <1>4 DEF Gapless
<1> QED
  BY <1>1, <1>3, <1>5 DEF rows

LEMMA FetchHistoryStep ==
    ASSUME HistoryInv, FetchHistory
    PROVE  HistoryInv' /\ KeysOf(PlacedRows(events)) \subseteq KeysOf(PlacedRows(events'))
<1> DEFINE start == HistoryFrom
           missing == Tiles \ CachedTiles(start)
<1>1. PICK got \in Fetchable(missing) :
         LET left == missing \ got
             rows == EventRows(Contributions(start))
         IN  /\ history_cache' = HistoryCaching(got, start)
             /\ \/ UNCHANGED <<events, marker, skipped>>
                \/ /\ events' = Merged(events, rows)
                   /\ marker' = (marker \/ start = HISTORY_START)
                   /\ skipped' = skipped \cup left
  BY DEF FetchHistory
<1> DEFINE left == missing \ got
           cache == HistoryCaching(got, start)
           rows == Merged(events, EventRows(Payloads(cache, start)))
<1>2. CacheInv(cache)
  BY CachingKeeps DEF HistoryInv
<1>3. Tiles \ left \subseteq {c.tile : c \in {d \in cache : d.start = start}}
  BY CachedOrLeft
<1> HIDE DEF cache, left
<1>4. Contributions(start) = Payloads(cache, start)
  BY <1>1 DEF Contributions, Payloads, cache
<1>5. /\ Recorded(rows) /\ \A complete : Gapless(rows, complete, skipped \cup left)
      /\ KeysOf(PlacedRows(events)) \subseteq KeysOf(PlacedRows(rows))
  BY <1>2, <1>3, WrittenHistory
<1>6. UNCHANGED upstream /\ mishaps' \in Nat /\ EditsInv
  BY DEF FetchHistory, HistoryInv
<1>7. CASE UNCHANGED <<events, marker, skipped>>
  <2>1. history_cache' = cache /\ events' = events /\ marker' = marker /\ skipped' = skipped
    BY <1>1, <1>7 DEF cache
  <2>2. HistoryInv'
    BY <1>2, <1>6, <2>1, SameUpstream DEF HistoryInv
  <2> QED
    BY <2>1, <2>2
<1>8. CASE /\ events' = Merged(events, EventRows(Contributions(start)))
           /\ marker' = (marker \/ start = HISTORY_START)
           /\ skipped' = skipped \cup left
  <2>1. history_cache' = cache /\ events' = rows
    BY <1>1, <1>4, <1>8 DEF cache
  <2> HIDE DEF rows, start
  <2>2. HistoryInv'
    BY <1>2, <1>5, <1>6, <1>8, <2>1, SameUpstream
  <2> QED
    BY <1>5, <2>1, <2>2
<1> QED
  BY <1>1, <1>7, <1>8 DEF left

LEMMA AssignRegionsStep ==
    ASSUME HistoryInv, AssignRegions
    PROVE  HistoryInv' /\ KeysOf(PlacedRows(events)) \subseteq KeysOf(PlacedRows(events'))
<1>1. /\ history_cache' = history_cache /\ marker' = marker /\ skipped' = skipped
      /\ UNCHANGED upstream /\ mishaps' \in Nat
  BY DEF AssignRegions, caches, HistoryInv
<1>2. events' = events \/ (KeptEvents # {} /\ events' = KeptEvents)
  BY DEF AssignRegions, placed
<1>3. CASE events' = events
  <2>1. HistoryInv'
    BY <1>1, <1>3, SameUpstream DEF HistoryInv
  <2> QED
    BY <1>3, <2>1
<1>4. CASE KeptEvents # {} /\ events' = KeptEvents
  <2>1. Recorded(events) /\ EditsInv
    BY DEF HistoryInv
  <2>2. /\ Recorded(KeptEvents) /\ PlacedRows(KeptEvents) = KeptEvents
        /\ \A r \in KeptEvents : \E e \in events : e.day = r.day
        /\ KeysOf(PlacedRows(events)) \subseteq KeysOf(KeptEvents)
        /\ Covered(events, skipped, LastDay(events)) => Covered(KeptEvents, skipped, LastDay(events))
    BY <2>1, AssignedIsRecorded
  <2>3. \A r \in events : r.day \in Nat /\ r.day <= today
    BY <2>1, RecordedDays DEF EditsInv
  <2>4. events # {}
    BY <1>4, <2>2
  <2>5. LastDay(events) \in Nat /\ \A r \in events : r.day <= LastDay(events)
    BY <2>1, <2>3, <2>4, LastDayIsLast DEF EditsInv
  <2>6. \A r \in KeptEvents : r.day <= LastDay(events)
    BY <2>2, <2>5
  <2>7. marker => Covered(KeptEvents, skipped, LastDay(KeptEvents))
    <3> SUFFICES ASSUME marker PROVE Covered(KeptEvents, skipped, LastDay(KeptEvents))
      OBVIOUS
    <3>1. Covered(KeptEvents, skipped, LastDay(events))
      BY <2>2, <2>4 DEF HistoryInv, Gapless
    <3> QED
      BY <1>4, <2>1, <2>2, <2>5, <2>6, <3>1, CoveredGaps
  <2>8. Gapless(KeptEvents, marker, skipped)
    BY <2>7 DEF Gapless
  <2>9. HistoryInv'
    BY <1>1, <1>4, <2>1, <2>2, <2>8, SameUpstream DEF HistoryInv
  <2> QED
    BY <1>4, <2>2, <2>9
<1> QED
  BY <1>2, <1>3, <1>4

LEMMA PrefixIsRecorded ==
    ASSUME NEW rows, Recorded(rows), NEW left \in Prefixes(rows)
    PROVE  Recorded(left)
<1>1. left \subseteq rows
  BY DEF Prefixes
<1> QED
  BY <1>1, PartIsRecorded

\* A run of fetch_osm_history that dies while it writes, or before it says what it wrote.
LEMMA HistoryCutShortStep ==
    ASSUME HistoryInv, HistoryCutShort, UNCHANGED upstream, mishaps' \in Nat
    PROVE  HistoryInv'
<1> DEFINE start == HistoryFrom
           missing == Tiles \ CachedTiles(start)
<1>1. PICK got \in Fetchable(missing) :
         /\ history_cache' = HistoryCaching(got, start)
         /\ events' \in Prefixes(Merged(events, EventRows(Contributions(start))))
         /\ skipped' = skipped \cup (missing \ got)
  BY DEF HistoryCutShort
<1> DEFINE left == missing \ got
           cache == HistoryCaching(got, start)
           rows == Merged(events, EventRows(Payloads(cache, start)))
<1>2. CacheInv(cache)
  BY CachingKeeps DEF HistoryInv
<1>3. Tiles \ left \subseteq {c.tile : c \in {d \in cache : d.start = start}}
  BY CachedOrLeft
<1> HIDE DEF cache, left
<1>4. Contributions(start) = Payloads(cache, start)
  BY <1>1 DEF Contributions, Payloads, cache
<1>5. /\ Recorded(rows) /\ \A r \in rows : r.day <= today
      /\ Covered(rows, skipped \cup left, today)
  BY <1>2, <1>3, WrittenHistory
<1>6. EditsInv /\ today \in Nat
  BY DEF HistoryInv, EditsInv
<1>7. history_cache' = cache /\ events' \in Prefixes(rows) /\ skipped' = skipped \cup left
  BY <1>1, <1>4 DEF cache, left
<1> HIDE DEF rows, start
<1>8. PICK kept \in Prefixes(rows) : events' = kept
  BY <1>7
<1>9. Recorded(kept) /\ (kept # {} => Covered(kept, skipped \cup left, LastDay(kept)))
  BY <1>5, <1>6, PrefixIsCovered
<1>10. PICK complete : marker' = complete
  OBVIOUS
<1>11. Gapless(kept, complete, skipped \cup left)
  BY <1>9 DEF Gapless
<1> QED
  BY <1>2, <1>6, <1>7, <1>8, <1>9, <1>10, <1>11, SameUpstream

\* An assignment that dies while it writes events.csv, or before regions.csv.
LEMMA AssignmentCutShortStep ==
    ASSUME HistoryInv, AssignmentCutShort, UNCHANGED upstream, mishaps' \in Nat
    PROVE  HistoryInv'
<1>1. history_cache' = history_cache /\ marker' = marker /\ skipped' = skipped
  BY DEF AssignmentCutShort
<1>2. /\ Recorded(events) /\ EditsInv /\ today \in Nat /\ CacheInv(history_cache)
      /\ Gapless(events, marker, skipped)
  BY DEF HistoryInv, EditsInv
<1>3. CASE events' = events
  BY <1>1, <1>2, <1>3, SameUpstream
<1>4. CASE KeptEvents # {} /\ events' \in Prefixes(KeptEvents)
  <2>1. /\ Recorded(KeptEvents)
        /\ \A r \in KeptEvents : \E e \in events : e.day = r.day
        /\ Covered(events, skipped, LastDay(events)) => Covered(KeptEvents, skipped, LastDay(events))
    BY <1>2, AssignedIsRecorded
  <2>2. PICK left \in Prefixes(KeptEvents) : events' = left
    BY <1>4
  <2>3. Recorded(left)
    BY <2>1, PrefixIsRecorded
  <2>4. \A r \in events : r.day \in Nat /\ r.day <= today
    BY <1>2, RecordedDays DEF EditsInv
  <2>5. events # {}
    BY <1>4, <2>1
  <2>6. LastDay(events) \in Nat /\ \A r \in events : r.day <= LastDay(events)
    BY <1>2, <2>4, <2>5, LastDayIsLast
  <2>7. \A r \in KeptEvents : r.day <= LastDay(events)
    BY <2>1, <2>6
  <2>8. ASSUME marker, left # {} PROVE Covered(left, skipped, LastDay(left))
    <3>1. Covered(KeptEvents, skipped, LastDay(events))
      BY <1>2, <2>1, <2>5, <2>8 DEF Gapless
    <3> QED
      BY <1>2, <2>1, <2>6, <2>7, <2>8, <3>1, PrefixIsCovered
  <2>9. Gapless(left, marker, skipped)
    BY <2>8 DEF Gapless
  <2> QED
    BY <1>1, <1>2, <2>2, <2>3, <2>9, SameUpstream
<1> QED
  BY <1>3, <1>4 DEF AssignmentCutShort

\* A death leaves the history as it was, or what a write had got to.
LEMMA StageDiesStep ==
    ASSUME HistoryInv, StageDies
    PROVE  HistoryInv'
<1>1. UNCHANGED upstream /\ mishaps' \in Nat
  BY DEF StageDies, Mishap, HistoryInv
<1>2. CASE HistoryCutShort
  BY <1>1, <1>2, HistoryCutShortStep
<1>3. CASE AssignmentCutShort
  BY <1>1, <1>3, AssignmentCutShortStep
<1>4. CASE ~ HistoryCutShort /\ ~ AssignmentCutShort
  <2>1. history_cache' = history_cache /\ marker' = marker /\ skipped' = skipped
        /\ events' = events
    BY <1>4 DEF StageDies, GridCutShort, SiteCutShort
  <2> QED
    BY <1>1, <2>1, SameUpstream DEF HistoryInv
<1> QED
  BY <1>2, <1>3, <1>4

HistoryParts == <<today, edits, history_cache, events, marker, skipped>>

HistoryMoves ==
    EditUpstream \/ NewDay \/ FreshCheckout \/ FetchHistory \/ FetchHistoryFails
    \/ AssignRegions \/ StageDies

\* The other actions leave all of it alone.
LEMMA OtherActions ==
    ASSUME [Next]_vars, ~ HistoryMoves
    PROVE  UNCHANGED HistoryParts /\ (mishaps' = mishaps \/ Mishap)
<1> USE DEF HistoryParts, HistoryMoves, upstream, caches, placed, layers, published
<1>1. CASE StartAnyPoll
  BY <1>1 DEF StartAnyPoll, StartPoll
<1>2. CASE FinishPoll
  BY <1>2 DEF FinishPoll
<1>3. CASE FetchSnapshot
  BY <1>3 DEF FetchSnapshot
<1>4. CASE FetchSnapshotFails
  BY <1>4 DEF FetchSnapshotFails
<1>5. CASE FetchGrid
  BY <1>5 DEF FetchGrid
<1>6. CASE FetchGridFails
  BY <1>6 DEF FetchGridFails
<1>7. CASE AssignGridRegions
  BY <1>7 DEF AssignGridRegions
<1>8. CASE BuildSeriesStage
  BY <1>8 DEF BuildSeriesStage
<1>9. CASE AllocatePower
  BY <1>9 DEF AllocatePower
<1>10. CASE BuildSiteData
  BY <1>10 DEF BuildSiteData
<1>11. CASE UNCHANGED vars
  BY <1>11 DEF vars
<1> QED
  BY <1>1, <1>2, <1>3, <1>4, <1>5, <1>6, <1>7, <1>8, <1>9, <1>10, <1>11 DEF Next, OfflineStage

LEMMA HistoryStep ==
    ASSUME HistoryInv, [Next]_vars
    PROVE  HistoryInv'
<1>1. CASE HistoryMoves
  BY <1>1, EditStep, NewDayStep, FreshCheckoutStep, FetchHistoryStep, FetchHistoryFailsStep,
     AssignRegionsStep, StageDiesStep DEF HistoryMoves
<1>2. CASE ~ HistoryMoves
  <2>1. /\ history_cache' = history_cache /\ marker' = marker /\ skipped' = skipped
        /\ events' = events /\ UNCHANGED upstream /\ mishaps' \in Nat
    BY <1>2, OtherActions DEF HistoryParts, upstream, Mishap, HistoryInv
  <2> QED
    BY <2>1, SameUpstream DEF HistoryInv
<1> QED
  BY <1>1, <1>2

LEMMA HistoryInvariant == Spec => []HistoryInv
<1>1. Init => HistoryInv
  BY InitialHistory
<1>2. HistoryInv /\ [Next]_vars => HistoryInv'
  BY HistoryStep
<1> QED
  BY <1>1, <1>2, PTL DEF Spec

LEMMA GaplessHasNoGaps == HistoryInv => HistoryHasNoGaps
BY DEF HistoryInv, Gapless, Covered, KeysOf, HistoryHasNoGaps

\* Once a backfill has completed, the recorded history has no gap that the file does not
\* tell: fetch_osm_history.py reads again from its last row less the overlap, so what is
\* before it is already in the file, and nothing that is written later, in part or in
\* whole, by it or by assign_regions.py, takes it out.
THEOREM HistoryGapless == Spec => []HistoryHasNoGaps
BY HistoryInvariant, GaplessHasNoGaps, PTL

\* No step that completes takes an edit that had a county out of events.csv: a refetch
\* takes the county over from the row it replaces, and an assignment drops a row only when
\* it has none.
THEOREM RecordedKept == Spec => RecordedIsKept
<1>1. ASSUME HistoryInv, [Next]_vars, mishaps' = mishaps
      PROVE  KeysOf(PlacedRows(events)) \subseteq KeysOf(PlacedRows(events'))
  <2>1. ~ Mishap
    BY <1>1 DEF Mishap, HistoryInv
  <2>2. CASE HistoryMoves
    <3>1. CASE FetchHistory
      BY <1>1, <3>1, FetchHistoryStep
    <3>2. CASE AssignRegions
      BY <1>1, <3>2, AssignRegionsStep
    <3>3. CASE EditUpstream \/ NewDay
      <4>1. events' = events
        BY <3>3 DEF EditUpstream, Edit, NewDay, placed
      <4> QED
        BY <4>1
    <3> QED
      BY <2>1, <2>2, <3>1, <3>2, <3>3 DEF HistoryMoves, FreshCheckout, FetchHistoryFails, StageDies
  <2>3. CASE ~ HistoryMoves
    <3>1. events' = events
      BY <1>1, <2>3, OtherActions DEF HistoryParts
    <3> QED
      BY <3>1
  <2> QED
    BY <2>2, <2>3
<1>2. HistoryInv /\ [Next]_vars =>
          [mishaps' = mishaps =>
             {EventKey(r) : r \in PlacedRows(events)} \subseteq {EventKey(r) : r \in PlacedRows(events')}]_vars
  BY <1>1 DEF KeysOf
<1> QED
  BY <1>2, HistoryInvariant, PTL DEF Spec, RecordedIsKept

-----------------------------------------------------------------------------
(* The stages of a poll.                                                   *)

FetchNames == {"fetch_osm_snapshot", "fetch_grid", "fetch_osm_history"}

StageNames ==
    FetchNames \cup
    {"assign_regions", "assign_grid_regions", "build_series", "allocate_power", "build_site_data"}

\* What is left of a poll: some fetches and all that is offline, or the end of it.
BeforeAssignment == {fetches \o OfflineStages : fetches \in Seq(FetchNames)}
FromGrid == <<"assign_grid_regions", "build_series", "allocate_power", "build_site_data">>
FromSeries == <<"build_series", "allocate_power", "build_site_data">>
FromPower == <<"allocate_power", "build_site_data">>
FromSite == <<"build_site_data">>

LEMMA OfflineInOrder ==
    /\ OfflineStages \in Seq(StageNames) /\ OfflineStages # <<>>
    /\ Head(OfflineStages) = "assign_regions" /\ Tail(OfflineStages) = FromGrid
    /\ FromGrid # <<>> /\ Head(FromGrid) = "assign_grid_regions" /\ Tail(FromGrid) = FromSeries
    /\ FromSeries # <<>> /\ Head(FromSeries) = "build_series" /\ Tail(FromSeries) = FromPower
    /\ FromPower # <<>> /\ Head(FromPower) = "allocate_power" /\ Tail(FromPower) = FromSite
    /\ FromSite # <<>> /\ Head(FromSite) = "build_site_data" /\ Tail(FromSite) = <<>>
<1>1. OfflineStages \in Seq(StageNames) /\ OfflineStages # <<>>
  BY DEF OfflineStages, StageNames
<1>2. Head(OfflineStages) = "assign_regions" /\ Tail(OfflineStages) = FromGrid
  BY DEF OfflineStages, FromGrid
<1>3. FromGrid # <<>> /\ Head(FromGrid) = "assign_grid_regions" /\ Tail(FromGrid) = FromSeries
  BY DEF FromGrid, FromSeries
<1>4. FromSeries # <<>> /\ Head(FromSeries) = "build_series" /\ Tail(FromSeries) = FromPower
  BY DEF FromSeries, FromPower
<1>5. FromPower # <<>> /\ Head(FromPower) = "allocate_power" /\ Tail(FromPower) = FromSite
  BY DEF FromPower, FromSite
<1>6. FromSite # <<>> /\ Head(FromSite) = "build_site_data" /\ Tail(FromSite) = <<>>
  BY DEF FromSite
<1> QED
  BY <1>1, <1>2, <1>3, <1>4, <1>5, <1>6

LEMMA ConcatInOrder ==
    ASSUME NEW s \in Seq(StageNames), NEW t \in Seq(StageNames), s # <<>>
    PROVE  s \o t # <<>> /\ Head(s \o t) = Head(s) /\ Tail(s \o t) = Tail(s) \o t
<1>1. s \o t # <<>> /\ Len(s \o t) > 0 /\ Len(s) > 0
  OBVIOUS
<1>2. Head(s \o t) = Head(s)
  OBVIOUS
<1>3. Tail(s \o t) \in Seq(StageNames) /\ Tail(s) \o t \in Seq(StageNames)
  OBVIOUS
<1>4. Len(Tail(s \o t)) = Len(Tail(s) \o t)
  OBVIOUS
<1>5. \A i \in 1..Len(Tail(s \o t)) : Tail(s \o t)[i] = (Tail(s) \o t)[i]
  OBVIOUS
<1>6. Tail(s \o t) = Tail(s) \o t
  BY <1>3, <1>4, <1>5, SeqEqual
<1> QED
  BY <1>1, <1>2, <1>6

\* After a fetch comes another, or the assignment; after that, the grid's.
LEMMA FetchesInOrder ==
    ASSUME NEW stages \in BeforeAssignment
    PROVE  /\ stages # <<>>
           /\ Head(stages) \in FetchNames => Tail(stages) \in BeforeAssignment
           /\ Head(stages) \notin FetchNames => Head(stages) = "assign_regions" /\ Tail(stages) = FromGrid
<1>1. PICK fetches \in Seq(FetchNames) : stages = fetches \o OfflineStages
  BY DEF BeforeAssignment
<1>2. CASE fetches = <<>>
  <2>1. stages = OfflineStages
    BY <1>1, <1>2, OfflineInOrder, ConcatEmptySeq
  <2>2. "assign_regions" \notin FetchNames
    BY DEF FetchNames
  <2> QED
    BY <2>1, <2>2, OfflineInOrder
<1>3. CASE fetches # <<>>
  <2>1. Head(fetches) \in FetchNames /\ Tail(fetches) \in Seq(FetchNames)
    BY <1>3
  <2>2. fetches \in Seq(StageNames)
    <3>1. FetchNames \subseteq StageNames
      BY DEF StageNames
    <3> QED
      BY <3>1
  <2>3. stages # <<>> /\ Head(stages) = Head(fetches) /\ Tail(stages) = Tail(fetches) \o OfflineStages
    BY <1>1, <1>3, <2>2, OfflineInOrder, ConcatInOrder
  <2> QED
    BY <2>1, <2>3 DEF BeforeAssignment
<1> QED
  BY <1>2, <1>3

LEMMA FetchStagesAreFetches ==
    ASSUME NEW options
    PROVE  FetchStages(options) \in Seq(FetchNames) /\ <<>> \in Seq(FetchNames)
<1>1. /\ <<"fetch_osm_snapshot">> \in Seq(FetchNames) /\ <<"fetch_grid">> \in Seq(FetchNames)
      /\ <<"fetch_osm_history">> \in Seq(FetchNames) /\ <<>> \in Seq(FetchNames)
  BY DEF FetchNames
<1>2. \A s, t \in Seq(FetchNames) : s \o t \in Seq(FetchNames)
  OBVIOUS
<1> QED
  BY <1>1, <1>2 DEF FetchStages

-----------------------------------------------------------------------------
(* What a rebuild would find.                                              *)

Kept(history) == PlacedRows({AssignedRow(r) : r \in history})

DatedRow(f, history) == [f EXCEPT !.county = CountyOf[f.id], !.seen = FirstSeen(f.id, history)]

Dated(rows, history) == PlacedRows({DatedRow(f, history) : f \in rows})

IsFacility(f) == f = [id |-> f.id, county |-> f.county, seen |-> f.seen]

LEMMA AssignmentShape ==
    KeptEvents = Kept(events) /\ AssignedFacilities = Dated(facilities, Kept(events))
BY DEF KeptEvents, AssignedEvents, AssignedFacilities, Kept, AssignedRow, Dated, DatedRow

LEMMA DatedFacility ==
    ASSUME NEW f, IsFacility(f), NEW history
    PROVE  /\ DatedRow(f, history) =
                 [id |-> f.id, county |-> CountyOf[f.id], seen |-> FirstSeen(f.id, history)]
           /\ IsFacility(DatedRow(f, history))
           /\ DatedRow(DatedRow(f, history), history) = DatedRow(f, history)
<1>1. ASSUME NEW g, IsFacility(g)
      PROVE  DatedRow(g, history) =
                 [id |-> g.id, county |-> CountyOf[g.id], seen |-> FirstSeen(g.id, history)]
  <2> DEFINE county == CountyOf[g.id]
             seen == FirstSeen(g.id, history)
             h == [g EXCEPT !.county = county]
  <2>1. DatedRow(g, history) = [h EXCEPT !.seen = seen]
    BY DEF DatedRow
  <2> HIDE DEF county, seen
  <2>2. h = [id |-> g.id, county |-> county, seen |-> g.seen]
    BY <1>1 DEF IsFacility
  <2> HIDE DEF h
  <2>3. [h EXCEPT !.seen = seen] = [id |-> h.id, county |-> h.county, seen |-> seen]
    BY <2>2
  <2> QED
    BY <2>1, <2>2, <2>3 DEF county, seen
<1>2. IsFacility(DatedRow(f, history)) /\ DatedRow(f, history).id = f.id
  BY <1>1 DEF IsFacility
<1> QED
  BY <1>1, <1>2

\* Assigning twice is assigning once, the events as well as the facilities.
LEMMA KeptTwice ==
    ASSUME NEW history, \A r \in history : IsRow(r)
    PROVE  Kept(Kept(history)) = Kept(history)
<1>1. ASSUME NEW r \in history
      PROVE  AssignedRow(AssignedRow(r)) = AssignedRow(r)
  <2> DEFINE a == AssignedRow(r)
  <2>1. /\ IsRow(a) /\ a.id = r.id /\ a.placed = r.placed
        /\ a.county = IF r.placed THEN CountyOf[r.id] ELSE r.county
    BY AssignedRowIsRow
  <2> HIDE DEF a
  <2>2. CASE a.placed
    <3>1. AssignedRow(a) = [a EXCEPT !.county = CountyOf[a.id]]
      BY <2>2 DEF AssignedRow
    <3>2. a.county = CountyOf[a.id]
      BY <2>1, <2>2
    <3> QED
      BY <2>1, <3>1, <3>2 DEF IsRow, a
  <2>3. CASE ~ a.placed
    BY <2>3 DEF AssignedRow, a
  <2> QED
    BY <2>2, <2>3 DEF a
<1>2. Kept(history) = {s \in {AssignedRow(r) : r \in history} : s.county # NoCounty}
  BY DEF Kept, PlacedRows
<1>3. \A s \in Kept(history) : AssignedRow(s) = s /\ s.county # NoCounty
  BY <1>1, <1>2
<1>4. Kept(Kept(history)) = {s \in {AssignedRow(r) : r \in Kept(history)} : s.county # NoCounty}
  BY DEF Kept, PlacedRows
<1> QED
  BY <1>3, <1>4

LEMMA DatedTwice ==
    ASSUME NEW rows, \A f \in rows : IsFacility(f), NEW history
    PROVE  /\ Dated(Dated(rows, history), history) = Dated(rows, history)
           /\ \A f \in Dated(rows, history) : IsFacility(f)
<1>1. \A f \in rows : /\ IsFacility(DatedRow(f, history))
                     /\ DatedRow(DatedRow(f, history), history) = DatedRow(f, history)
  BY DatedFacility
<1>2. Dated(rows, history) = {g \in {DatedRow(f, history) : f \in rows} : g.county # NoCounty}
  BY DEF Dated, PlacedRows
<1>3. \A g \in Dated(rows, history) :
         DatedRow(g, history) = g /\ IsFacility(g) /\ g.county # NoCounty
  BY <1>1, <1>2
<1>4. Dated(Dated(rows, history), history) =
          {g \in {DatedRow(f, history) : f \in Dated(rows, history)} : g.county # NoCounty}
  BY DEF Dated, PlacedRows
<1> QED
  BY <1>3, <1>4

\* The placed files are what assign_regions would make of them.
IsAssigned(rows, history) ==
    rows = Dated(rows, Kept(history)) /\ Kept(history) \in {history, {}}

LEMMA AssignmentIsFixed ==
    ASSUME NEW rows, \A f \in rows : IsFacility(f), NEW history, \A r \in history : IsRow(r)
    PROVE  IsAssigned(Dated(rows, Kept(history)), IF Kept(history) = {} THEN history ELSE Kept(history))
<1> DEFINE left == IF Kept(history) = {} THEN history ELSE Kept(history)
<1>1. Kept(left) = Kept(history) /\ Kept(left) \in {left, {}}
  BY KeptTwice
<1>2. Dated(Dated(rows, Kept(history)), Kept(history)) = Dated(rows, Kept(history))
  BY DatedTwice
<1> QED
  BY <1>1, <1>2 DEF IsAssigned

Tables(rows, table) == table = BuildRegions(rows)
Powered(rows, table) == table = Allocated(BuildRegions(rows), rows)
SeriesBuilt(failed) == "build_series" \in failed \/ series = BuildSeries(events, facilities)

GridBuilt(failed) == "assign_grid_regions" \in failed \/ grid_regions = BuildGridRegions(grid)

\* A poll that has not failed has left behind it what its stages make of the files.
Progress(stages, failed) ==
    /\ stages \in BeforeAssignment \cup {FromGrid, FromSeries, FromPower, FromSite, <<>>}
    /\ stages = FromGrid => IsAssigned(facilities, events) /\ Tables(facilities, regions)
    /\ stages = FromSeries =>
         IsAssigned(facilities, events) /\ Tables(facilities, regions) /\ GridBuilt(failed)
    /\ stages = FromPower =>
         /\ IsAssigned(facilities, events) /\ Tables(facilities, regions)
         /\ GridBuilt(failed) /\ SeriesBuilt(failed)
    /\ stages = FromSite =>
         /\ IsAssigned(facilities, events) /\ Powered(facilities, regions)
         /\ GridBuilt(failed) /\ SeriesBuilt(failed)
    /\ stages = <<>> /\ failed \subseteq TOLERATED_FAILURES =>
         /\ IsAssigned(facilities, events) /\ Powered(facilities, regions)
         /\ GridBuilt(failed) /\ SeriesBuilt(failed) /\ site = SiteOf

IsPoll(p) == p = [stages |-> p.stages, fetch |-> p.fetch, budget |-> p.budget,
                  before |-> p.before, failed |-> p.failed]

PollInv ==
    /\ \A f \in facilities : IsFacility(f)
    /\ poll # NoPoll => IsPoll(poll) /\ Progress(poll.stages, poll.failed)

LEMMA InitialPoll == Init => PollInv
BY DEF Init, PollInv

\* What comes after each stage.
LEMMA NextStage ==
    ASSUME PollInv, poll # NoPoll, poll.stages # <<>>
    PROVE  /\ \/ Head(poll.stages) \in FetchNames /\ Tail(poll.stages) \in BeforeAssignment
              \/ Head(poll.stages) = "assign_regions" /\ Tail(poll.stages) = FromGrid
              \/ poll.stages = FromGrid /\ Head(poll.stages) = "assign_grid_regions"
                 /\ Tail(poll.stages) = FromSeries
              \/ poll.stages = FromSeries /\ Head(poll.stages) = "build_series"
                 /\ Tail(poll.stages) = FromPower
              \/ poll.stages = FromPower /\ Head(poll.stages) = "allocate_power"
                 /\ Tail(poll.stages) = FromSite
              \/ poll.stages = FromSite /\ Head(poll.stages) = "build_site_data"
                 /\ Tail(poll.stages) = <<>>
<1>1. CASE poll.stages \in BeforeAssignment
  BY <1>1, FetchesInOrder
<1>2. CASE poll.stages \in {FromGrid, FromSeries, FromPower, FromSite}
  BY <1>2, OfflineInOrder
<1> QED
  BY <1>1, <1>2 DEF PollInv, Progress

\* The stages that are left tell themselves apart.
LEMMA StagesDiffer ==
    /\ FromGrid \notin BeforeAssignment /\ FromSeries \notin BeforeAssignment
    /\ FromPower \notin BeforeAssignment /\ FromSite \notin BeforeAssignment
    /\ <<>> \notin BeforeAssignment
    /\ FromGrid \notin {FromSeries, FromPower, FromSite, <<>>}
    /\ FromSeries \notin {FromPower, FromSite, <<>>}
    /\ FromPower \notin {FromSite, <<>>} /\ FromSite # <<>>
<1>1. \A s \in BeforeAssignment : s # <<>> /\ Head(s) \in FetchNames \cup {"assign_regions"}
  BY FetchesInOrder
<1>2. /\ Head(FromGrid) \notin FetchNames \cup {"assign_regions"}
      /\ Head(FromSeries) \notin FetchNames \cup {"assign_regions"}
      /\ Head(FromPower) \notin FetchNames \cup {"assign_regions"}
      /\ Head(FromSite) \notin FetchNames \cup {"assign_regions"}
  BY OfflineInOrder DEF FetchNames
<1>3. /\ Head(FromGrid) \notin {Head(FromSeries), Head(FromPower), Head(FromSite)}
      /\ Head(FromSeries) \notin {Head(FromPower), Head(FromSite)}
      /\ Head(FromPower) # Head(FromSite)
  BY OfflineInOrder
<1> QED
  BY <1>1, <1>2, <1>3, OfflineInOrder

LEMMA StageOver ==
    ASSUME PollInv, poll # NoPoll
    PROVE  /\ StageSucceeds =>
                /\ IsPoll(poll') /\ poll'.stages = Tail(poll.stages) /\ poll'.failed = poll.failed
           /\ StageFails =>
                /\ IsPoll(poll') /\ poll'.failed = poll.failed \cup {Head(poll.stages)}
                /\ Head(poll.stages) \in TOLERATED_FAILURES => poll'.stages = Tail(poll.stages)
                /\ Head(poll.stages) \notin TOLERATED_FAILURES => poll'.stages = <<>>
<1>1. IsPoll(poll)
  BY DEF PollInv
<1>2. ASSUME StageSucceeds
      PROVE  /\ IsPoll(poll') /\ poll'.stages = Tail(poll.stages) /\ poll'.failed = poll.failed
  <2>1. poll' = [stages |-> Tail(poll.stages), fetch |-> poll.fetch, budget |-> poll.budget,
                 before |-> poll.before, failed |-> poll.failed]
    BY <1>1, <1>2 DEF StageSucceeds, IsPoll
  <2> QED
    BY <2>1 DEF IsPoll
<1>3. ASSUME StageFails
      PROVE  /\ IsPoll(poll') /\ poll'.failed = poll.failed \cup {Head(poll.stages)}
             /\ Head(poll.stages) \in TOLERATED_FAILURES => poll'.stages = Tail(poll.stages)
             /\ Head(poll.stages) \notin TOLERATED_FAILURES => poll'.stages = <<>>
  <2> DEFINE failed == poll.failed \cup {Head(poll.stages)}
             stages == IF Head(poll.stages) \in TOLERATED_FAILURES THEN Tail(poll.stages) ELSE <<>>
             p == [poll EXCEPT !.failed = failed]
  <2>1. poll' = [p EXCEPT !.stages = stages]
    BY <1>3 DEF StageFails
  <2> HIDE DEF failed, stages
  <2>2. p = [stages |-> poll.stages, fetch |-> poll.fetch, budget |-> poll.budget,
             before |-> poll.before, failed |-> failed]
    BY <1>1 DEF IsPoll
  <2> HIDE DEF p
  <2>3. poll' = [stages |-> stages, fetch |-> p.fetch, budget |-> p.budget,
                 before |-> p.before, failed |-> p.failed]
    BY <2>1, <2>2
  <2>4. IsPoll(poll') /\ poll'.failed = failed /\ poll'.stages = stages
    BY <2>2, <2>3 DEF IsPoll
  <2> QED
    BY <2>4 DEF failed, stages
<1> QED
  BY <1>2, <1>3

FilesAreWellMade == \A f \in facilities : IsFacility(f)

\* A poll that begins, that fetches or that was abandoned owes nothing yet.
LEMMA FreshStage ==
    ASSUME FilesAreWellMade', IsPoll(poll'),
           \/ poll'.stages \in BeforeAssignment
           \/ poll'.stages = <<>> /\ ~ (poll'.failed \subseteq TOLERATED_FAILURES)
    PROVE  PollInv'
<1>1. Progress(poll.stages, poll.failed)'
  BY StagesDiffer DEF Progress
<1> QED
  BY <1>1 DEF PollInv, FilesAreWellMade

LEMMA FetchStageOver ==
    ASSUME PollInv, FilesAreWellMade', poll # NoPoll, poll.stages # <<>>,
           Head(poll.stages) \in FetchNames, StageSucceeds \/ StageFails
    PROVE  PollInv'
<1>1. Tail(poll.stages) \in BeforeAssignment
  <2>1. Head(poll.stages) \notin {"assign_regions", "assign_grid_regions", "build_series",
                                  "allocate_power", "build_site_data"}
    BY DEF FetchNames
  <2> QED
    BY <2>1, NextStage
<1>2. CASE StageSucceeds
  BY <1>1, <1>2, StageOver, FreshStage
<1>3. CASE StageFails
  BY <1>1, <1>3, StageOver, FreshStage
<1> QED
  BY <1>2, <1>3

LEMMA FatalFailure ==
    ASSUME PollInv, FilesAreWellMade', poll # NoPoll,
           Head(poll.stages) \notin TOLERATED_FAILURES, StageFails
    PROVE  PollInv'
BY StageOver, FreshStage

LEMMA AssignRegionsPoll ==
    ASSUME HistoryInv, PollInv, AssignRegions
    PROVE  PollInv'
<1>1. poll # NoPoll /\ poll.stages # <<>> /\ Head(poll.stages) = "assign_regions"
  BY DEF AssignRegions, Running
<1>2. Tail(poll.stages) = FromGrid
  BY <1>1, NextStage, OfflineInOrder DEF FetchNames
<1>4. \A f \in facilities : IsFacility(f)
  BY DEF PollInv
<1>5. CASE facilities = {}
  <2>1. StageFails /\ facilities' = facilities
    BY <1>5 DEF AssignRegions, placed
  <2>2. "assign_regions" \notin TOLERATED_FAILURES
    BY DEF TOLERATED_FAILURES
  <2> QED
    BY <1>1, <1>4, <2>1, <2>2, FatalFailure DEF FilesAreWellMade
<1>6. CASE facilities # {}
  <2>1. /\ facilities' = Dated(facilities, Kept(events))
        /\ events' = IF Kept(events) = {} THEN events ELSE Kept(events)
        /\ regions' = BuildRegions(facilities') /\ StageSucceeds
    BY <1>6, AssignmentShape DEF AssignRegions
  <2>2. \A r \in events : IsRow(r)
    BY DEF HistoryInv, Recorded
  <2>3. IsAssigned(facilities', events')
    BY <1>4, <2>1, <2>2, AssignmentIsFixed
  <2>4. \A f \in facilities' : IsFacility(f)
    BY <1>4, <2>1, DatedTwice
  <2>5. IsPoll(poll') /\ poll'.stages = FromGrid
    BY <1>1, <1>2, <2>1, StageOver
  <2>6. Progress(poll.stages, poll.failed)'
    BY <2>1, <2>3, <2>5, StagesDiffer DEF Progress, Tables
  <2> QED
    BY <2>4, <2>5, <2>6 DEF PollInv
<1> QED
  BY <1>5, <1>6

\* From the assignment on, a stage runs on files that the assignment has fixed.
LEMMA AssignGridRegionsPoll ==
    ASSUME PollInv, AssignGridRegions
    PROVE  PollInv'
<1>1. /\ poll # NoPoll /\ poll.stages # <<>> /\ Head(poll.stages) = "assign_grid_regions"
      /\ UNCHANGED placed /\ "assign_grid_regions" \in TOLERATED_FAILURES
  BY DEF AssignGridRegions, Running, TOLERATED_FAILURES
<1>2. poll.stages = FromGrid /\ Tail(poll.stages) = FromSeries
  BY <1>1, NextStage, OfflineInOrder DEF FetchNames
<1>3. IsAssigned(facilities, events) /\ Tables(facilities, regions)
  BY <1>1, <1>2, StagesDiffer DEF PollInv, Progress
<1>4. StageFails \/ (StageSucceeds /\ grid_regions' = BuildGridRegions(grid'))
  BY DEF AssignGridRegions
<1>5. IsPoll(poll') /\ poll'.stages = FromSeries
  BY <1>1, <1>2, <1>4, StageOver
<1>6. GridBuilt(poll.failed)'
  BY <1>1, <1>4, StageOver DEF GridBuilt
<1>7. Progress(poll.stages, poll.failed)'
  BY <1>1, <1>3, <1>5, <1>6, StagesDiffer DEF Progress, placed
<1>8. \A f \in facilities' : IsFacility(f)
  BY <1>1 DEF PollInv, placed
<1> QED
  BY <1>5, <1>7, <1>8 DEF PollInv

LEMMA BuildSeriesPoll ==
    ASSUME PollInv, BuildSeriesStage
    PROVE  PollInv'
<1>1. /\ poll # NoPoll /\ poll.stages # <<>> /\ Head(poll.stages) = "build_series"
      /\ UNCHANGED placed /\ UNCHANGED <<grid, grid_regions>>
      /\ "build_series" \in TOLERATED_FAILURES
  BY DEF BuildSeriesStage, Running, TOLERATED_FAILURES
<1>2. poll.stages = FromSeries /\ Tail(poll.stages) = FromPower
  BY <1>1, NextStage, OfflineInOrder DEF FetchNames
<1>3. IsAssigned(facilities, events) /\ Tables(facilities, regions) /\ GridBuilt(poll.failed)
  BY <1>1, <1>2, StagesDiffer DEF PollInv, Progress
<1>4. StageFails \/ (StageSucceeds /\ series' = BuildSeries(events, facilities))
  BY DEF BuildSeriesStage
<1>5. IsPoll(poll') /\ poll'.stages = FromPower
  BY <1>1, <1>2, <1>4, StageOver
<1>6. SeriesBuilt(poll.failed)'
  BY <1>1, <1>4, StageOver DEF SeriesBuilt, placed
<1>7. GridBuilt(poll.failed)'
  BY <1>1, <1>3, <1>4, StageOver DEF GridBuilt
<1>8. Progress(poll.stages, poll.failed)'
  BY <1>1, <1>3, <1>5, <1>6, <1>7, StagesDiffer DEF Progress, placed
<1>9. \A f \in facilities' : IsFacility(f)
  BY <1>1 DEF PollInv, placed
<1> QED
  BY <1>5, <1>8, <1>9 DEF PollInv

LEMMA AllocatePowerPoll ==
    ASSUME PollInv, AllocatePower
    PROVE  PollInv'
<1>1. /\ poll # NoPoll /\ poll.stages # <<>> /\ Head(poll.stages) = "allocate_power"
      /\ UNCHANGED <<facilities, events>> /\ UNCHANGED <<series, grid, grid_regions>>
      /\ "allocate_power" \notin TOLERATED_FAILURES
  BY DEF AllocatePower, Running, TOLERATED_FAILURES, layers
<1>2. poll.stages = FromPower /\ Tail(poll.stages) = FromSite
  BY <1>1, NextStage, OfflineInOrder DEF FetchNames
<1>3. /\ IsAssigned(facilities, events) /\ Tables(facilities, regions)
      /\ GridBuilt(poll.failed) /\ SeriesBuilt(poll.failed)
  BY <1>1, <1>2, StagesDiffer DEF PollInv, Progress
<1>4. FilesAreWellMade'
  BY <1>1 DEF FilesAreWellMade, PollInv
<1>5. CASE StageFails
  BY <1>1, <1>4, <1>5, FatalFailure
<1>6. CASE StageSucceeds /\ regions' = Allocated(regions, facilities)
  <2>1. IsPoll(poll') /\ poll'.stages = FromSite /\ poll'.failed = poll.failed
    BY <1>1, <1>2, <1>6, StageOver
  <2>2. Powered(facilities, regions)'
    BY <1>1, <1>3, <1>6 DEF Tables, Powered
  <2>3. GridBuilt(poll.failed)' /\ SeriesBuilt(poll.failed)'
    BY <1>1, <1>3, <2>1 DEF GridBuilt, SeriesBuilt
  <2>4. Progress(poll.stages, poll.failed)'
    BY <1>1, <1>3, <2>1, <2>2, <2>3, StagesDiffer DEF Progress
  <2> QED
    BY <1>4, <2>1, <2>4 DEF PollInv, FilesAreWellMade
<1> QED
  BY <1>5, <1>6 DEF AllocatePower

\* A site that is published again from the same files stays as it is, the files of
\* the regions that had a series once among them.
LEMMA SitePublishedTwice ==
    ASSUME site' = SiteOf, UNCHANGED <<facilities, events, regions>>,
           UNCHANGED <<series, grid, grid_regions, poll_log>>
    PROVE  site' = SiteOf'
<1>1. site'.series = SeriesFiles
  BY DEF SiteOf
<1>2. DOMAIN SeriesFiles = DOMAIN series \cup DOMAIN site.series
      /\ \A r \in DOMAIN series : SeriesFiles[r] = series[r]
  BY DEF SeriesFiles
<1> DEFINE old == site'.series
<1>3. SeriesFiles' = [r \in DOMAIN series \cup DOMAIN old |-> IF r \in DOMAIN series THEN series[r] ELSE old[r]]
  BY DEF SeriesFiles
<1>4. SeriesFiles = [r \in DOMAIN series \cup DOMAIN site.series |-> SeriesFiles[r]]
  BY DEF SeriesFiles
<1>5. DOMAIN old = DOMAIN series \cup DOMAIN site.series
      /\ \A r \in DOMAIN old : (IF r \in DOMAIN series THEN series[r] ELSE old[r]) = SeriesFiles[r]
  BY <1>1, <1>2
<1> HIDE DEF old
<1>6. SeriesFiles' = SeriesFiles
  BY <1>3, <1>4, <1>5
<1> HIDE DEF SeriesFiles
<1>7. SiteOf' = SiteOf
  BY <1>6 DEF SiteOf, GridTotalsOf
<1> QED
  BY <1>7

LEMMA BuildSiteDataPoll ==
    ASSUME PollInv, BuildSiteData
    PROVE  PollInv'
<1>1. /\ poll # NoPoll /\ poll.stages # <<>> /\ Head(poll.stages) = "build_site_data"
      /\ UNCHANGED <<facilities, events, regions>> /\ UNCHANGED <<series, grid, grid_regions, poll_log>>
      /\ "build_site_data" \notin TOLERATED_FAILURES
  BY DEF BuildSiteData, Running, TOLERATED_FAILURES, layers, placed
<1>2. poll.stages = FromSite /\ Tail(poll.stages) = <<>>
  BY <1>1, NextStage, OfflineInOrder DEF FetchNames
<1>3. /\ IsAssigned(facilities, events) /\ Powered(facilities, regions)
      /\ GridBuilt(poll.failed) /\ SeriesBuilt(poll.failed)
  BY <1>1, <1>2, StagesDiffer DEF PollInv, Progress
<1>4. FilesAreWellMade'
  BY <1>1 DEF FilesAreWellMade, PollInv
<1>5. CASE StageFails
  BY <1>1, <1>4, <1>5, FatalFailure
<1>6. CASE StageSucceeds /\ site' = SiteOf
  <2>1. IsPoll(poll') /\ poll'.stages = <<>> /\ poll'.failed = poll.failed
    BY <1>1, <1>2, <1>6, StageOver
  <2>2. site' = SiteOf'
    BY <1>1, <1>6, SitePublishedTwice
  <2>3. GridBuilt(poll.failed)' /\ SeriesBuilt(poll.failed)'
    BY <1>1, <1>3, <2>1 DEF GridBuilt, SeriesBuilt
  <2>4. Progress(poll.stages, poll.failed)'
    BY <1>1, <1>3, <1>6, <2>1, <2>2, <2>3, StagesDiffer DEF Progress
  <2> QED
    BY <1>4, <2>1, <2>4 DEF PollInv, FilesAreWellMade
<1> QED
  BY <1>5, <1>6 DEF BuildSiteData

\* A stage that dies counts as a failure, and what it leaves undone is told by it.
LEMMA StageDiesPoll ==
    ASSUME PollInv, StageDies
    PROVE  PollInv'
<1>1. /\ poll # NoPoll /\ poll.stages # <<>>
      /\ UNCHANGED <<regions, series, grid_regions>>
      /\ poll' = NoPoll \/ StageFails
  BY DEF StageDies
<1>10. /\ facilities' = facilities \/ (Running("assign_regions") /\ facilities' = AssignedFacilities)
       /\ events' = events \/ Running("assign_regions") \/ Running("fetch_osm_history")
       /\ grid' = grid \/ Running("assign_grid_regions")
  BY DEF StageDies, HistoryCutShort, AssignmentCutShort, GridCutShort, SiteCutShort
<1>2. \A f \in facilities' : IsFacility(f)
  <2>1. \A f \in AssignedFacilities : IsFacility(f)
    BY AssignmentShape, DatedTwice DEF PollInv
  <2>2. \A f \in facilities : IsFacility(f)
    BY DEF PollInv
  <2>3. facilities' = facilities \/ facilities' = AssignedFacilities
    BY <1>10
  <2> HIDE DEF AssignedFacilities
  <2> QED
    BY <2>1, <2>2, <2>3
<1>3. FilesAreWellMade'
  BY <1>2 DEF FilesAreWellMade
<1>4. CASE poll' = NoPoll
  BY <1>3, <1>4 DEF PollInv, FilesAreWellMade
<1>5. CASE StageFails /\ Head(poll.stages) \notin TOLERATED_FAILURES
  BY <1>1, <1>3, <1>5, FatalFailure
<1>6. CASE StageFails /\ Head(poll.stages) \in FetchNames
  BY <1>1, <1>3, <1>6, FetchStageOver
<1>7. CASE /\ StageFails /\ Head(poll.stages) \in TOLERATED_FAILURES
           /\ Head(poll.stages) \notin FetchNames
  <2>1. Head(poll.stages) \in {"build_series", "assign_grid_regions"}
    BY <1>7 DEF TOLERATED_FAILURES, FetchNames
  <2>2. UNCHANGED <<facilities, events>> /\ (grid' = grid \/ Head(poll.stages) = "assign_grid_regions")
    <3>1. PICK stage : stage = Head(poll.stages)
      OBVIOUS
    <3>2. /\ Running("assign_regions") => stage = "assign_regions"
          /\ Running("fetch_osm_history") => stage = "fetch_osm_history"
          /\ Running("assign_grid_regions") => stage = "assign_grid_regions"
      BY <3>1 DEF Running
    <3>3. stage # "assign_regions" /\ stage # "fetch_osm_history"
      BY <2>1, <3>1
    <3> QED
      BY <1>10, <3>1, <3>2, <3>3
  <2>3. \/ /\ poll.stages = FromGrid /\ Tail(poll.stages) = FromSeries
           /\ Head(poll.stages) = "assign_grid_regions"
        \/ /\ poll.stages = FromSeries /\ Tail(poll.stages) = FromPower
           /\ Head(poll.stages) = "build_series"
    BY <1>1, <1>7, <2>1, NextStage
  <2>4. IsAssigned(facilities, events) /\ Tables(facilities, regions)
    BY <1>1, <2>3, StagesDiffer DEF PollInv, Progress
  <2>5. /\ IsPoll(poll') /\ poll'.stages = Tail(poll.stages)
        /\ poll'.failed = poll.failed \cup {Head(poll.stages)}
    BY <1>1, <1>7, StageOver
  <2>6. poll'.stages = FromPower => SeriesBuilt(poll.failed)'
    BY <2>3, <2>5, StagesDiffer DEF SeriesBuilt
  <2>7. GridBuilt(poll.failed)'
    <3>1. CASE Head(poll.stages) = "assign_grid_regions"
      BY <2>5, <3>1 DEF GridBuilt
    <3>2. CASE poll.stages = FromSeries /\ Head(poll.stages) # "assign_grid_regions"
      <4>1. GridBuilt(poll.failed)
        BY <1>1, <3>2, StagesDiffer DEF PollInv, Progress
      <4> QED
        BY <1>1, <2>2, <2>5, <3>2, <4>1 DEF GridBuilt
    <3> QED
      BY <2>3, <3>1, <3>2, OfflineInOrder
  <2>8. Progress(poll.stages, poll.failed)'
    BY <1>1, <2>2, <2>3, <2>4, <2>5, <2>6, <2>7, StagesDiffer DEF Progress
  <2> QED
    BY <1>3, <2>5, <2>8 DEF PollInv, FilesAreWellMade
<1> QED
  BY <1>1, <1>4, <1>5, <1>6, <1>7

LEMMA FetchStagePoll ==
    ASSUME PollInv,
           FetchSnapshot \/ FetchSnapshotFails \/ FetchGrid \/ FetchGridFails
           \/ FetchHistory \/ FetchHistoryFails
    PROVE  PollInv'
<1>1. /\ poll # NoPoll /\ poll.stages # <<>> /\ Head(poll.stages) \in FetchNames
      /\ StageSucceeds \/ StageFails \/ poll' = NoPoll
  BY DEF FetchSnapshot, FetchSnapshotFails, FetchGrid, FetchGridFails, FetchHistory,
         FetchHistoryFails, Running, FetchNames
<1>2. \A f \in facilities' : IsFacility(f)
  <2>1. CASE facilities' = facilities
    BY <2>1 DEF PollInv
  <2>2. CASE FetchSnapshot /\ facilities' # facilities
    <3>1. PICK ids : facilities' = FacilityRows(ids)
      BY <2>2 DEF FetchSnapshot
    <3>2. \A e : IsFacility([id |-> e, county |-> NoCounty, seen |-> 0])
      BY DEF IsFacility
    <3>3. ASSUME NEW f \in FacilityRows(ids) PROVE IsFacility(f)
      <4>1. PICK e \in ids : f = IF \E g \in facilities : g.id = e
                                 THEN CHOOSE g \in facilities : g.id = e
                                 ELSE [id |-> e, county |-> NoCounty, seen |-> 0]
        BY DEF FacilityRows
      <4>2. f \in facilities \/ f = [id |-> e, county |-> NoCounty, seen |-> 0]
        BY <4>1
      <4> QED
        BY <3>2, <4>2 DEF PollInv
    <3> QED
      BY <3>1, <3>3
  <2> QED
    BY <2>1, <2>2 DEF FetchSnapshotFails, FetchGrid, FetchGridFails, FetchHistory,
                      FetchHistoryFails, placed
<1>3. CASE StageSucceeds \/ StageFails
  BY <1>1, <1>2, <1>3, FetchStageOver DEF FilesAreWellMade
<1>4. CASE poll' = NoPoll
  BY <1>2, <1>4 DEF PollInv
<1> QED
  BY <1>1, <1>3, <1>4

LEMMA StartPollStep ==
    ASSUME PollInv, StartAnyPoll
    PROVE  PollInv'
<1>1. PICK o \in PollOptions : StartPoll(o)
  BY DEF StartAnyPoll
<1>2. FilesAreWellMade'
  BY <1>1 DEF StartPoll, placed, FilesAreWellMade, PollInv
<1> DEFINE fetches == IF o.fetch THEN FetchStages(o) ELSE <<>>
<1>3. fetches \in Seq(FetchNames)
  BY FetchStagesAreFetches
<1>4. poll'.stages = fetches \o OfflineStages /\ IsPoll(poll')
  BY <1>1 DEF StartPoll, IsPoll
<1>5. poll'.stages \in BeforeAssignment
  <2> HIDE DEF fetches
  <2> QED
    BY <1>3, <1>4 DEF BeforeAssignment
<1> QED
  BY <1>2, <1>4, <1>5, FreshStage

\* Between two polls nothing but a mishap or upstream moves; an edit that a fetch of the
\* history races leaves the poll where it is.
LEMMA BetweenPolls ==
    ASSUME PollInv, FinishPoll \/ NewDay \/ EditUpstream \/ FreshCheckout
    PROVE  PollInv'
<1>1. UNCHANGED placed
  BY DEF FinishPoll, NewDay, EditUpstream, Edit, FreshCheckout
<1>2. FilesAreWellMade'
  BY <1>1 DEF placed, FilesAreWellMade, PollInv
<1>3. CASE poll' = NoPoll
  BY <1>2, <1>3 DEF PollInv, FilesAreWellMade
<1>4. CASE EditUpstream /\ poll # NoPoll
  <2>1. /\ poll' = poll /\ poll.stages # <<>> /\ Head(poll.stages) = "fetch_osm_history"
    BY <1>4 DEF EditUpstream, Edit, UpstreamMoves, Running
  <2>2. poll.stages \in BeforeAssignment
    BY <1>4, <2>1, OfflineInOrder DEF PollInv, Progress
  <2> QED
    BY <1>2, <1>4, <2>1, <2>2, FreshStage DEF PollInv
<1> QED
  BY <1>3, <1>4 DEF FinishPoll, NewDay, EditUpstream, Edit, FreshCheckout

LEMMA PollStep ==
    ASSUME HistoryInv, PollInv, [Next]_vars
    PROVE  PollInv'
<1>1. CASE UNCHANGED vars
  <2>1. /\ UNCHANGED <<facilities, events, regions, series, grid, grid_regions, poll_log, site, poll>>
    BY <1>1 DEF vars, placed, layers, published
  <2>2. SiteOf' = SiteOf
    BY <2>1 DEF SiteOf, SeriesFiles, GridTotalsOf
  <2>3. Progress(poll.stages, poll.failed)' = Progress(poll.stages, poll.failed)
    BY <2>1, <2>2 DEF Progress, SeriesBuilt, GridBuilt
  <2> QED
    BY <2>1, <2>3 DEF PollInv
<1>2. CASE OfflineStage
  BY <1>2, AssignRegionsPoll, AssignGridRegionsPoll, BuildSeriesPoll, AllocatePowerPoll,
     BuildSiteDataPoll DEF OfflineStage
<1> QED
  BY <1>1, <1>2, FetchStagePoll, StartPollStep, BetweenPolls, StageDiesPoll DEF Next

\* After a poll that exits with 0, an offline rebuild changes nothing but what a tolerated
\* failure left undone, the series or the totals of the grid: poll.py stops at the first failure that it does not tolerate, so the stages
\* that place, allocate and publish have run on one another's files, and assigning again
\* what assign_regions.py wrote gives the same rows.
THEOREM RebuildIsIdle == Spec => RebuildChangesNothing
<1>1. Spec => [](HistoryInv /\ PollInv)
  <2>1. Init => HistoryInv /\ PollInv
    BY InitialHistory, InitialPoll
  <2>2. HistoryInv /\ PollInv /\ [Next]_vars => (HistoryInv /\ PollInv)'
    BY HistoryStep, PollStep
  <2> QED
    BY <2>1, <2>2, PTL DEF Spec
<1>2. ASSUME PollInv, PollSucceeds
      PROVE  /\ facilities = AssignedFacilities
             /\ KeptEvents \in {events, {}}
             /\ regions = Allocated(BuildRegions(facilities), facilities)
             /\ "build_series" \in poll.failed \/ series = BuildSeries(events, facilities)
             /\ "assign_grid_regions" \in poll.failed \/ grid_regions = BuildGridRegions(grid)
             /\ site = [SiteOf EXCEPT !.last_polled = site.last_polled]
  <2>1. poll # NoPoll /\ poll.stages = <<>> /\ poll.failed \subseteq TOLERATED_FAILURES
    BY <1>2 DEF PollSucceeds, ExitStatus
  <2>2. /\ IsAssigned(facilities, events) /\ Powered(facilities, regions)
        /\ SeriesBuilt(poll.failed) /\ GridBuilt(poll.failed) /\ site = SiteOf
    BY <1>2, <2>1 DEF PollInv, Progress
  <2>3. facilities = AssignedFacilities /\ KeptEvents \in {events, {}}
    BY <2>2, AssignmentShape DEF IsAssigned
  <2>4. site = [site EXCEPT !.last_polled = site.last_polled]
    BY <2>2 DEF SiteOf
  <2> QED
    BY <2>2, <2>3, <2>4 DEF Powered, SeriesBuilt, GridBuilt
<1>3. HistoryInv /\ PollInv /\ [Next]_vars =>
        [PollSucceeds =>
           /\ facilities = AssignedFacilities
           /\ KeptEvents \in {events, {}}
           /\ regions = Allocated(BuildRegions(facilities), facilities)
           /\ "build_series" \in poll.failed \/ series = BuildSeries(events, facilities)
           /\ "assign_grid_regions" \in poll.failed \/ grid_regions = BuildGridRegions(grid)
           /\ site = [SiteOf EXCEPT !.last_polled = site.last_polled]]_vars
  BY <1>2
<1> QED
  BY <1>1, <1>3, PTL DEF Spec, RebuildChangesNothing

-----------------------------------------------------------------------------
(* What the site publishes.                                                *)

\* A facility's date and the changes of the site.
DateAgrees(f, changes) ==
    /\ \A c \in changes : c[1] = f.id /\ c[3] = "creation" => f.seen # 0 /\ f.seen <= c[2]
    /\ f.seen # 0 /\ <<f.id, f.seen, "creation">> \notin changes =>
        /\ Cardinality(changes) >= MaxChanges
        /\ \A c \in changes : c[2] >= f.seen

GridAgrees(page) ==
    \A r \in DOMAIN page.regions :
        GridCount(page.grid_totals, r) = Cardinality(RowsIn(page.grid, r))

\* The parts of PublishedAgrees, of any payload and of any series.
PlacesAgree(page, failed) ==
    LET whole == AreaOfClass(page.facilities, "building")
    IN  /\ \A kind \in Families :
            /\ CountIn(page.regions, kind) = Cardinality(page.facilities)
            /\ PowerIn(page.regions, kind) = whole
        /\ \A r \in DOMAIN page.regions : page.regions[r].share[2] = whole
        /\ WeightOf(page.weights) = whole
        /\ "assign_grid_regions" \notin failed => GridAgrees(page)
        /\ \A f \in page.facilities : DateAgrees(f, page.changes)

SeriesAgrees(table) ==
    Nation \in DOMAIN table =>
        \A m \in DOMAIN table[Nation], kind \in Families :
            table[Nation][m].count = FamilyCount(table, kind, m)

PollPublished == poll # NoPoll /\ poll.stages = <<>> /\ ExitStatus = 0

LEMMA PublishedParts ==
    PublishedAgrees <=>
        (PollPublished => PlacesAgree(site, poll.failed)) /\ SeriesAgrees(series)
BY DEF PublishedAgrees, PlacesAgree, SeriesAgrees, DateAgrees, GridAgrees, PollPublished,
       WeightOf, FamilyCount, Families

\* Files of rows that are finitely many, one for each element or asset, and what is made of
\* them at one moment.
FilesInv ==
    /\ IsFiniteSet(edits)
    /\ \A t \in SnapshotTiles : snapshot_cache[t] = NotCached \/ snapshot_cache[t] \subseteq Elements
    /\ \A f \in facilities : f.id \in Elements
    /\ \A f, g \in facilities : f.id = g.id => f = g
    /\ \A r \in grid : r = [id |-> r.id, county |-> r.county] /\ r.id \in DOMAIN Assets
    /\ \A r \in grid : r.county \in Counties \cup {NoCounty}
    /\ \A r, s \in grid : r.id = s.id => r = s
    /\ SeriesAgrees(series)

LEMMA RowsAreFinite ==
    ASSUME NEW rows, NEW ids, IsFiniteSet(ids), \A r \in rows : r.id \in ids,
           \A r, s \in rows : r.id = s.id => r = s
    PROVE  IsFiniteSet(rows)
<1> DEFINE id == [r \in rows |-> r.id]
<1>1. id \in Injection(rows, ids)
  BY DEF Injection, IsInjective
<1> QED
  BY <1>1, FS_Injection

LEMMA EventsAreFinite ==
    ASSUME FilesInv, HistoryInv
    PROVE  IsFiniteSet(events)
<1> DEFINE edit(r) == CHOOSE x \in edits : EventKey(x) = EventKey(r)
           edited == [r \in events |-> edit(r)]
<1>1. ASSUME NEW r \in events PROVE edit(r) \in edits /\ EventKey(edit(r)) = EventKey(r)
  <2>1. \E x \in edits : EventKey(x) = EventKey(r)
    BY DEF HistoryInv, Recorded, KeysOf
  <2> QED
    BY <2>1
<1> HIDE DEF edit
<1>2. edited \in Injection(events, edits)
  <2>1. edited \in [events -> edits]
    BY <1>1
  <2>2. \A r, s \in events : edited[r] = edited[s] => EventKey(r) = EventKey(s)
    BY <1>1
  <2>3. \A r, s \in events : edited[r] = edited[s] => r = s
    BY <2>2 DEF HistoryInv, Recorded
  <2> QED
    BY <2>1, <2>3 DEF Injection, IsInjective
<1> QED
  BY <1>2, FS_Injection DEF FilesInv

\* The recorded creation of an element that a county has is one that is kept.
LEMMA KeptCreations ==
    ASSUME FilesInv, HistoryInv, NEW f, CountyOf[f.id] # NoCounty
    PROVE  {c.day : c \in {e \in Creations(Kept(events)) : e.id = f.id}} =
               {e.day : e \in {d \in Creations(events) : d.id = f.id}}
<1> DEFINE kept == {c.day : c \in {e \in Creations(Kept(events)) : e.id = f.id}}
           recorded == {e.day : e \in {d \in Creations(events) : d.id = f.id}}
<1>1. \A r \in events : IsRow(r) /\ (r.kind = "creation" => r.placed)
  BY DEF HistoryInv, Recorded
<1>2. \A r \in events :
        /\ AssignedRow(r).id = r.id /\ AssignedRow(r).day = r.day /\ AssignedRow(r).kind = r.kind
        /\ AssignedRow(r).county = IF r.placed THEN CountyOf[r.id] ELSE r.county
  BY <1>1, AssignedRowIsRow
<1>3. \A c \in Kept(events) : \E r \in events : c = AssignedRow(r)
  BY DEF Kept, PlacedRows
<1>4. \A r \in events : AssignedRow(r).county # NoCounty => AssignedRow(r) \in Kept(events)
  BY DEF Kept, PlacedRows
<1>5. ASSUME NEW c \in Kept(events), c.kind = "creation", c.id = f.id
      PROVE  \E e \in events : e.kind = "creation" /\ e.id = f.id /\ e.day = c.day
  BY <1>2, <1>3, <1>5
<1>6. ASSUME NEW e \in events, e.kind = "creation", e.id = f.id
      PROVE  \E c \in Kept(events) : c.kind = "creation" /\ c.id = f.id /\ c.day = e.day
  <2>1. AssignedRow(e).county # NoCounty
    BY <1>1, <1>2, <1>6
  <2> QED
    BY <1>2, <1>4, <1>6, <2>1
<1>7. kept \subseteq recorded
  BY <1>5 DEF Creations
<1>8. recorded \subseteq kept
  BY <1>6 DEF Creations
<1> QED
  BY <1>7, <1>8

\* A facility that is assigned has its county and the date of the events.
LEMMA AssignedFacility ==
    ASSUME FilesInv, HistoryInv, PollInv, IsAssigned(facilities, events), NEW f \in facilities
    PROVE  /\ f.id \in Elements /\ f.county \in Counties /\ CountyOf[f.id] # NoCounty
           /\ f.seen = FirstSeen(f.id, Kept(events))
<1>1. facilities = PlacedRows({DatedRow(g, Kept(events)) : g \in facilities})
  BY DEF IsAssigned, Dated
<1>2. PICK g \in facilities : f = DatedRow(g, Kept(events))
  BY <1>1 DEF PlacedRows
<1>3. f.county # NoCounty
  BY <1>1 DEF PlacedRows
<1>4. IsFacility(g)
  BY DEF PollInv
<1>5. f = [id |-> g.id, county |-> CountyOf[g.id], seen |-> FirstSeen(g.id, Kept(events))]
  BY <1>2, <1>4, DatedFacility
<1>6. f.id = g.id /\ f.county = CountyOf[g.id] /\ f.seen = FirstSeen(g.id, Kept(events))
  BY <1>5
<1>7. f.id \in Elements
  BY DEF FilesInv
<1>8. CountyOf[f.id] \in Counties \cup {NoCounty}
  BY <1>7, TheMapIsFinite
<1> QED
  BY <1>3, <1>6, <1>7, <1>8

\* Events that are all placed, if any is, as the assignment leaves them.
LEMMA AssignedHistory ==
    ASSUME FilesInv, HistoryInv, IsAssigned(facilities, events), PlacedRows(events) # {}
    PROVE  IsHistory(events)
<1>1. \A r \in events : IsRow(r) /\ r.county \in {NoCounty, CountyOf[r.id]}
  BY DEF HistoryInv, Recorded
<1>2. \A r \in events : r.id \in Elements /\ r.day \in Nat
  BY RecordedDays DEF HistoryInv, EditsInv
<1>3. PICK r \in events : r.county # NoCounty
  BY DEF PlacedRows
<1>4. AssignedRow(r).county # NoCounty
  BY <1>1, <1>3, AssignedRowIsRow
<1>5. Kept(events) # {}
  BY <1>4 DEF Kept, PlacedRows
<1>6. Kept(events) = events
  BY <1>5 DEF IsAssigned
<1>7. \A e \in events : e.county # NoCounty
  BY <1>6 DEF Kept, PlacedRows
<1>8. \A e \in events : e.county \in Counties
  BY <1>1, <1>2, <1>7, TheMapIsFinite
<1> QED
  BY <1>2, <1>8, EventsAreFinite DEF IsHistory, IsPlaced

\* What the changes file leaves out it leaves out to hold MaxChanges newer ones.
LEMMA LeftOutChanges ==
    ASSUME NEW rows, IsFiniteSet(rows), \A r \in rows : r.day \in Nat /\ r.id \in Elements,
           NEW c \in Changes(rows), c \notin RecentChanges(rows)
    PROVE  /\ Cardinality(RecentChanges(rows)) >= MaxChanges
           /\ \A n \in RecentChanges(rows) : n.day >= c.day
<1> DEFINE M == Changes(rows)
           R == RecentChanges(rows)
           Ahead(r) == {s \in M : Newer(s, r)}
           rank(r) == Cardinality(Ahead(r))
<1>1. M \subseteq rows /\ IsFiniteSet(M)
  BY FS_Subset DEF Changes
<1>2. R \subseteq M /\ \A r \in M : r \in R <=> rank(r) < MaxChanges
  BY DEF RecentChanges
<1>3. \A r \in M : r.day \in Nat /\ OsmId[r.id] \in Nat
  BY <1>1, TheMapIsFinite
<1>4. MaxChanges \in Nat
  BY TheMapIsFinite
<1> HIDE DEF M, R
<1>5. \A r : IsFiniteSet(Ahead(r)) /\ rank(r) \in Nat
  BY <1>1, FS_Subset, FS_CardinalityType
<1>6. ASSUME NEW q \in M, NEW r \in M, Newer(q, r)
      PROVE  rank(q) < rank(r)
  <2>1. Ahead(q) \subseteq Ahead(r)
    BY <1>3, <1>6 DEF Newer
  <2>2. q \in Ahead(r) /\ q \notin Ahead(q)
    BY <1>3, <1>6 DEF Newer
  <2> DEFINE rest == Ahead(r) \ {q}
  <2>3. Ahead(q) \subseteq rest
    BY <2>1, <2>2
  <2>4. Cardinality(rest) = rank(r) - 1 /\ IsFiniteSet(rest)
    <3>1. PICK A : A = Ahead(r)
      OBVIOUS
    <3>2. IsFiniteSet(A) /\ q \in A
      BY <1>5, <2>2, <3>1
    <3>3. IsFiniteSet(A \ {q}) /\ Cardinality(A \ {q}) = Cardinality(A) - 1
      BY <3>2, FS_RemoveElement
    <3> QED
      BY <3>1, <3>3
  <2> HIDE DEF rest
  <2>5. rank(q) <= Cardinality(rest)
    BY <2>3, <2>4, FS_Subset
  <2>6. PICK a \in Nat : a = rank(q)
    BY <1>5
  <2>7. PICK b \in Nat : b = rank(r)
    BY <1>5
  <2> QED
    BY <2>4, <2>5, <2>6, <2>7
<1> DEFINE Sizes == {rank(r) : r \in M \ R}
<1> HIDE DEF rank
<1>7. c \in M \ R
  BY DEF M, R
<1>8. PICK m \in M \ R : \A r \in M \ R : rank(m) <= rank(r)
  <2>1. Sizes \subseteq Nat /\ Sizes # {}
    BY <1>5, <1>7
  <2>2. PICK n \in Sizes : \A k \in Sizes : n <= k
    <3> HIDE DEF Sizes
    <3> QED
      BY <2>1, LeastNatural
  <2> QED
    BY <2>2
<1>9. Ahead(m) \subseteq R
  <2> SUFFICES ASSUME NEW q \in Ahead(m), q \notin R PROVE FALSE
    OBVIOUS
  <2>1. q \in M \ R /\ rank(q) < rank(m)
    BY <1>6, <1>8
  <2>2. rank(m) <= rank(q)
    BY <1>8, <2>1
  <2>3. PICK a \in Nat : a = rank(q)
    BY <1>5
  <2>4. PICK b \in Nat : b = rank(m)
    BY <1>5
  <2> QED
    BY <2>1, <2>2, <2>3, <2>4
<1>10. IsFiniteSet(R) /\ Cardinality(R) \in Nat
  BY <1>1, <1>2, FS_Subset, FS_CardinalityType
<1>11. rank(m) <= Cardinality(R)
  BY <1>9, <1>10, FS_Subset DEF rank
<1>12. ~ (rank(m) < MaxChanges)
  BY <1>2, <1>8
<1>13. ASSUME NEW n \in R PROVE n.day >= c.day
  <2> SUFFICES ASSUME ~ (n.day >= c.day) PROVE FALSE
    OBVIOUS
  <2>1. n \in M /\ n.day < c.day
    BY <1>2, <1>3, <1>7
  <2>2. Newer(c, n)
    BY <2>1 DEF Newer
  <2>3. rank(c) < rank(n)
    BY <1>6, <1>7, <2>1, <2>2
  <2>4. rank(n) < MaxChanges /\ ~ (rank(c) < MaxChanges)
    BY <1>2, <1>7, <2>1
  <2>5. PICK a \in Nat : a = rank(c)
    BY <1>5
  <2>6. PICK b \in Nat : b = rank(n)
    BY <1>5
  <2> QED
    BY <1>4, <2>3, <2>4, <2>5, <2>6
<1>14. Cardinality(R) >= MaxChanges
  <2>1. PICK a \in Nat : a = rank(m)
    BY <1>5
  <2>2. PICK b \in Nat : b = Cardinality(R)
    BY <1>10
  <2> QED
    BY <1>4, <1>11, <1>12, <2>1, <2>2
<1> QED
  BY <1>13, <1>14 DEF R

\* The changes of the site are keys of the changes, one for each.
LEMMA ChangesAreListed ==
    ASSUME FilesInv, HistoryInv
    PROVE  Cardinality({EventKey(e) : e \in RecentChanges(events)}) = Cardinality(RecentChanges(events))
<1> DEFINE R == RecentChanges(events)
           keys == {EventKey(e) : e \in R}
           key == [e \in R |-> EventKey(e)]
<1>1. R \subseteq events
  BY DEF RecentChanges, Changes
<1>2. \A r, s \in events : EventKey(r) = EventKey(s) => r = s
  BY DEF HistoryInv, Recorded
<1>3. IsFiniteSet(R)
  BY <1>1, EventsAreFinite, FS_Subset
<1> HIDE DEF R
<1>4. key \in Bijection(R, keys)
  <2>1. key \in [R -> keys] /\ \A k \in keys : \E e \in R : key[e] = k
    OBVIOUS
  <2>2. \A r, s \in R : key[r] = key[s] => r = s
    BY <1>1, <1>2
  <2> HIDE DEF key, keys
  <2> QED
    BY <2>1, <2>2 DEF Bijection, Injection, Surjection, IsInjective
<1> HIDE DEF key, keys
<1>5. Cardinality(R) = Cardinality(keys)
  <2>1. ExistsBijection(R, keys)
    BY <1>4 DEF ExistsBijection
  <2> QED
    BY <1>3, <2>1, FS_Bijection
<1> QED
  BY <1>5 DEF R, keys

\* A facility that is assigned carries the date of its first creation, whether the changes
\* list it or not.
LEMMA DatesAgree ==
    ASSUME FilesInv, HistoryInv, PollInv, IsAssigned(facilities, events), NEW f \in facilities
    PROVE  DateAgrees(f, {EventKey(e) : e \in RecentChanges(events)})
<1> DEFINE days == {e.day : e \in {d \in Creations(events) : d.id = f.id}}
           changes == {EventKey(e) : e \in RecentChanges(events)}
<1>1. f.seen = FirstSeen(f.id, Kept(events)) /\ CountyOf[f.id] # NoCounty
  BY AssignedFacility
<1>2. {c.day : c \in {e \in Creations(Kept(events)) : e.id = f.id}} = days
  BY <1>1, KeptCreations
<1>3. f.seen = IF days = {} THEN 0 ELSE Min(days)
  BY <1>1, <1>2 DEF FirstSeen
<1>4. \A e \in events : e.day \in Nat /\ e.day >= 1 /\ e.id \in Elements
  BY RecordedDays DEF HistoryInv, EditsInv
<1>5. IsFiniteSet(events)
  BY EventsAreFinite
<1>6. IsFiniteSet(days) /\ days \subseteq Int
  <2> DEFINE made == {d \in Creations(events) : d.id = f.id}
             day == [e \in made |-> e.day]
  <2>1. made \subseteq events
    BY DEF Creations
  <2>2. IsFiniteSet(made)
    BY <1>5, <2>1, FS_Subset
  <2>3. day \in Surjection(made, days)
    BY DEF Surjection
  <2>4. IsFiniteSet(days)
    BY <2>2, <2>3, FS_Surjection
  <2>5. days \subseteq Int
    BY <1>4, <2>1
  <2> QED
    BY <2>4, <2>5
<1>7. days # {} => f.seen \in days /\ \A d \in days : f.seen <= d
  <2> HIDE DEF days
  <2>1. ASSUME days # {} PROVE Min(days) \in days /\ \A d \in days : Min(days) <= d
    BY <1>6, <2>1, Extremes
  <2>2. ASSUME days # {} PROVE f.seen = Min(days)
    BY <1>3, <2>2
  <2> QED
    BY <2>1, <2>2
<1>8. \A d \in days : d >= 1
  BY <1>4 DEF Creations
<1>9. \A e : EventKey(e)[1] = e.id /\ EventKey(e)[2] = e.day /\ EventKey(e)[3] = e.kind
  BY DEF EventKey
<1>10. RecentChanges(events) \subseteq Changes(events) /\ Changes(events) \subseteq events
  BY DEF RecentChanges, Changes
<1>11. ASSUME NEW c \in changes, c[1] = f.id, c[3] = "creation"
       PROVE  f.seen # 0 /\ f.seen <= c[2]
  <2>1. PICK e \in events : c = EventKey(e)
    BY <1>10
  <2>2. e.id = f.id /\ e.kind = "creation" /\ e.day = c[2]
    BY <1>9, <1>11, <2>1
  <2>3. e.day \in days
    BY <2>2 DEF Creations
  <2> HIDE DEF days
  <2>4. f.seen \in days /\ f.seen <= e.day
    BY <1>7, <2>3
  <2>5. f.seen >= 1 /\ f.seen \in Int
    BY <1>6, <1>8, <2>4
  <2> QED
    BY <2>2, <2>4, <2>5
<1>12. ASSUME f.seen # 0, <<f.id, f.seen, "creation">> \notin changes
       PROVE  Cardinality(changes) >= MaxChanges /\ \A c \in changes : c[2] >= f.seen
  <2>1. f.seen \in days
    BY <1>3, <1>7, <1>12
  <2>2. PICK e \in events : e.kind = "creation" /\ e.id = f.id /\ e.day = f.seen
    BY <2>1 DEF Creations
  <2>3. EventKey(e) = <<f.id, f.seen, "creation">>
    BY <2>2 DEF EventKey
  <2>4. e \in Changes(events) /\ e \notin RecentChanges(events)
    BY <1>12, <2>2, <2>3 DEF Changes
  <2>5. /\ Cardinality(RecentChanges(events)) >= MaxChanges
        /\ \A n \in RecentChanges(events) : n.day >= e.day
    BY <1>4, <1>5, <2>4, LeftOutChanges
  <2>6. \A c \in changes : c[2] >= f.seen
    BY <1>9, <2>2, <2>5
  <2> QED
    BY <2>5, <2>6, ChangesAreListed
<1> HIDE DEF changes
<1>13. DateAgrees(f, changes)
  BY <1>11, <1>12 DEF DateAgrees
<1> QED
  BY <1>13 DEF changes

\* A region of the site carries what is published in it of a grid that was assigned.
LEMMA GridTotalsAgree ==
    ASSUME FilesInv, grid_regions = BuildGridRegions(grid), NEW kind \in Families, NEW r \in kind,
           NEW listed, r \in listed
    PROVE  GridCount(GridTotalsOf(listed), r) = Cardinality(RowsIn(PlacedRows(grid), r))
<1> DEFINE table == BuildGridRegions(grid)
           totals == GridTotalsOf(listed)
           own == RowsIn(PlacedRows(grid), r)
<1>1. AreRows(grid)
  <2>1. IsFiniteSet(grid)
    BY RowsAreFinite, TheMapIsFinite DEF FilesInv
  <2> QED
    BY <2>1 DEF FilesInv, AreRows
<1>2. IF r \in DOMAIN table
      THEN table[r].substation_count + table[r].plant_count = Cardinality(own)
      ELSE own = {}
  BY <1>1, GridOfRegion
<1>3. DOMAIN totals = listed \cap DOMAIN table /\ \A x \in DOMAIN totals : totals[x] = table[x]
  BY DEF GridTotalsOf
<1> HIDE DEF table, totals, own
<1>4. CASE r \in DOMAIN table
  <2>1. r \in DOMAIN totals /\ totals[r] = table[r]
    BY <1>3, <1>4
  <2> QED
    BY <1>2, <1>4, <2>1 DEF GridCount, totals, own
<1>5. CASE r \notin DOMAIN table
  <2>1. r \notin DOMAIN totals /\ own = {}
    BY <1>2, <1>3, <1>5
  <2>2. Cardinality(own) = 0
    BY <2>1, FS_EmptySet
  <2> QED
    BY <2>1, <2>2 DEF GridCount, totals, own
<1> QED
  BY <1>4, <1>5

\* A payload that build_site_data makes of files that the stages before it have assigned
\* and powered agrees with itself.
LEMMA SiteOfAgrees ==
    ASSUME FilesInv, HistoryInv, PollInv, IsAssigned(facilities, events),
           Powered(facilities, regions), NEW failed, GridBuilt(failed)
    PROVE  PlacesAgree(SiteOf, failed)
<1> DEFINE page == SiteOf
           whole == AreaOfClass(facilities, "building")
<1>1. /\ page.facilities = facilities /\ page.weights = MapWeights(facilities)
      /\ page.regions = Allocated(BuildRegions(facilities), facilities)
      /\ page.grid = PlacedRows(grid)
      /\ page.grid_totals = GridTotalsOf(DOMAIN page.regions)
      /\ page.changes = {EventKey(e) : e \in RecentChanges(events)}
  BY DEF SiteOf, Powered
<1>2. IsPlaced(facilities) /\ \A f \in facilities : f.id \in Elements
  <2>1. IsFiniteSet(facilities)
    BY RowsAreFinite, TheMapIsFinite DEF FilesInv
  <2> QED
    BY <2>1, AssignedFacility DEF IsPlaced
<1>3. \A kind \in Families :
        /\ CountIn(page.regions, kind) = Cardinality(page.facilities)
        /\ PowerIn(page.regions, kind) = whole
  <2> HIDE DEF page
  <2> QED
    BY <1>1, <1>2, FamilyAddsUp
<1>4. \A r \in DOMAIN page.regions : page.regions[r].share[2] = whole
  <2> DEFINE table == Allocated(BuildRegions(facilities), facilities)
  <2>1. \A r \in DOMAIN table : table[r].share[2] = whole
    BY PowerTable
  <2>2. page.regions = table
    BY <1>1
  <2> HIDE DEF page, table, whole
  <2> QED
    BY <2>1, <2>2
<1>5. WeightOf(page.weights) = whole
  <2>1. IsFiniteSet(facilities) /\ \A f, g \in facilities : f.id = g.id => f = g
    BY <1>2 DEF IsPlaced, FilesInv
  <2> HIDE DEF page
  <2> QED
    BY <1>1, <1>2, <2>1, WeightsAddUp
<1>6. ASSUME "assign_grid_regions" \notin failed PROVE GridAgrees(page)
  <2>1. grid_regions = BuildGridRegions(grid)
    BY <1>6 DEF GridBuilt
  <2>2. DOMAIN page.regions = CountiesOf(facilities) \cup StatesOf(facilities)
    <3> DEFINE table == Allocated(BuildRegions(facilities), facilities)
    <3>1. DOMAIN table = CountiesOf(facilities) \cup StatesOf(facilities)
      BY PowerTable
    <3>2. page.regions = table
      BY <1>1
    <3> HIDE DEF page, table
    <3> QED
      BY <3>1, <3>2
  <2>3. CountiesOf(facilities) \subseteq Counties /\ StatesOf(facilities) \subseteq States
    BY <1>2 DEF IsPlaced, CountiesOf, StatesOf, States, PlacedRows
  <2> HIDE DEF page
  <2>4. ASSUME NEW r \in DOMAIN page.regions
        PROVE  GridCount(page.grid_totals, r) = Cardinality(RowsIn(page.grid, r))
    <3>1. \E kind \in Families : r \in kind
      BY <2>2, <2>3 DEF Families
    <3> QED
      BY <1>1, <2>1, <3>1, GridTotalsAgree
  <2> QED
    BY <2>4 DEF GridAgrees
<1>7. \A f \in facilities : DateAgrees(f, page.changes)
  BY <1>1, DatesAgree
<1>8. page.facilities = facilities
  BY <1>1
<1> HIDE DEF page
<1>9. PlacesAgree(page, failed)
  BY <1>3, <1>4, <1>5, <1>6, <1>7, <1>8 DEF PlacesAgree
<1> QED
  BY <1>9 DEF page

-----------------------------------------------------------------------------
(* No step of any stage makes the published parts disagree.                *)

LEMMA InitialFiles == Init => FilesInv
<1> SUFFICES ASSUME Init PROVE FilesInv
  OBVIOUS
<1>1. IsFiniteSet(edits)
  BY TheMapIsFinite DEF Init
<1>2. SeriesAgrees(series)
  <2>1. DOMAIN series = {}
    BY DEF Init
  <2> QED
    BY <2>1 DEF SeriesAgrees
<1> QED
  BY <1>1, <1>2 DEF Init, FilesInv

\* The facts about each of the files, which most steps leave alone.
SnapshotFiles ==
    /\ \A t \in SnapshotTiles : snapshot_cache[t] = NotCached \/ snapshot_cache[t] \subseteq Elements

FacilityFiles ==
    /\ \A f \in facilities : f.id \in Elements
    /\ \A f, g \in facilities : f.id = g.id => f = g

GridFiles ==
    /\ \A r \in grid : r = [id |-> r.id, county |-> r.county] /\ r.id \in DOMAIN Assets
    /\ \A r \in grid : r.county \in Counties \cup {NoCounty}
    /\ \A r, s \in grid : r.id = s.id => r = s

LEMMA FilesParts ==
    FilesInv <=> IsFiniteSet(edits) /\ SnapshotFiles /\ FacilityFiles /\ GridFiles /\ SeriesAgrees(series)
BY DEF FilesInv, SnapshotFiles, FacilityFiles, GridFiles

LEMMA EditsStayFinite ==
    ASSUME FilesInv, [Next]_vars
    PROVE  IsFiniteSet(edits')
<1>1. IsFiniteSet(edits)
  BY DEF FilesInv
<1>2. CASE edits' = edits
  BY <1>1, <1>2
<1>3. CASE EditUpstream
  <2>1. PICK e, day, kind : edits' = edits \cup {[id |-> e, day |-> day, kind |-> kind]}
    BY <1>3 DEF EditUpstream, Edit
  <2> QED
    BY <1>1, <2>1, FS_AddElement
<1>4. EditUpstream \/ edits' = edits
  BY DEF Next, vars, upstream, NewDay, StartAnyPoll, StartPoll, FinishPoll, FetchSnapshot,
         FetchSnapshotFails, FetchGrid, FetchGridFails, FetchHistory, FetchHistoryFails,
         OfflineStage, AssignRegions, AssignGridRegions, BuildSeriesStage, AllocatePower,
         BuildSiteData, StageDies, FreshCheckout
<1> QED
  BY <1>2, <1>3, <1>4

LEMMA SnapshotCachingKeeps ==
    ASSUME SnapshotFiles, NEW got
    PROVE  \A t \in SnapshotTiles :
              \/ SnapshotCaching(got)[t] \subseteq Elements
              \/ t \notin got /\ SnapshotCaching(got)[t] = snapshot_cache[t]
BY DEF SnapshotCaching

LEMMA SnapshotStaysOfElements ==
    ASSUME FilesInv, [Next]_vars
    PROVE  SnapshotFiles'
<1>1. SnapshotFiles
  BY FilesParts
<1>2. CASE snapshot_cache' = snapshot_cache
  BY <1>1, <1>2 DEF SnapshotFiles
<1>3. ASSUME NEW got, snapshot_cache' = SnapshotCaching(got)
      PROVE  SnapshotFiles'
  BY <1>1, <1>3, SnapshotCachingKeeps DEF SnapshotFiles
<1>4. CASE FetchSnapshot \/ FetchSnapshotFails
  BY <1>3, <1>4 DEF FetchSnapshot, FetchSnapshotFails
<1>5. CASE FreshCheckout
  BY <1>5 DEF FreshCheckout, SnapshotFiles
<1>6. FetchSnapshot \/ FetchSnapshotFails \/ FreshCheckout \/ snapshot_cache' = snapshot_cache
  BY DEF Next, vars, caches, EditUpstream, Edit, NewDay, StartAnyPoll, StartPoll, FinishPoll,
         FetchGrid, FetchGridFails, FetchHistory, FetchHistoryFails, OfflineStage, AssignRegions,
         AssignGridRegions, BuildSeriesStage, AllocatePower, BuildSiteData, StageDies
<1> QED
  BY <1>2, <1>4, <1>5, <1>6

\* A row for each element of the payloads, whatever the rows were.
LEMMA RefetchedFacilities ==
    ASSUME FacilityFiles, NEW ids \in SUBSET Elements
    PROVE  /\ \A f \in FacilityRows(ids) : f.id \in Elements
           /\ \A f, g \in FacilityRows(ids) : f.id = g.id => f = g
<1> DEFINE row(e) == IF \E f \in facilities : f.id = e THEN CHOOSE f \in facilities : f.id = e
                     ELSE [id |-> e, county |-> NoCounty, seen |-> 0]
<1>1. \A e : row(e).id = e
  OBVIOUS
<1>2. FacilityRows(ids) = {row(e) : e \in ids}
  BY DEF FacilityRows
<1> HIDE DEF row
<1>3. \A f \in FacilityRows(ids) : f.id \in ids /\ f = row(f.id)
  BY <1>1, <1>2
<1> QED
  BY <1>3

LEMMA AssignedFacilitiesKeep ==
    ASSUME FacilityFiles, PollInv
    PROVE  /\ \A f \in AssignedFacilities : f.id \in Elements
           /\ \A f, g \in AssignedFacilities : f.id = g.id => f = g
<1>1. AssignedFacilities = Dated(facilities, Kept(events))
  BY AssignmentShape
<1>2. \A f \in AssignedFacilities : \E g \in facilities : f = DatedRow(g, Kept(events))
  BY <1>1 DEF Dated, PlacedRows
<1>3. \A g \in facilities : DatedRow(g, Kept(events)).id = g.id
  BY DatedFacility DEF PollInv
<1>4. \A f \in AssignedFacilities : \E g \in facilities : f = DatedRow(g, Kept(events)) /\ f.id = g.id
  BY <1>2, <1>3
<1> QED
  BY <1>4 DEF FacilityFiles

LEMMA FacilitiesStayUnique ==
    ASSUME FilesInv, PollInv, [Next]_vars
    PROVE  FacilityFiles'
<1>1. FacilityFiles /\ SnapshotFiles
  BY FilesParts
<1>2. CASE facilities' = facilities
  BY <1>1, <1>2 DEF FacilityFiles
<1>3. CASE facilities' = AssignedFacilities
  BY <1>1, <1>3, AssignedFacilitiesKeep DEF FacilityFiles
<1>4. CASE FetchSnapshot /\ facilities' # facilities
  <2>1. /\ snapshot_cache' = SnapshotCaching(UncachedTiles)
        /\ facilities' = FacilityRows(Snapshot(snapshot_cache'))
    BY <1>4 DEF FetchSnapshot
  <2>2. \A t \in SnapshotTiles : snapshot_cache'[t] \subseteq Elements
    BY <1>1, <2>1, SnapshotCachingKeeps DEF SnapshotFiles, UncachedTiles
  <2>3. Snapshot(snapshot_cache') \in SUBSET Elements
    BY <2>2 DEF Snapshot
  <2> QED
    BY <1>1, <2>1, <2>3, RefetchedFacilities DEF FacilityFiles
<1>5. \/ facilities' = facilities \/ facilities' = AssignedFacilities \/ FetchSnapshot
  BY DEF Next, vars, placed, EditUpstream, Edit, NewDay, StartAnyPoll, StartPoll, FinishPoll,
         FetchSnapshotFails, FetchGrid, FetchGridFails, FetchHistory, FetchHistoryFails,
         OfflineStage, AssignRegions, AssignGridRegions, BuildSeriesStage, AllocatePower,
         BuildSiteData, StageDies, HistoryCutShort, AssignmentCutShort, GridCutShort, SiteCutShort,
         FreshCheckout
<1> QED
  BY <1>2, <1>3, <1>4, <1>5

LEMMA GridStaysUnique ==
    ASSUME FilesInv, [Next]_vars
    PROVE  GridFiles'
<1>1. GridFiles
  BY FilesParts
<1>2. CASE grid' = grid
  BY <1>1, <1>2 DEF GridFiles
<1>3. CASE FetchGrid /\ grid' # grid
  <2>1. PICK assets \in SUBSET DOMAIN Assets :
            grid' = {[id |-> a, county |-> NoCounty] : a \in assets}
    BY <1>3 DEF FetchGrid
  <2> QED
    BY <2>1 DEF GridFiles
<1>4. CASE grid' = AssignedGrid
  <2> DEFINE placedRow(r) == [r EXCEPT !.county = CountyOf[r.id]]
  <2>1. grid' = {placedRow(r) : r \in grid}
    BY <1>4 DEF AssignedGrid
  <2>2. \A r \in grid : placedRow(r) = [id |-> r.id, county |-> CountyOf[r.id]]
    BY <1>1 DEF GridFiles
  <2> HIDE DEF placedRow
  <2>3. \A s \in grid' : \E r \in grid : s = [id |-> r.id, county |-> CountyOf[r.id]]
    BY <2>1, <2>2
  <2>4. \A s \in grid' : \E r \in grid :
            s = [id |-> s.id, county |-> s.county] /\ s.id = r.id /\ s.county = CountyOf[s.id]
    BY <2>3
  <2>5. \A s \in grid' : s.id \in DOMAIN Assets /\ s.county \in Counties \cup {NoCounty}
    BY <1>1, <2>4, TheMapIsFinite DEF GridFiles
  <2>6. \A r, s \in grid' : r.id = s.id => r = s
    BY <2>4
  <2> QED
    BY <2>4, <2>5, <2>6 DEF GridFiles
<1>5. grid' = grid \/ FetchGrid \/ grid' = AssignedGrid
  BY DEF Next, vars, layers, EditUpstream, Edit, NewDay, StartAnyPoll, StartPoll, FinishPoll,
         FetchSnapshot, FetchSnapshotFails, FetchGridFails, FetchHistory, FetchHistoryFails,
         OfflineStage, AssignRegions, AssignGridRegions, BuildSeriesStage, AllocatePower,
         BuildSiteData, StageDies, HistoryCutShort, AssignmentCutShort, GridCutShort,
         SiteCutShort, FreshCheckout
<1> QED
  BY <1>2, <1>3, <1>4, <1>5

SeriesFilesAgree == SeriesAgrees(series)

LEMMA SeriesStaysAgreed ==
    ASSUME FilesInv, HistoryInv, PollInv, [Next]_vars
    PROVE  SeriesFilesAgree'
<1>1. SeriesAgrees(series)
  BY FilesParts
<1>2. CASE series' = series
  BY <1>1, <1>2 DEF SeriesFilesAgree
<1>3. CASE BuildSeriesStage /\ series' # series
  <2>1. /\ poll # NoPoll /\ poll.stages # <<>> /\ Head(poll.stages) = "build_series"
        /\ PlacedRows(events) # {} /\ series' = BuildSeries(events, facilities)
    BY <1>3 DEF BuildSeriesStage, Running
  <2>2. poll.stages = FromSeries
    BY <2>1, NextStage, OfflineInOrder DEF FetchNames
  <2>3. IsAssigned(facilities, events)
    BY <2>1, <2>2, StagesDiffer DEF PollInv, Progress
  <2>4. IsHistory(events)
    BY <2>1, <2>3, AssignedHistory
  <2>5. SeriesAgrees(BuildSeries(events, facilities))
    BY <2>4, SeriesAddsUp DEF SeriesAgrees
  <2> QED
    BY <2>1, <2>5 DEF SeriesFilesAgree
<1>4. series' = series \/ BuildSeriesStage
  BY DEF Next, vars, layers, EditUpstream, Edit, NewDay, StartAnyPoll, StartPoll,
         FinishPoll, FetchSnapshot, FetchSnapshotFails, FetchGrid, FetchGridFails, FetchHistory,
         FetchHistoryFails, OfflineStage, AssignRegions, AssignGridRegions, AllocatePower,
         BuildSiteData, StageDies, FreshCheckout
<1> QED
  BY <1>2, <1>3, <1>4

LEMMA FilesStep ==
    ASSUME HistoryInv, PollInv, FilesInv, [Next]_vars
    PROVE  FilesInv'
<1>1. /\ IsFiniteSet(edits') /\ SnapshotFiles' /\ FacilityFiles' /\ GridFiles'
      /\ SeriesFilesAgree'
  BY EditsStayFinite, SnapshotStaysOfElements, FacilitiesStayUnique, GridStaysUnique,
     SeriesStaysAgreed
<1> QED
  BY <1>1 DEF FilesInv, SnapshotFiles, FacilityFiles, GridFiles, SeriesFilesAgree

\* When a poll exits with 0, what it published agrees with itself, whatever was fetched,
\* torn or tolerated: the counties and the states that allocate_power.py writes partition
\* the placed rows; build_site_data.py has run on files of one assignment, merges the
\* grid's totals into the regions that have a facility and lists the newest changes; and,
\* at any time, build_series.py has counted each event in one county, in its state and in
\* the nation, a region's last count carried forward.
THEOREM PublishedInAgreement == Spec => []PublishedAgrees
<1>1. Init => HistoryInv /\ PollInv /\ FilesInv
  BY InitialHistory, InitialPoll, InitialFiles
<1>2. HistoryInv /\ PollInv /\ FilesInv /\ [Next]_vars => (HistoryInv /\ PollInv /\ FilesInv)'
  BY HistoryStep, PollStep, FilesStep
<1>3. HistoryInv /\ PollInv /\ FilesInv => PublishedAgrees
  <2> SUFFICES ASSUME HistoryInv, PollInv, FilesInv PROVE PublishedAgrees
    OBVIOUS
  <2>1. SeriesAgrees(series)
    BY DEF FilesInv
  <2>2. ASSUME PollPublished PROVE PlacesAgree(site, poll.failed)
    <3>1. poll # NoPoll /\ poll.stages = <<>> /\ poll.failed \subseteq TOLERATED_FAILURES
      BY <2>2 DEF PollPublished, ExitStatus
    <3>2. /\ IsAssigned(facilities, events) /\ Powered(facilities, regions)
          /\ GridBuilt(poll.failed) /\ site = SiteOf
      BY <3>1 DEF PollInv, Progress
    <3>3. PlacesAgree(SiteOf, poll.failed)
      BY <3>2, SiteOfAgrees
    <3> QED
      BY <3>2, <3>3
  <2> QED
    BY <2>1, <2>2, PublishedParts
<1> QED
  BY <1>1, <1>2, <1>3, PTL DEF Spec
=============================================================================
