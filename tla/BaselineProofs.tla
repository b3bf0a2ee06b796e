--------------------------- MODULE BaselineProofs ---------------------------
(***************************************************************************)
(* Theorems about AmountBaseline, for any histories.  What is shown of     *)
(* sums holds for every number of records: it is proved by induction, with *)
(* the set of the numbers that a statement holds for.                      *)
(***************************************************************************)
EXTENDS AmountBaseline, RiskProofs, FiniteSetTheorems

-----------------------------------------------------------------------------
(* Induction *)

\* A set of naturals that contains 0 and the successor of each of its members
\* contains them all: no map from the members up to a natural outside the set into
\* the positive ones of them is injective, and the successor is.
LEMMA Induction ==
  ASSUME NEW S \in SUBSET Nat, 0 \in S, \A n \in S : n + 1 \in S
  PROVE  S = Nat
<1> SUFFICES ASSUME NEW m \in Nat, m \notin S PROVE FALSE
  OBVIOUS
<1> DEFINE below == S \cap 0 .. m
           above == below \ {0}
           next == [n \in below |-> n + 1]
<1>1. IsFiniteSet(below) /\ IsFiniteSet(above) /\ Cardinality(above) < Cardinality(below)
  <2>1. IsFiniteSet(0 .. m)
    BY FS_Interval
  <2>2. IsFiniteSet(below)
    BY <2>1, FS_Subset
  <2>3. 0 \in below
    OBVIOUS
  <2>4. IsFiniteSet(above) /\ Cardinality(above) = Cardinality(below) - 1
    <3> HIDE DEF below
    <3> QED BY <2>2, <2>3, FS_RemoveElement
  <2>5. QED
    <3> HIDE DEF below
    <3> QED BY <2>2, <2>4, FS_CardinalityType
<1>2. next \in [below -> above]
  OBVIOUS
<1>3. \E x, y \in below : x # y /\ next[x] = next[y]
  <2> HIDE DEF next, below, above
  <2> QED BY <1>1, <1>2, FS_PigeonHole
<1>4. QED
  BY <1>3

\* The element that a fold takes from a set first.
First(set) == CHOOSE x \in set : TRUE

\* Without it, a finite set has one element less.
LEMMA WithoutFirst ==
  ASSUME NEW T, IsFiniteSet(T), T # {}
  PROVE  /\ First(T) \in T
         /\ IsFiniteSet(T \ {First(T)})
         /\ Cardinality(T) \in Nat
         /\ Cardinality(T \ {First(T)}) = Cardinality(T) - 1
<1>1. First(T) \in T
  BY DEF First
<1>2. QED
  BY <1>1, FS_RemoveElement, FS_CardinalityType

\* A family of subsets of a finite set contains the whole set if it contains the
\* empty set, and every other one whenever it contains that set without its first
\* element.
LEMMA SetInduction ==
  ASSUME NEW S, IsFiniteSet(S), NEW family,
         {} \in family,
         \A T \in SUBSET S : T # {} /\ T \ {First(T)} \in family => T \in family
  PROVE  SUBSET S \subseteq family
<1> DEFINE OfSize(n) == {T \in SUBSET S : Cardinality(T) = n}
           sizes == {n \in Nat : OfSize(n) \subseteq family}
<1>1. ASSUME NEW T \in SUBSET S PROVE IsFiniteSet(T) /\ Cardinality(T) \in Nat
  BY FS_Subset, FS_CardinalityType
<1>2. 0 \in sizes
  BY <1>1, FS_EmptySet
<1>3. ASSUME NEW n \in sizes PROVE n + 1 \in sizes
  <2> SUFFICES ASSUME NEW T \in SUBSET S, Cardinality(T) = n + 1
               PROVE  T \in family
    OBVIOUS
  <2>1. n \in Nat /\ OfSize(n) \subseteq family
    OBVIOUS
  <2>2. T # {}
    <3>1. Cardinality({}) = 0
      BY FS_EmptySet
    <3>2. QED
      BY <2>1, <3>1
  <2>3. Cardinality(T \ {First(T)}) = Cardinality(T) - 1
    BY <1>1, <2>2, WithoutFirst
  <2>4. Cardinality(T \ {First(T)}) = n
    BY <2>1, <2>3
  <2>5. T \ {First(T)} \in OfSize(n)
    BY <2>4
  <2>6. QED
    BY <2>1, <2>2, <2>5
<1>4. sizes = Nat
  <2> HIDE DEF sizes
  <2>1. sizes \in SUBSET Nat
    BY DEF sizes
  <2> QED BY <1>2, <1>3, <2>1, Induction
<1>5. QED
  BY <1>1, <1>4

-----------------------------------------------------------------------------
(* Sums *)

\* The equation of the fold that SumFunction is.
Sums(f, sum) ==
    sum = [T \in SUBSET DOMAIN f |->
              IF T = {} THEN 0 ELSE f[First(T)] + sum[T \ {First(T)}]]

\* The equation has a solution.
LEMMA SumsExist ==
  ASSUME NEW f, IsFiniteSet(DOMAIN f)
  PROVE  \E sum : Sums(f, sum)
<1> DEFINE S == DOMAIN f
           UpTo(n) == {T \in SUBSET S : Cardinality(T) <= n}
           Partial(n, sum) ==
               sum = [T \in UpTo(n) |-> IF T = {} THEN 0 ELSE f[First(T)] + sum[T \ {First(T)}]]
           sizes == {n \in Nat : \E sum : Partial(n, sum)}
<1>1. ASSUME NEW T \in SUBSET S PROVE IsFiniteSet(T) /\ Cardinality(T) \in Nat
  BY FS_Subset, FS_CardinalityType
<1>2. ASSUME NEW T \in SUBSET S, T # {}
      PROVE  /\ T \ {First(T)} \in SUBSET S
             /\ Cardinality(T \ {First(T)}) = Cardinality(T) - 1
  BY <1>1, <1>2, WithoutFirst
<1>3. 0 \in sizes
  <2>1. \A T \in UpTo(0) : T = {}
    BY <1>1, FS_EmptySet
  <2>2. Partial(0, [T \in UpTo(0) |-> 0])
    BY <2>1
  <2>3. QED
    BY <2>2
<1>4. ASSUME NEW n \in sizes PROVE n + 1 \in sizes
  <2>1. n \in Nat
    OBVIOUS
  <2>2. PICK sum : Partial(n, sum)
    OBVIOUS
  <2> DEFINE more == [T \in UpTo(n + 1) |->
                         IF T = {} THEN 0 ELSE f[First(T)] + sum[T \ {First(T)}]]
  <2>3. ASSUME NEW T \in UpTo(n) PROVE more[T] = sum[T]
    <3>1. T \in UpTo(n + 1)
      BY <1>1, <2>1
    <3>2. QED
      BY <2>2, <3>1
  <2>4. ASSUME NEW T \in UpTo(n + 1), T # {} PROVE T \ {First(T)} \in UpTo(n)
    BY <1>1, <1>2, <2>1, <2>4
  <2>5. Partial(n + 1, more)
    BY <2>3, <2>4
  <2>6. n + 1 \in Nat /\ \E next : Partial(n + 1, next)
    <3> HIDE DEF Partial, more
    <3> QED BY <2>1, <2>5
  <2>7. QED
    BY <2>6
<1>5. sizes = Nat
  <2> HIDE DEF sizes
  <2>1. sizes \in SUBSET Nat
    BY DEF sizes
  <2> QED BY <1>3, <1>4, <2>1, Induction
<1>6. Cardinality(S) \in Nat /\ UpTo(Cardinality(S)) = SUBSET S
  BY <1>1, FS_Subset
<1>7. PICK sum : Partial(Cardinality(S), sum)
  BY <1>5, <1>6
<1>8. QED
  BY <1>6, <1>7 DEF Sums

\* SumFunction is its value at the whole domain.
LEMMA SumIsFold ==
  ASSUME NEW f, IsFiniteSet(DOMAIN f)
  PROVE  \E sum : Sums(f, sum) /\ SumFunction(f) = sum[DOMAIN f]
<1> DEFINE fold == CHOOSE sum : Sums(f, sum)
<1>1. Sums(f, fold)
  BY SumsExist
<1>2. SumFunction(f) = fold[DOMAIN f]
  BY DEF SumFunction, SumFunctionOnSet, FoldFunctionOnSet, MapThenFoldSet, Sums, First
<1>3. QED
  BY <1>1, <1>2

\* A sum without elements is 0, another one is its first element and the rest.
LEMMA Unfold ==
  ASSUME NEW f, NEW sum, Sums(f, sum)
  PROVE  /\ sum[{}] = 0
         /\ \A T \in SUBSET DOMAIN f : T # {} =>
               sum[T] = f[First(T)] + sum[T \ {First(T)}]
BY DEF Sums

\* Amounts that are multiples of c add up to a multiple of c.
LEMMA SumOfMultiples ==
  ASSUME NEW S, IsFiniteSet(S), NEW c \in Nat, NEW f \in [S -> Nat],
         \A i \in S : \E k \in Nat : f[i] = c * k,
         NEW sum, Sums(f, sum)
  PROVE  \A T \in SUBSET S : sum[T] \in Nat /\ \E k \in Nat : sum[T] = c * k
<1> DEFINE family == {T \in SUBSET S : sum[T] \in Nat /\ \E k \in Nat : sum[T] = c * k}
<1>1. {} \in family
  <2>1. sum[{}] = c * 0
    BY Unfold
  <2>2. QED
    BY <2>1
<1>2. ASSUME NEW T \in SUBSET S, T # {}, T \ {First(T)} \in family
      PROVE  T \in family
  <2>1. First(T) \in S
    BY <1>2 DEF First
  <2>2. PICK j \in Nat : f[First(T)] = c * j
    BY <2>1
  <2>3. PICK k \in Nat : sum[T \ {First(T)}] = c * k
    BY <1>2
  <2>4. sum[T] = f[First(T)] + sum[T \ {First(T)}]
    BY <1>2, Unfold
  <2>5. c * j + c * k = c * (j + k) /\ c * (j + k) \in Nat
    OBVIOUS
  <2>6. sum[T] = c * (j + k) /\ j + k \in Nat
    BY <2>2, <2>3, <2>4, <2>5
  <2>7. QED
    BY <2>5, <2>6
<1>3. QED
  <2> HIDE DEF family
  <2>1. SUBSET S \subseteq family
    BY <1>1, <1>2, SetInduction
  <2>2. QED
    BY <2>1 DEF family

-----------------------------------------------------------------------------
(* Deviations *)

\* Distance is a distance.
LEMMA DistanceFacts ==
  ASSUME NEW a \in Int, NEW b \in Int
  PROVE  /\ Distance(a, b) \in Nat
         /\ Distance(a, b) = a - b \/ Distance(a, b) = b - a
BY DEF Distance

\* However far the sum of the amounts in T is from as many means t/n, their
\* distances from the mean add up to at least that, and those of the other ones if
\* one of them is left out.
Covered(T, n, t, a, sumA, d, sumD) ==
    /\ sumA[T] \in Nat /\ sumD[T] \in Nat
    /\ n * sumA[T] - Cardinality(T) * t \in -sumD[T] .. sumD[T]
    /\ \A i \in T : n * sumA[T] - Cardinality(T) * t - (n * a[i] - t)
                       \in -(sumD[T] - d[i]) .. sumD[T] - d[i]

\* It holds of every set of amounts.
LEMMA DeviationsCover ==
  ASSUME NEW S, IsFiniteSet(S), NEW n \in Nat, NEW t \in Nat,
         NEW a \in [S -> Nat], NEW sumA, Sums(a, sumA),
         NEW d, DOMAIN d = S, \A i \in S : d[i] = Distance(n * a[i], t),
         NEW sumD, Sums(d, sumD)
  PROVE  \A T \in SUBSET S : Covered(T, n, t, a, sumA, d, sumD)
<1> DEFINE Excess(T) == n * sumA[T] - Cardinality(T) * t
           Own(i) == n * a[i] - t
           Cover(T) ==
              /\ sumA[T] \in Nat /\ sumD[T] \in Nat
              /\ Excess(T) \in -sumD[T] .. sumD[T]
              /\ \A i \in T : Excess(T) - Own(i) \in -(sumD[T] - d[i]) .. sumD[T] - d[i]
           family == {T \in SUBSET S : Cover(T)}
<1>1. ASSUME NEW i \in S
      PROVE  /\ a[i] \in Nat /\ Own(i) \in Int /\ d[i] \in Nat
             /\ d[i] = Own(i) \/ d[i] = -Own(i)
  <2>1. a[i] \in Nat /\ n * a[i] \in Int
    OBVIOUS
  <2>2. d[i] = Distance(n * a[i], t)
    OBVIOUS
  <2>3. /\ Distance(n * a[i], t) \in Nat
        /\ Distance(n * a[i], t) = n * a[i] - t \/ Distance(n * a[i], t) = t - n * a[i]
    BY <2>1, DistanceFacts
  <2>4. QED
    BY <2>1, <2>2, <2>3
<1>2. {} \in family
  <2>1. sumA[{}] = 0 /\ sumD[{}] = 0
    BY Unfold
  <2>2. Cardinality({}) = 0
    BY FS_EmptySet
  <2>3. Excess({}) = 0
    BY <2>1, <2>2
  <2>4. QED
    BY <2>1, <2>3
<1>3. ASSUME NEW T \in SUBSET S, T # {}, T \ {First(T)} \in family
      PROVE  T \in family
  <2> DEFINE x == First(T)
             rest == T \ {First(T)}
  <2>1. x \in S /\ x \in T /\ T = rest \cup {x}
    BY <1>3 DEF First
  <2>2. Cardinality(rest) \in Nat /\ Cardinality(T) = Cardinality(rest) + 1
    <3>1. IsFiniteSet(T)
      BY FS_Subset
    <3>2. /\ Cardinality(T) \in Nat /\ IsFiniteSet(rest)
          /\ Cardinality(rest) = Cardinality(T) - 1
      BY <1>3, <3>1, WithoutFirst
    <3>3. Cardinality(rest) \in Nat
      BY <3>2, FS_CardinalityType
    <3>4. QED
      BY <3>2, <3>3
  <2>3. Cover(rest)
    BY <1>3
  <2>4. sumA[T] = a[x] + sumA[rest] /\ sumD[T] = d[x] + sumD[rest]
    <3>1. DOMAIN a = S /\ DOMAIN d = S
      OBVIOUS
    <3>2. sumA[T] = a[x] + sumA[rest]
      BY <1>3, <3>1, Unfold
    <3>3. sumD[T] = d[x] + sumD[rest]
      BY <1>3, <3>1, Unfold
    <3>4. QED
      BY <3>2, <3>3
  <2>5. Excess(T) = Excess(rest) + Own(x) /\ Excess(rest) \in Int
    <3>1. n * (a[x] + sumA[rest]) = n * a[x] + n * sumA[rest]
      BY <1>1, <2>1, <2>3
    <3>2. (Cardinality(rest) + 1) * t = Cardinality(rest) * t + t
      BY <2>2
    <3>3. QED
      BY <1>1, <2>1, <2>2, <2>3, <2>4, <3>1, <3>2
  <2>6. Cover(T)
    <3> HIDE DEF Excess, Own, x, rest
    <3>1. sumA[T] \in Nat /\ sumD[T] \in Nat
      BY <1>1, <2>1, <2>3, <2>4
    <3>2. Excess(T) \in -sumD[T] .. sumD[T]
      BY <1>1, <2>1, <2>3, <2>4, <2>5
    <3>3. ASSUME NEW i \in T
          PROVE  Excess(T) - Own(i) \in -(sumD[T] - d[i]) .. sumD[T] - d[i]
      <4>1. CASE i = x
        BY <1>1, <2>1, <2>3, <2>4, <2>5, <4>1
      <4>2. CASE i \in rest
        <5>1. i \in S /\ Excess(rest) - Own(i) \in -(sumD[rest] - d[i]) .. sumD[rest] - d[i]
          BY <2>3, <4>2
        <5>2. QED
          BY <1>1, <2>1, <2>3, <2>4, <2>5, <5>1
      <4>3. QED
        BY <2>1, <4>1, <4>2
    <3>4. QED
      BY <3>1, <3>2, <3>3
  <2>7. QED
    BY <2>6
<1>4. SUBSET S \subseteq family
  <2> HIDE DEF family
  <2> QED BY <1>2, <1>3, SetInduction
<1>5. QED
  BY <1>4 DEF Covered

\* No amount is further from the mean than half the sum of all distances.
LEMMA HalfOfDeviations ==
  ASSUME NEW S, IsFiniteSet(S), NEW a \in [S -> Nat], NEW i \in S
  PROVE  LET n == Cardinality(S)
             t == SumFunction(a)
             d == [j \in S |-> Distance(n * a[j], t)]
         IN  /\ n \in Nat /\ t \in Nat /\ d[i] \in Nat /\ SumFunction(d) \in Nat
             /\ 2 * d[i] <= SumFunction(d)
<1> DEFINE n == Cardinality(S)
           t == SumFunction(a)
           d == [j \in S |-> Distance(n * a[j], t)]
<1>1. n \in Nat
  BY FS_CardinalityType
<1>2. PICK sumA : Sums(a, sumA) /\ t = sumA[S]
  BY SumIsFold
<1>3. PICK sumD : Sums(d, sumD) /\ SumFunction(d) = sumD[S]
  BY SumIsFold
<1>4. t \in Nat
  <2> DEFINE unit == 1
  <2>1. unit \in Nat /\ \A j \in S : \E k \in Nat : a[j] = unit * k
    OBVIOUS
  <2>2. QED
    <3> HIDE DEF unit, t
    <3> QED BY <1>2, <2>1, SumOfMultiples
<1>5. /\ sumD[S] \in Nat
      /\ n * sumA[S] - Cardinality(S) * t - (n * a[i] - t) \in -(sumD[S] - d[i]) .. sumD[S] - d[i]
  <2>1. DOMAIN d = S /\ \A j \in S : d[j] = Distance(n * a[j], t)
    OBVIOUS
  <2>2. Covered(S, n, t, a, sumA, d, sumD)
    <3> HIDE DEF n, t, d
    <3> QED BY <1>1, <1>2, <1>3, <1>4, <2>1, DeviationsCover
  <2>3. QED
    <3> HIDE DEF n, t, d
    <3> QED BY <2>2 DEF Covered
<1>6. n * sumA[S] - Cardinality(S) * t = 0
  <2>1. n * t - n * t = 0
    BY <1>1, <1>4
  <2>2. QED
    BY <1>2, <2>1
<1>7. d[i] \in Nat /\ (d[i] = n * a[i] - t \/ d[i] = t - n * a[i])
  <2>1. n * a[i] \in Int /\ d[i] = Distance(n * a[i], t)
    <3> HIDE DEF n
    <3> QED BY <1>1
  <2>2. QED
    <3> HIDE DEF n, t, d
    <3> QED BY <1>4, <2>1, DistanceFacts
<1>8. 2 * d[i] <= sumD[S]
  <2> HIDE DEF n, t, d
  <2> QED BY <1>1, <1>4, <1>5, <1>6, <1>7
<1>9. QED
  BY <1>1, <1>3, <1>4, <1>5, <1>7, <1>8

-----------------------------------------------------------------------------
(* Rounding *)

\* The quotient is the whole part of the fraction.
LEMMA Quotient ==
  ASSUME NEW x \in Nat, NEW y \in Nat, y > 0
  PROVE  x \div y \in Int /\ y * (x \div y) <= x /\ x < y * (x \div y) + y
OBVIOUS

\* The rounded value of a fraction is at most half a unit from it.
LEMMA RoundBounds ==
  ASSUME NEW num \in Nat, NEW den \in Nat \ {0}
  PROVE  /\ RoundHalfUp(num, den) \in Nat
         /\ 2 * den * RoundHalfUp(num, den) <= 2 * num + den
         /\ 2 * num + den < 2 * den * RoundHalfUp(num, den) + 2 * den
<1> DEFINE x == 2 * num + den
           y == 2 * den
           q == x \div y
<1>1. x \in Nat /\ y \in Nat /\ y > 0
  OBVIOUS
<1>2. q \in Int /\ y * q <= x /\ x < y * q + y
  <2> HIDE DEF x, y
  <2> QED BY <1>1, Quotient
<1>3. q >= 0
  <2> HIDE DEF x, y, q
  <2> QED BY <1>1, <1>2
<1>4. RoundHalfUp(num, den) = q
  BY DEF RoundHalfUp
<1>5. QED
  <2> HIDE DEF q
  <2> QED BY <1>2, <1>3, <1>4

\* An amount a of n whose mean is t/n, when all their distances from t add up to
\* at least twice its own: the rounded mean is no further from it than three
\* rounded mean deviations, as the distance is either nothing or 50 units.
LEMMA RoundedDeviation ==
  ASSUME NEW n \in 1 .. 5, NEW a \in Nat, NEW t \in Nat, NEW all \in Nat,
         NEW own, own = Distance(n * a, t),
         2 * own <= all, own = 0 \/ own >= 50,
         NEW mean, mean = RoundHalfUp(t, n),
         NEW dispersion, dispersion = RoundHalfUp(all, n * n)
  PROVE  /\ mean \in Nat /\ dispersion \in Nat
         /\ Distance(a, mean) <= 3 * dispersion
<1>1. n * a \in Nat /\ n * n \in {1, 4, 9, 16, 25}
  <2>1. n = 1 \/ n = 2 \/ n = 3 \/ n = 4 \/ n = 5
    OBVIOUS
  <2>2. QED
    BY <2>1
<1>2. /\ mean \in Nat
      /\ 2 * n * mean <= 2 * t + n
      /\ 2 * t + n < 2 * n * mean + 2 * n
  <2>1. n \in Nat \ {0}
    OBVIOUS
  <2>2. QED
    BY <2>1, RoundBounds
<1>3. /\ dispersion \in Nat
      /\ 2 * (n * n) * dispersion <= 2 * all + n * n
      /\ 2 * all + n * n < 2 * (n * n) * dispersion + 2 * (n * n)
  <2> DEFINE nn == n * n
  <2>1. nn \in Nat \ {0}
    BY <1>1
  <2>2. QED
    <3> HIDE DEF nn
    <3> QED BY <2>1, RoundBounds DEF nn
<1>4. own \in Nat /\ (own = n * a - t \/ own = t - n * a)
  BY <1>1, DistanceFacts
<1>5. a - mean <= 3 * dispersion /\ mean - a <= 3 * dispersion
  <2>1. CASE n = 1
    BY <2>1, <1>2, <1>3, <1>4
  <2>2. CASE n = 2
    BY <2>2, <1>2, <1>3, <1>4
  <2>3. CASE n = 3
    BY <2>3, <1>2, <1>3, <1>4
  <2>4. CASE n = 4
    BY <2>4, <1>2, <1>3, <1>4
  <2>5. CASE n = 5
    BY <2>5, <1>2, <1>3, <1>4
  <2>6. QED
    BY <2>1, <2>2, <2>3, <2>4, <2>5
<1>6. QED
  BY <1>2, <1>3, <1>5 DEF Distance

-----------------------------------------------------------------------------
(* The baseline of a customer *)

\* Differences of whole cents are nothing or at least 50 units.
LEMMA WholeCents ==
  ASSUME NEW n \in Nat, NEW j \in Nat, NEW k \in Nat
  PROVE  Distance(n * (Cent * j), Cent * k) = 0 \/ Distance(n * (Cent * j), Cent * k) >= 50
<1> DEFINE x == n * j - k
<1>1. Cent \in Nat /\ Cent >= 50
  BY BaselineAssumption, RiskAssumption DEF Cent
<1>2. x \in Int /\ n * (Cent * j) - Cent * k = Cent * x
  BY <1>1
<1>3. n * (Cent * j) \in Int /\ Cent * k \in Int
  BY <1>1
<1>4. Cent * x = 0 \/ Cent * x >= 50 \/ Cent * x <= -50
  <2> HIDE DEF x
  <2>1. CASE x = 0
    BY <1>1, <2>1
  <2>2. CASE x >= 1
    BY <1>1, <1>2, <2>2
  <2>3. CASE x <= -1
    BY <1>1, <1>2, <2>3
  <2>4. QED
    BY <1>2, <2>1, <2>2, <2>3
<1>5. QED
  <2> DEFINE u == n * (Cent * j)
             v == Cent * k
  <2>1. u \in Int /\ v \in Int /\ (u - v = 0 \/ u - v >= 50 \/ u - v <= -50)
    BY <1>2, <1>3, <1>4
  <2>2. Distance(u, v) = 0 \/ Distance(u, v) >= 50
    <3> HIDE DEF u, v
    <3> QED BY <2>1 DEF Distance
  <2>3. QED
    BY <2>2

\* A customer's amounts are whole cents, and so is their sum.
LEMMA CustomerAmounts ==
  ASSUME NEW records \in Histories, NEW customer
  PROVE  LET a == AmountsOf(records, customer)
         IN  /\ IsFiniteSet(DOMAIN a)
             /\ a \in [DOMAIN a -> Nat]
             /\ \A i \in DOMAIN a : \E k \in Nat : a[i] = Cent * k
             /\ \E k \in Nat : SumFunction(a) = Cent * k
<1> DEFINE a == AmountsOf(records, customer)
           S == DOMAIN a
<1>1. Cent \in Nat \ {0}
  BY BaselineAssumption, RiskAssumption DEF Cent
<1>2. IsFiniteSet(S)
  BY BaselineAssumption, FS_Subset DEF AmountsOf
<1>3. ASSUME NEW i \in S
      PROVE  a[i] \in Nat /\ \E k \in Nat : a[i] = Cent * k
  <2>1. i \in DOMAIN records /\ a[i] = records[i].amount
    BY DEF AmountsOf
  <2>2. a[i] \in Nat /\ a[i] = Cent * (a[i] \div Cent)
    BY <2>1, BaselineAssumption
  <2>3. a[i] \div Cent \in Nat
    <3> HIDE DEF a, S
    <3> QED BY <1>1, <2>2
  <2>4. QED
    BY <2>2, <2>3
<1>4. a \in [S -> Nat]
  BY <1>3 DEF AmountsOf
<1>5. \E k \in Nat : SumFunction(a) = Cent * k
  <2> HIDE DEF a
  <2>1. PICK sum : Sums(a, sum) /\ SumFunction(a) = sum[S]
    BY <1>2, SumIsFold
  <2>2. QED
    BY <1>1, <1>2, <1>3, <1>4, <2>1, SumOfMultiples
<1>6. QED
  BY <1>2, <1>3, <1>4, <1>5

\* An amount is not further from the mean of a baseline it belongs to than three
\* mean deviations, if the baseline has five records or less.
LEMMA OwnAmountIsClose ==
  ASSUME NEW records \in Histories, NEW i \in DOMAIN records,
         Cardinality(DOMAIN AmountsOf(records, records[i].customer_id)) <= 5
  PROVE  LET baseline == Baseline(AmountsOf(records, records[i].customer_id))
         IN  /\ baseline.mean \in Nat /\ baseline.dispersion \in Nat
             /\ Distance(records[i].amount, baseline.mean) <= 3 * baseline.dispersion
<1> DEFINE a == AmountsOf(records, records[i].customer_id)
           S == DOMAIN a
           n == Cardinality(S)
           t == SumFunction(a)
           d == [j \in S |-> Distance(n * a[j], t)]
<1>1. i \in S /\ a[i] = records[i].amount
  BY DEF AmountsOf
<1>2. IsFiniteSet(S) /\ a \in [S -> Nat] 
  BY CustomerAmounts
<1>3. n \in 1 .. 5
  <2> HIDE DEF S
  <2>1. n \in Nat /\ n # 0
    BY <1>1, <1>2, FS_CardinalityType, FS_EmptySet
  <2>2. QED
    BY <2>1 DEF S
<1>4. t \in Nat /\ SumFunction(d) \in Nat /\ 2 * d[i] <= SumFunction(d)
  <2> HIDE DEF a, S
  <2> QED BY <1>1, <1>2, HalfOfDeviations
<1>5. d[i] = Distance(n * a[i], t)
  BY <1>1
<1>6. d[i] = 0 \/ d[i] >= 50
  <2>1. PICK j \in Nat : a[i] = Cent * j
    BY <1>1, CustomerAmounts
  <2>2. PICK k \in Nat : t = Cent * k
    BY CustomerAmounts
  <2>3. QED
    <3> HIDE DEF a, S, n, t, d
    <3> QED BY <1>3, <1>5, <2>1, <2>2, WholeCents
<1>7. /\ Baseline(a).mean = RoundHalfUp(t, n)
      /\ Baseline(a).dispersion = RoundHalfUp(SumFunction(d), n * n)
  BY DEF Baseline
<1>8. /\ Baseline(a).mean \in Nat /\ Baseline(a).dispersion \in Nat
      /\ Distance(a[i], Baseline(a).mean) <= 3 * Baseline(a).dispersion
  <2>1. a[i] \in Nat
    BY <1>1, <1>2
  <2> HIDE DEF a, S, n, t, d
  <2>2. QED
    BY <1>3, <1>4, <1>5, <1>6, <1>7, <2>1, RoundedDeviation
<1>9. QED
  BY <1>1, <1>8

\* The deviation rule never fires for an amount that is part of its own baseline,
\* if that has at most five records and the multiplier is 3 or more.
THEOREM OwnHistory == Spec => []OwnHistoryNeverDeviates
<1>1. TypeOK => OwnHistoryNeverDeviates
  <2> SUFFICES ASSUME TypeOK, rules.amount_deviation_multiplier >= 3,
                      NEW records \in Histories, NEW i \in DOMAIN records,
                      Cardinality(DOMAIN AmountsOf(records, records[i].customer_id)) <= 5,
                      records[i].amount = transaction.amount,
                      context.amount_baseline = Baseline(AmountsOf(records, records[i].customer_id))
               PROVE  "AMOUNT_DEVIATION" \notin Reasons(rules, transaction, context)
    BY DEF OwnHistoryNeverDeviates
  <2> DEFINE baseline == context.amount_baseline
             k == rules.amount_deviation_multiplier
  <2>1. /\ baseline.mean \in Nat /\ baseline.dispersion \in Nat
        /\ Distance(transaction.amount, baseline.mean) <= 3 * baseline.dispersion
    BY OwnAmountIsClose
  <2>2. k \in Nat /\ k >= 3
    BY RiskAssumption DEF TypeOK, ValidRules
  <2>3. baseline.dispersion * k >= 3 * baseline.dispersion
    <3> HIDE DEF baseline, k
    <3> QED BY <2>1, <2>2
  <2>4. Distance(transaction.amount, baseline.mean) \in Int
    <3>1. transaction.amount \in Int
      BY RiskAssumption DEF TypeOK, ValidTransaction
    <3>2. QED
      <4> HIDE DEF baseline
      <4> QED BY <2>1, <3>1 DEF Distance
  <2>5. ~ Deviates(rules, transaction, baseline)
    <3>1. baseline.dispersion * k \in Int
      BY <2>1, <2>2
    <3>2. ~ (Distance(transaction.amount, baseline.mean) > baseline.dispersion * k)
      <4> HIDE DEF baseline, k
      <4> QED BY <2>1, <2>3, <2>4, <3>1
    <3>3. QED
      BY <3>2 DEF Deviates
  <2>6. QED
    BY <2>5 DEF Reasons, Active
<1>2. QED
  BY <1>1, TypeCorrect, PTL

-----------------------------------------------------------------------------
(* Ties *)

\* Products of a distance.
LEMMA DistanceTimes ==
  ASSUME NEW n \in Nat, NEW a \in Int, NEW b \in Int
  PROVE  n * Distance(a, b) = Distance(n * a, n * b)
<1>1. CASE n = 0
  BY <1>1 DEF Distance
<1>2. CASE n > 0 /\ a > b
  <2>1. n * a - n * b = n * (a - b) /\ n * (a - b) > 0
    BY <1>2
  <2>2. QED
    BY <1>2, <2>1 DEF Distance
<1>3. CASE n > 0 /\ a <= b
  <2>1. n * b - n * a = n * (b - a) /\ n * (b - a) >= 0
    BY <1>3
  <2>2. QED
    BY <1>3, <2>1 DEF Distance
<1>4. QED
  BY <1>1, <1>2, <1>3

\* Half a unit of the mean moves the distance of an amount by no more.
LEMMA DistanceFromMean ==
  ASSUME NEW n \in Nat \ {0}, NEW a \in Nat, NEW t \in Nat,
         NEW mean, mean = RoundHalfUp(t, n)
  PROVE  /\ 2 * (n * n) * Distance(a, mean) <= 2 * (n * Distance(n * a, t)) + n * n
         /\ 2 * (n * Distance(n * a, t)) <= 2 * (n * n) * Distance(a, mean) + n * n
<1> DEFINE rounded == Distance(a, mean)
           exact == Distance(n * a, t)
<1>1. /\ mean \in Nat
      /\ 2 * n * mean <= 2 * t + n
      /\ 2 * t + n < 2 * n * mean + 2 * n
  BY RoundBounds
<1>2. n * a \in Nat /\ n * mean \in Nat /\ rounded \in Nat /\ exact \in Nat
  <2>1. n * a \in Nat /\ n * mean \in Nat
    BY <1>1
  <2>2. rounded \in Nat
    BY <1>1 DEF Distance
  <2>3. exact \in Nat
    <3> DEFINE x == n * a
    <3>1. x \in Int /\ t \in Int
      BY <2>1
    <3>2. Distance(x, t) \in Nat
      <4> HIDE DEF x
      <4> QED BY <3>1, DistanceFacts
    <3>3. QED
      BY <3>2
  <2>4. QED
    BY <2>1, <2>2, <2>3
<1>3. n * rounded = Distance(n * a, n * mean)
  BY <1>1, DistanceTimes
<1>4. 2 * (n * rounded) <= 2 * exact + n /\ 2 * exact <= 2 * (n * rounded) + n
  <2> DEFINE x == n * a
             m == n * mean
  <2>1. x \in Nat /\ m \in Nat /\ 2 * m <= 2 * t + n /\ 2 * t + n < 2 * m + 2 * n
    BY <1>1, <1>2
  <2>2. 2 * Distance(x, m) <= 2 * Distance(x, t) + n /\ 2 * Distance(x, t) <= 2 * Distance(x, m) + n
    <3> HIDE DEF x, m
    <3> QED BY <2>1 DEF Distance
  <2>3. QED
    BY <1>3, <2>2
<1>5. /\ n * (2 * (n * rounded)) <= n * (2 * exact + n)
      /\ n * (2 * exact) <= n * (2 * (n * rounded) + n)
  <2> DEFINE r == 2 * (n * rounded)
             e == 2 * exact
  <2>1. r \in Nat /\ e \in Nat /\ r <= e + n /\ e <= r + n
    BY <1>2, <1>4
  <2>2. n * r <= n * (e + n) /\ n * e <= n * (r + n)
    <3> HIDE DEF r, e
    <3> QED BY <2>1
  <2>3. QED
    BY <2>2
<1>6. /\ n * (2 * (n * rounded)) = 2 * (n * n) * rounded
      /\ n * (2 * exact + n) = 2 * (n * exact) + n * n
      /\ n * (2 * exact) = 2 * (n * exact)
      /\ n * (2 * (n * rounded) + n) = 2 * (n * n) * rounded + n * n
  <2> HIDE DEF rounded, exact
  <2> QED BY <1>2
<1>7. QED
  BY <1>5, <1>6

\* Beyond the boundary by more than the rounding errors, or within it by as much,
\* the rounded values are on the side of the exact ones.
LEMMA ClearOfTies ==
  ASSUME NEW n \in Nat \ {0}, NEW k \in Nat \ {0}, NEW a \in Nat, NEW t \in Nat, NEW all \in Nat,
         NEW mean, mean = RoundHalfUp(t, n),
         NEW dispersion, dispersion = RoundHalfUp(all, n * n),
         NEW excess, excess = n * Distance(n * a, t) - k * all
  PROVE  /\ 2 * excess > (k + 1) * (n * n) => Distance(a, mean) > dispersion * k
         /\ 2 * excess <= -((k + 1) * (n * n)) => ~ (Distance(a, mean) > dispersion * k)
<1> DEFINE rounded == Distance(a, mean)
           exact == n * Distance(n * a, t)
           nn == n * n
<1>1. nn \in Nat /\ nn > 0
  OBVIOUS
<1>2. /\ dispersion \in Nat
      /\ 2 * nn * dispersion <= 2 * all + nn
      /\ 2 * all + nn < 2 * nn * dispersion + 2 * nn
  <2> HIDE DEF nn
  <2> QED BY <1>1, RoundBounds DEF nn
<1>3. rounded \in Nat /\ exact \in Nat
  <2> DEFINE x == n * a
  <2>1. mean \in Nat /\ x \in Nat
    BY RoundBounds
  <2>2. rounded \in Nat
    BY <2>1 DEF Distance
  <2>3. Distance(x, t) \in Nat
    <3> HIDE DEF x
    <3> QED BY <2>1 DEF Distance
  <2>4. QED
    <3> HIDE DEF rounded
    <3> QED BY <2>2, <2>3
<1>4. 2 * nn * rounded <= 2 * exact + nn /\ 2 * exact <= 2 * nn * rounded + nn
  BY DistanceFromMean
<1>5. /\ k * (2 * nn * dispersion) <= k * (2 * all + nn)
      /\ k * (2 * all - nn) < k * (2 * nn * dispersion)
  <2> DEFINE p == 2 * nn * dispersion
  <2>1. p \in Nat /\ p <= 2 * all + nn /\ 2 * all - nn < p
    <3> HIDE DEF nn
    <3> QED BY <1>1, <1>2
  <2>2. k * p <= k * (2 * all + nn) /\ k * (2 * all - nn) < k * p
    <3> HIDE DEF p, nn
    <3> QED BY <1>1, <2>1
  <2>3. QED
    BY <2>2
<1>6. /\ k * (2 * nn * dispersion) = 2 * nn * (dispersion * k)
      /\ k * (2 * all + nn) = 2 * (k * all) + k * nn
      /\ k * (2 * all - nn) = 2 * (k * all) - k * nn
      /\ (k + 1) * nn = k * nn + nn
      /\ k * all \in Int /\ k * nn \in Int /\ dispersion * k \in Int
  <2> HIDE DEF nn
  <2> QED BY <1>1, <1>2
<1>7. ASSUME 2 * excess > (k + 1) * nn
      PROVE  rounded > dispersion * k
  <2>1. 2 * nn * rounded > 2 * nn * (dispersion * k)
    <3> HIDE DEF nn, rounded, exact
    <3> QED BY <1>1, <1>2, <1>3, <1>4, <1>5, <1>6, <1>7 DEF exact
  <2>2. QED
    <3> HIDE DEF nn, rounded, exact
    <3> QED BY <1>1, <1>3, <1>6, <2>1
<1>8. ASSUME 2 * excess <= -((k + 1) * nn)
      PROVE  ~ (rounded > dispersion * k)
  <2>1. 2 * nn * rounded < 2 * nn * (dispersion * k)
    <3> HIDE DEF nn, rounded, exact
    <3> QED BY <1>1, <1>2, <1>3, <1>4, <1>5, <1>6, <1>8 DEF exact
  <2>2. QED
    <3> HIDE DEF nn, rounded, exact
    <3> QED BY <1>1, <1>3, <1>6, <2>1
<1>9. QED
  BY <1>7, <1>8

\* The sums of a baseline are naturals.
LEMMA BaselineSums ==
  ASSUME NEW records \in Histories, NEW i \in DOMAIN records
  PROVE  LET amounts == AmountsOf(records, records[i].customer_id)
         IN  /\ Cardinality(DOMAIN amounts) \in Nat \ {0}
             /\ SumFunction(amounts) \in Nat
             /\ TotalDeviation(amounts) \in Nat
<1> DEFINE a == AmountsOf(records, records[i].customer_id)
           S == DOMAIN a
<1>1. i \in S
  BY DEF AmountsOf
<1>2. IsFiniteSet(S) /\ a \in [S -> Nat]
  BY CustomerAmounts
<1>3. Cardinality(S) \in Nat \ {0}
  <2> HIDE DEF S
  <2> QED BY <1>1, <1>2, FS_CardinalityType, FS_EmptySet
<1>4. SumFunction(a) \in Nat /\ TotalDeviation(a) \in Nat
  <2>1. TotalDeviation(a)
          = SumFunction([j \in S |-> Distance(Cardinality(S) * a[j], SumFunction(a))])
    BY DEF TotalDeviation
  <2>2. QED
    <3> HIDE DEF a, S
    <3> QED BY <1>1, <1>2, <2>1, HalfOfDeviations
<1>5. QED
  BY <1>3, <1>4

\* A mean deviation of half a unit or more is not rounded away.
LEMMA NotRoundedAway ==
  ASSUME NEW num \in Nat, NEW den \in Nat \ {0}, 2 * num >= den
  PROVE  RoundHalfUp(num, den) > 0
<1> DEFINE q == RoundHalfUp(num, den)
<1>1. q \in Nat /\ 2 * num + den < 2 * den * q + 2 * den
  BY RoundBounds
<1>2. q # 0
  <2> HIDE DEF q
  <2> QED BY <1>1
<1>3. QED
  <2> HIDE DEF q
  <2> QED BY <1>1, <1>2 DEF q

\* The deviation rule decides as exact arithmetic would, except where the exact
\* values are closer to its boundary than the two roundings can move them: for
\* every history, whatever its length, and every multiplier.
THEOREM ClearDecisions == Spec => []RoundingDecidesTiesOnly
<1>1. TypeOK => RoundingDecidesTiesOnly
  <2> SUFFICES ASSUME TypeOK, NEW records \in Histories, NEW i \in DOMAIN records,
                      context.amount_baseline
                          = Baseline(AmountsOf(records, records[i].customer_id))
               PROVE  LET amounts == AmountsOf(records, records[i].customer_id)
                          n == Cardinality(DOMAIN amounts)
                          k == rules.amount_deviation_multiplier
                          excess == ExactExcess(amounts, transaction.amount, k)
                          flagged == "AMOUNT_DEVIATION" \in Reasons(rules, transaction, context)
                      IN  /\ /\ 2 * excess > (k + 1) * (n * n)
                             /\ n >= rules.amount_deviation_min_samples
                             /\ 2 * TotalDeviation(amounts) >= n * n
                             => flagged
                          /\ 2 * excess <= -((k + 1) * (n * n)) => ~ flagged
    BY DEF RoundingDecidesTiesOnly
  <2> DEFINE amounts == AmountsOf(records, records[i].customer_id)
             n == Cardinality(DOMAIN amounts)
             t == SumFunction(amounts)
             all == TotalDeviation(amounts)
             k == rules.amount_deviation_multiplier
             a == transaction.amount
             baseline == context.amount_baseline
             excess == ExactExcess(amounts, a, k)
  <2>1. n \in Nat \ {0} /\ t \in Nat /\ all \in Nat
    BY BaselineSums
  <2>2. k \in Nat \ {0} /\ a \in Nat
    BY RiskAssumption DEF TypeOK, ValidRules, ValidTransaction
  <2>3. /\ baseline.mean = RoundHalfUp(t, n)
        /\ baseline.dispersion = RoundHalfUp(all, n * n)
        /\ baseline.sample_count = n
        /\ excess = n * Distance(n * a, t) - k * all
    BY DEF Baseline, TotalDeviation, ExactExcess
  <2>4. /\ 2 * excess > (k + 1) * (n * n)
               => Distance(a, baseline.mean) > baseline.dispersion * k
        /\ 2 * excess <= -((k + 1) * (n * n))
               => ~ (Distance(a, baseline.mean) > baseline.dispersion * k)
    <3> HIDE DEF n, t, all, k, a, baseline, excess
    <3> QED BY <2>1, <2>2, <2>3, ClearOfTies
  <2>5. 2 * all >= n * n => baseline.dispersion > 0
    <3> DEFINE nn == n * n
    <3>1. nn \in Nat \ {0}
      <4> HIDE DEF n
      <4> QED BY <2>1
    <3>2. 2 * all >= nn => RoundHalfUp(all, nn) > 0
      <4> HIDE DEF nn, all
      <4> QED BY <2>1, <3>1, NotRoundedAway
    <3>3. QED
      BY <2>3, <3>2
  <2>6. baseline # NoBaseline
    <3>1. RoundHalfUp(t, n) \in Nat
      <4> HIDE DEF n, t
      <4> QED BY <2>1, RoundBounds
    <3>2. RoundHalfUp(all, n * n) \in Nat
      <4> DEFINE nn == n * n
      <4>1. nn \in Nat \ {0}
        <5> HIDE DEF n
        <5> QED BY <2>1
      <4>2. RoundHalfUp(all, nn) \in Nat
        <5> HIDE DEF nn, all
        <5> QED BY <2>1, <4>1, RoundBounds
      <4>3. QED
        BY <4>2
    <3>3. baseline \in [mean : Nat, dispersion : Nat, sample_count : Nat]
      <4>1. baseline = [mean |-> RoundHalfUp(t, n), dispersion |-> RoundHalfUp(all, n * n),
                        sample_count |-> n]
        BY DEF Baseline, TotalDeviation
      <4>2. QED
        <5> HIDE DEF n, t, all, baseline
        <5> QED BY <2>1, <3>1, <3>2, <4>1
    <3>4. QED
      BY <3>3, BaselineAssumption
  <2>7. "AMOUNT_DEVIATION" \in Reasons(rules, transaction, context)
          <=> Deviates(rules, transaction, baseline)
    BY DEF Reasons, RuleCodes, Active
  <2>8. QED
    BY <2>3, <2>4, <2>5, <2>6, <2>7 DEF Deviates
<1>2. QED
  BY <1>1, TypeCorrect, PTL
=============================================================================
