-------------------------- MODULE ProfileDutyProofs --------------------------
(***************************************************************************)
(* What a profile's duty owes to its settings, to the sensors and to the   *)
(* cycles before, whatever the settings, edits and readings are: it is a   *)
(* percentage, hysteresis holds it back by less than its width, it never   *)
(* falls where no sensor does and the curve rises, and a PID starts        *)
(* without memory after every edit of its parameters and after every cycle *)
(* that found the profile inactive.                                        *)
(*                                                                         *)
(* The sums over sensors are folds: that a fold over a finite set exists,  *)
(* is a number and grows with its terms is shown by the least size of a    *)
(* set for which it would not be so.                                       *)
(***************************************************************************)
EXTENDS ProfileDuty, FiniteSetTheorems, WellFoundedInduction, TLAPS

-----------------------------------------------------------------------------
(* Sums.  A fold is a recursive function; that there is one, and what it   *)
(* gives, follows from the least size at which it would fail.              *)

\* Natural numbers have a least one among them.
LEMMA LeastNumber ==
    ASSUME NEW S, S \subseteq Nat, S # {}
    PROVE  \E m \in S : \A n \in S : m <= n
<1>1. PICK m \in S : \A n \in S : ~ (<<n, m>> \in OpToRel(<, Nat))
  BY NatLessThanWellFounded, WFMin
<1>2. \A n \in S : ~ (n < m)
  BY <1>1 DEF OpToRel
<1> QED
  BY <1>2

Pick(s) == CHOOSE x \in s : TRUE
Adds(f, g) ==
    g = [s \in SUBSET DOMAIN f |-> IF s = {} THEN 0 ELSE f[Pick(s)] + g[s \ {Pick(s)}]]
Summing(f) == CHOOSE g : Adds(f, g)
Total(f) == Summing(f)[DOMAIN f]

\* The sum of a function's values is what such a function gives for all of them.
LEMMA SumUnfolds == ASSUME NEW f PROVE FoldFunction(+, 0, f) = Total(f)
BY DEF FoldFunction, FoldFunctionOnSet, MapThenFoldSet, Total, Summing, Adds, Pick

\* A set without its picked member is smaller by one.
LEMMA Smaller ==
    ASSUME NEW S, IsFiniteSet(S), NEW s \in SUBSET S, s # {}
    PROVE  /\ Pick(s) \in s /\ s \ {Pick(s)} \in SUBSET S
           /\ Cardinality(s) \in Nat /\ Cardinality(s \ {Pick(s)}) \in Nat
           /\ Cardinality(s \ {Pick(s)}) = Cardinality(s) - 1
<1>1. Pick(s) \in s
  BY DEF Pick
<1>2. IsFiniteSet(s)
  BY FS_Subset
<1> QED
  BY <1>1, <1>2, FS_RemoveElement, FS_CardinalityType

\* There is such a function for every finite domain.
LEMMA SummingExists ==
    ASSUME NEW f, IsFiniteSet(DOMAIN f)
    PROVE  Adds(f, Summing(f))
<1> DEFINE S == DOMAIN f
           Upto(g, n) == \A s \in SUBSET S : Cardinality(s) <= n =>
                             g[s] = IF s = {} THEN 0 ELSE f[Pick(s)] + g[s \ {Pick(s)}]
           Fails == {n \in Nat : ~\E g : g = [s \in SUBSET S |-> g[s]] /\ Upto(g, n)}
<1>0. \A s \in SUBSET S : IsFiniteSet(s) /\ Cardinality(s) \in Nat
  BY FS_Subset, FS_CardinalityType
<1>1. Fails = {}
  <2> SUFFICES ASSUME Fails # {} PROVE FALSE
    OBVIOUS
  <2>1. PICK n \in Fails : \A m \in Fails : n <= m
    BY LeastNumber
  <2>2. n # 0
    <3> DEFINE g == [s \in SUBSET S |-> 0]
    <3>1. \A s \in SUBSET S : Cardinality(s) <= 0 => s = {}
      BY <1>0, FS_EmptySet
    <3>2. g = [s \in SUBSET S |-> g[s]] /\ \A s \in SUBSET S : g[s] = 0
      OBVIOUS
    <3> HIDE DEF g
    <3>3. Upto(g, 0)
      BY <3>1, <3>2
    <3>4. 0 \notin Fails
      BY <3>2, <3>3
    <3> QED
      BY <2>1, <3>4
  <2>3. n \in Nat /\ n - 1 \in Nat /\ n - 1 \notin Fails
    <3>1. n \in Nat
      BY <2>1
    <3> HIDE DEF Fails
    <3> QED
      BY <2>1, <2>2, <3>1
  <2>4. PICK g : g = [s \in SUBSET S |-> g[s]] /\ Upto(g, n - 1)
    BY <2>3
  <2> DEFINE h == [s \in SUBSET S |-> IF s = {} THEN 0
                                      ELSE IF Cardinality(s) = n
                                      THEN f[Pick(s)] + g[s \ {Pick(s)}] ELSE g[s]]
  <2>5. h = [s \in SUBSET S |-> h[s]]
    OBVIOUS
  <2>6. Upto(h, n)
    <3> SUFFICES ASSUME NEW s \in SUBSET S, Cardinality(s) <= n, s # {}
                 PROVE  h[s] = f[Pick(s)] + h[s \ {Pick(s)}]
      BY DEF h
    <3> DEFINE t == s \ {Pick(s)}
    <3>1. /\ t \in SUBSET S /\ Cardinality(t) \in Nat /\ Cardinality(s) \in Nat
          /\ Cardinality(t) = Cardinality(s) - 1
      BY Smaller
    <3>2. Cardinality(t) <= n - 1
      BY <2>3, <3>1
    <3>3. h[t] = g[t]
      <4>1. t = {} => g[t] = 0
        BY <2>4, <3>1, <3>2
      <4> QED
        BY <2>3, <3>1, <3>2, <4>1
    <3>4. CASE Cardinality(s) = n
      BY <3>3, <3>4
    <3>5. CASE Cardinality(s) # n
      <4>1. Cardinality(s) <= n - 1
        BY <2>3, <3>1, <3>5
      <4>2. g[s] = f[Pick(s)] + g[t]
        BY <2>4, <4>1
      <4> QED
        BY <3>3, <3>5, <4>2
    <3> QED
      BY <3>4, <3>5
  <2> QED
    BY <2>1, <2>5, <2>6
<1>2. Cardinality(S) \in Nat /\ Cardinality(S) \notin Fails
  BY <1>0, <1>1
<1>3. PICK g : g = [s \in SUBSET S |-> g[s]] /\ Upto(g, Cardinality(S))
  BY <1>2
<1>4. Adds(f, g)
  <2>1. \A s \in SUBSET S : Cardinality(s) <= Cardinality(S)
    BY FS_Subset
  <2> QED
    BY <1>3, <2>1 DEF Adds
<1> QED
  BY <1>4 DEF Summing

\* A sum of values stays in a set that is closed under adding any of them.
LEMMA SumWithin ==
    ASSUME NEW f, IsFiniteSet(DOMAIN f), NEW V, 0 \in V,
           \A x \in DOMAIN f, v \in V : f[x] + v \in V
    PROVE  Total(f) \in V
<1> DEFINE S == DOMAIN f
           g == Summing(f)
           Fails == {Cardinality(s) : s \in {t \in SUBSET S : g[t] \notin V}}
<1>1. \A s \in SUBSET S : g[s] = IF s = {} THEN 0 ELSE f[Pick(s)] + g[s \ {Pick(s)}]
  BY SummingExists DEF Adds
<1>2. \A s \in SUBSET S : IsFiniteSet(s) /\ Cardinality(s) \in Nat
  BY FS_Subset, FS_CardinalityType
<1> HIDE DEF g
<1>3. Fails = {}
  <2> SUFFICES ASSUME Fails # {} PROVE FALSE
    OBVIOUS
  <2>1. PICK n \in Fails : \A m \in Fails : n <= m
    BY <1>2, LeastNumber
  <2>2. PICK s \in SUBSET S : n = Cardinality(s) /\ g[s] \notin V
    BY <2>1
  <2>3. s # {}
    BY <1>1, <2>2
  <2> DEFINE t == s \ {Pick(s)}
  <2>4. /\ Pick(s) \in s /\ t \in SUBSET S
        /\ Cardinality(s) \in Nat /\ Cardinality(t) = Cardinality(s) - 1
    BY <2>3, Smaller
  <2>5. g[t] \in V
    <3>1. Cardinality(t) \notin Fails
      <4> HIDE DEF Fails, t
      <4> QED
        BY <2>1, <2>2, <2>4
    <3> QED
      BY <2>4, <3>1
  <2>6. g[s] = f[Pick(s)] + g[t]
    BY <1>1, <2>3
  <2> QED
    BY <2>2, <2>4, <2>5, <2>6
<1>4. g[S] \in V
  BY <1>3
<1> QED
  BY <1>4 DEF g, Total

\* The sum of numbers is a number, that of natural numbers a natural one.
LEMMA SumTyped ==
    ASSUME NEW f, IsFiniteSet(DOMAIN f), \A x \in DOMAIN f : f[x] \in Int
    PROVE  /\ Total(f) \in Int
           /\ (\A x \in DOMAIN f : f[x] >= 0) => Total(f) >= 0
<1>1. Total(f) \in Int
  <2>1. 0 \in Int /\ \A x \in DOMAIN f, v \in Int : f[x] + v \in Int
    OBVIOUS
  <2> QED
    BY <2>1, SumWithin
<1>2. ASSUME \A x \in DOMAIN f : f[x] >= 0 PROVE Total(f) \in Nat
  <2>1. 0 \in Nat /\ \A x \in DOMAIN f, v \in Nat : f[x] + v \in Nat
    BY <1>2
  <2> QED
    BY <2>1, SumWithin
<1> QED
  BY <1>1, <1>2

\* Of two functions that add up the same members, the greater has the greater sum.
LEMMA SumMonotone ==
    ASSUME NEW f, NEW h, IsFiniteSet(DOMAIN f), DOMAIN h = DOMAIN f,
           \A x \in DOMAIN f : f[x] \in Int /\ h[x] \in Int /\ f[x] <= h[x]
    PROVE  Total(f) <= Total(h)
<1> DEFINE S == DOMAIN f
           a == Summing(f)
           b == Summing(h)
           Fine(s) == a[s] \in Int /\ b[s] \in Int /\ a[s] <= b[s]
           Fails == {Cardinality(s) : s \in {t \in SUBSET S : ~Fine(t)}}
<1>1. \A s \in SUBSET S :
          /\ a[s] = IF s = {} THEN 0 ELSE f[Pick(s)] + a[s \ {Pick(s)}]
          /\ b[s] = IF s = {} THEN 0 ELSE h[Pick(s)] + b[s \ {Pick(s)}]
  BY SummingExists DEF Adds
<1>2. \A s \in SUBSET S : IsFiniteSet(s) /\ Cardinality(s) \in Nat
  BY FS_Subset, FS_CardinalityType
<1>5. Total(f) = a[S] /\ Total(h) = b[S]
  BY DEF Total
<1> HIDE DEF a, b
<1>3. Fails = {}
  <2> SUFFICES ASSUME Fails # {} PROVE FALSE
    OBVIOUS
  <2>1. PICK n \in Fails : \A m \in Fails : n <= m
    BY <1>2, LeastNumber
  <2>2. PICK s \in SUBSET S : n = Cardinality(s) /\ ~Fine(s)
    BY <2>1
  <2>3. s # {}
    <3>1. a[{}] = 0 /\ b[{}] = 0
      BY <1>1
    <3> QED
      BY <2>2, <3>1
  <2> DEFINE t == s \ {Pick(s)}
  <2>4. /\ Pick(s) \in s /\ t \in SUBSET S
        /\ Cardinality(s) \in Nat /\ Cardinality(t) = Cardinality(s) - 1
    BY <2>3, Smaller
  <2>5. Fine(t)
    <3>1. Cardinality(t) \notin Fails
      <4> HIDE DEF Fails, t
      <4> QED
        BY <2>1, <2>2, <2>4
    <3> QED
      BY <2>4, <3>1
  <2>6. a[s] = f[Pick(s)] + a[t] /\ b[s] = h[Pick(s)] + b[t]
    BY <1>1, <2>3
  <2>7. f[Pick(s)] \in Int /\ h[Pick(s)] \in Int /\ f[Pick(s)] <= h[Pick(s)]
    BY <2>4
  <2> QED
    BY <2>2, <2>5, <2>6, <2>7
<1>4. Fine(S)
  BY <1>3
<1> QED
  BY <1>4, <1>5

\* What the aggregation gives, with its sums.
LEMMA AggregateSums ==
    ASSUME NEW values, NEW method, NEW weights
    PROVE  AggregateInputs(values, method, weights) =
             LET total == Total(Restrict(weights, DOMAIN values))
             IN  IF DOMAIN values = {} THEN 0
                 ELSE CASE method = "min" -> Min(Range(values))
                   [] method = "avg" -> Total(values) \div Cardinality(DOMAIN values)
                   [] method = "weighted" ->
                          IF total = 0 THEN 0
                          ELSE Total([s \in DOMAIN values |-> values[s] * weights[s]]) \div total
                   [] OTHER -> Max(Range(values))
BY DEF AggregateInputs, WeightedSum, FoldFunction, FoldFunctionOnSet, MapThenFoldSet,
       Total, Summing, Adds, Pick

-----------------------------------------------------------------------------
(* The input value.                                                        *)

\* A finite set of numbers has a greatest and a least one: the ones that fewest
\* others are beyond.
LEMMA Extremes ==
    ASSUME NEW S, IsFiniteSet(S), S \subseteq Int, S # {}
    PROVE  /\ Max(S) \in S /\ \A x \in S : x <= Max(S)
           /\ Min(S) \in S /\ \A x \in S : Min(S) <= x
<1> DEFINE above == [m \in S |-> Cardinality({x \in S : m < x})]
           below == [m \in S |-> Cardinality({x \in S : x < m})]
<1>1. ASSUME NEW m \in S
      PROVE  /\ above[m] \in Nat /\ above[m] = Cardinality({x \in S : m < x})
             /\ below[m] \in Nat /\ below[m] = Cardinality({x \in S : x < m})
  BY FS_Subset, FS_CardinalityType
<1> HIDE DEF above, below
<1>2. \E m \in S : \A x \in S : x <= m
  <2>1. PICK n \in {above[x] : x \in S} : \A k \in {above[x] : x \in S} : n <= k
    <3>1. {above[x] : x \in S} \subseteq Nat /\ {above[x] : x \in S} # {}
      BY <1>1
    <3> QED
      BY <3>1, LeastNumber
  <2>2. PICK m \in S : n = above[m]
    BY <2>1
  <2>3. ASSUME NEW y \in S, m < y PROVE FALSE
    <3> DEFINE A == {x \in S : m < x}
               B == {x \in S : y < x}
    <3>1. IsFiniteSet(A) /\ B \in SUBSET A /\ y \in A /\ y \notin B
      <4>1. m \in Int /\ y \in Int /\ \A x \in S : x \in Int
        OBVIOUS
      <4>2. A \in SUBSET S
        OBVIOUS
      <4>3. IsFiniteSet(A)
        BY <4>2, FS_Subset
      <4>4. \A x \in S : (x \in B => x \in A)
        BY <2>3, <4>1
      <4>5. y \in A /\ y \notin B /\ B \subseteq S
        BY <2>3, <4>1
      <4> QED
        BY <4>3, <4>4, <4>5
    <3>2. Cardinality(B) <= Cardinality(A) /\ (Cardinality(A) = Cardinality(B) => A = B)
      BY <3>1, FS_Subset
    <3>3. above[m] <= above[y] /\ above[m] = Cardinality(A) /\ above[y] = Cardinality(B)
      BY <1>1, <2>1, <2>2
    <3>4. above[m] \in Nat /\ above[y] \in Nat
      BY <1>1
    <3> HIDE DEF A, B
    <3> QED
      BY <3>1, <3>2, <3>3, <3>4
  <2> QED
    BY <2>3
<1>3. \E m \in S : \A x \in S : m <= x
  <2>1. PICK n \in {below[x] : x \in S} : \A k \in {below[x] : x \in S} : n <= k
    <3>1. {below[x] : x \in S} \subseteq Nat /\ {below[x] : x \in S} # {}
      BY <1>1
    <3> QED
      BY <3>1, LeastNumber
  <2>2. PICK m \in S : n = below[m]
    BY <2>1
  <2>3. ASSUME NEW y \in S, y < m PROVE FALSE
    <3> DEFINE A == {x \in S : x < m}
               B == {x \in S : x < y}
    <3>1. IsFiniteSet(A) /\ B \in SUBSET A /\ y \in A /\ y \notin B
      <4>1. m \in Int /\ y \in Int /\ \A x \in S : x \in Int
        OBVIOUS
      <4>2. A \in SUBSET S
        OBVIOUS
      <4>3. IsFiniteSet(A)
        BY <4>2, FS_Subset
      <4>4. \A x \in S : (x \in B => x \in A)
        BY <2>3, <4>1
      <4>5. y \in A /\ y \notin B /\ B \subseteq S
        BY <2>3, <4>1
      <4> QED
        BY <4>3, <4>4, <4>5
    <3>2. Cardinality(B) <= Cardinality(A) /\ (Cardinality(A) = Cardinality(B) => A = B)
      BY <3>1, FS_Subset
    <3>3. below[m] <= below[y] /\ below[m] = Cardinality(A) /\ below[y] = Cardinality(B)
      BY <1>1, <2>1, <2>2
    <3>4. below[m] \in Nat /\ below[y] \in Nat
      BY <1>1
    <3> HIDE DEF A, B
    <3> QED
      BY <3>1, <3>2, <3>3, <3>4
  <2>4. \A y \in S : ~(y < m) /\ y \in Int /\ m \in Int
    BY <2>3
  <2> QED
    BY <2>4
<1>4. \E m \in S : \A x \in S : m >= x
  BY <1>2
<1> QED
  BY <1>3, <1>4 DEF Max, Min

\* Division by a positive number gives a number and keeps the order.
LEMMA Division ==
    ASSUME NEW a \in Int, NEW b \in Int, NEW c \in Nat \ {0}
    PROVE  /\ a \div c \in Int
           /\ a <= b => a \div c <= b \div c
OBVIOUS

\* Multiplication by a natural number keeps it too.
LEMMA Product ==
    ASSUME NEW a \in Int, NEW b \in Int, NEW c \in Int
    PROVE  /\ a * c \in Int
           /\ a <= b /\ c >= 0 => a * c <= b * c
OBVIOUS

\* The values of some sensors, and their weights.
NumbersOn(f, S) == DOMAIN f = S /\ \A s \in S : f[s] \in Int

\* The values a function takes on a finite set are finitely many.
LEMMA RangeFinite ==
    ASSUME NEW f, IsFiniteSet(DOMAIN f)
    PROVE  IsFiniteSet(Range(f))
<1> DEFINE g == [x \in DOMAIN f |-> f[x]]
<1>1. g \in Surjection(DOMAIN f, Range(f))
  BY DEF Surjection, Range
<1> QED
  BY <1>1, FS_Surjection

\* The aggregation of numbers is a number, whatever the method.
LEMMA AggregateTyped ==
    ASSUME NEW S, IsFiniteSet(S), NEW v, NumbersOn(v, S), NEW method, NEW weights,
           S \subseteq DOMAIN weights, \A s \in S : weights[s] \in Int /\ weights[s] > 0
    PROVE  AggregateInputs(v, method, weights) \in Int
<1> DEFINE w == Restrict(weights, S)
           products == [s \in S |-> v[s] * weights[s]]
<1>1. Total(v) \in Int
  BY SumTyped DEF NumbersOn
<1>2. Total(w) \in Int /\ Total(w) >= 0
  <2>1. DOMAIN w = S /\ \A s \in S : w[s] \in Int /\ w[s] >= 0
    BY DEF Restrict
  <2> HIDE DEF w
  <2> QED
    BY <2>1, SumTyped
<1>3. Total(products) \in Int
  <2>1. DOMAIN products = S /\ \A s \in S : products[s] \in Int
    BY Product DEF NumbersOn
  <2> HIDE DEF products
  <2> QED
    BY <2>1, SumTyped
<1>4. S # {} => Min(Range(v)) \in Int /\ Max(Range(v)) \in Int
  <2>1. S # {} => Range(v) # {}
    BY DEF Range, NumbersOn
  <2>2. Range(v) \subseteq Int
    BY DEF Range, NumbersOn
  <2>3. IsFiniteSet(Range(v))
    BY RangeFinite DEF NumbersOn
  <2> QED
    BY <2>1, <2>2, <2>3, Extremes
<1>5. S # {} => Cardinality(S) \in Nat \ {0}
  BY FS_CardinalityType, FS_EmptySet
<1> HIDE DEF w, products
<1>6. AggregateInputs(v, method, weights) =
          IF S = {} THEN 0
          ELSE CASE method = "min" -> Min(Range(v))
            [] method = "avg" -> Total(v) \div Cardinality(S)
            [] method = "weighted" -> IF Total(w) = 0 THEN 0 ELSE Total(products) \div Total(w)
            [] OTHER -> Max(Range(v))
  BY AggregateSums DEF NumbersOn, w, products
<1>7. S # {} => Total(v) \div Cardinality(S) \in Int
  BY <1>1, <1>5, Division
<1>8. Total(w) # 0 => Total(products) \div Total(w) \in Int
  BY <1>2, <1>3, Division
<1>9. CASE S = {}
  BY <1>6, <1>9
<1>10. CASE S # {}
  <2>1. CASE method = "min"
    BY <1>4, <1>6, <1>10, <2>1
  <2>2. CASE method = "avg"
    BY <1>6, <1>7, <1>10, <2>2
  <2>3. CASE method = "weighted"
    BY <1>6, <1>8, <1>10, <2>3
  <2>4. CASE method \notin {"min", "avg", "weighted"}
    BY <1>4, <1>6, <1>10, <2>4
  <2> QED
    BY <2>1, <2>2, <2>3, <2>4
<1> QED
  BY <1>9, <1>10

\* Where no sensor is lower, neither is what any method makes of them.
LEMMA AggregateMonotone ==
    ASSUME NEW S, IsFiniteSet(S), NEW v, NumbersOn(v, S), NEW u, NumbersOn(u, S),
           \A s \in S : v[s] <= u[s], NEW method, NEW weights,
           S \subseteq DOMAIN weights, \A s \in S : weights[s] \in Int /\ weights[s] > 0
    PROVE  AggregateInputs(v, method, weights) <= AggregateInputs(u, method, weights)
<1> DEFINE w == Restrict(weights, S)
           pv == [s \in S |-> v[s] * weights[s]]
           pu == [s \in S |-> u[s] * weights[s]]
<1>1. AggregateInputs(v, method, weights) =
          IF S = {} THEN 0
          ELSE CASE method = "min" -> Min(Range(v))
            [] method = "avg" -> Total(v) \div Cardinality(S)
            [] method = "weighted" -> IF Total(w) = 0 THEN 0 ELSE Total(pv) \div Total(w)
            [] OTHER -> Max(Range(v))
  BY AggregateSums DEF NumbersOn
<1>2. AggregateInputs(u, method, weights) =
          IF S = {} THEN 0
          ELSE CASE method = "min" -> Min(Range(u))
            [] method = "avg" -> Total(u) \div Cardinality(S)
            [] method = "weighted" -> IF Total(w) = 0 THEN 0 ELSE Total(pu) \div Total(w)
            [] OTHER -> Max(Range(u))
  BY AggregateSums DEF NumbersOn
<1>3. Total(v) \in Int /\ Total(u) \in Int /\ Total(v) <= Total(u)
  BY SumTyped, SumMonotone DEF NumbersOn
<1>4. Total(w) \in Int /\ Total(w) >= 0
  <2>1. DOMAIN w = S /\ \A s \in S : w[s] \in Int /\ w[s] >= 0
    BY DEF Restrict
  <2> HIDE DEF w
  <2> QED
    BY <2>1, SumTyped
<1>5. Total(pv) \in Int /\ Total(pu) \in Int /\ Total(pv) <= Total(pu)
  <2>1. /\ DOMAIN pv = S /\ DOMAIN pu = S
        /\ \A s \in S : pv[s] \in Int /\ pu[s] \in Int /\ pv[s] <= pu[s]
    BY Product DEF NumbersOn
  <2> HIDE DEF pv, pu
  <2> QED
    BY <2>1, SumTyped, SumMonotone
<1>6. S # {} => Cardinality(S) \in Nat \ {0}
  BY FS_CardinalityType, FS_EmptySet
<1>7. ASSUME S # {} PROVE Min(Range(v)) <= Min(Range(u)) /\ Max(Range(v)) <= Max(Range(u))
  <2>1. /\ Range(v) # {} /\ Range(v) \subseteq Int /\ IsFiniteSet(Range(v))
        /\ Range(u) # {} /\ Range(u) \subseteq Int /\ IsFiniteSet(Range(u))
    <3>1. IsFiniteSet(Range(v)) /\ IsFiniteSet(Range(u))
      BY RangeFinite DEF NumbersOn
    <3> QED
      BY <1>7, <3>1 DEF Range, NumbersOn
  <2>2. /\ Max(Range(v)) \in Range(v) /\ \A x \in Range(v) : x <= Max(Range(v))
        /\ Min(Range(v)) \in Range(v) /\ \A x \in Range(v) : Min(Range(v)) <= x
        /\ Max(Range(u)) \in Range(u) /\ \A x \in Range(u) : x <= Max(Range(u))
        /\ Min(Range(u)) \in Range(u) /\ \A x \in Range(u) : Min(Range(u)) <= x
    BY <2>1, Extremes
  <2>3. PICK s \in S : Max(Range(v)) = v[s]
    BY <2>2 DEF Range, NumbersOn
  <2>4. PICK t \in S : Min(Range(u)) = u[t]
    BY <2>2 DEF Range, NumbersOn
  <2>5. u[s] \in Range(u) /\ v[t] \in Range(v)
    BY DEF Range, NumbersOn
  <2>6. u[s] <= Max(Range(u)) /\ Min(Range(v)) <= v[t]
    BY <2>2, <2>5
  <2>7. /\ Max(Range(u)) \in Int /\ Min(Range(v)) \in Int
        /\ v[s] \in Int /\ u[s] \in Int /\ v[t] \in Int /\ u[t] \in Int
    BY <2>1, <2>2 DEF NumbersOn
  <2> QED
    BY <2>3, <2>4, <2>6, <2>7
<1> HIDE DEF w, pv, pu
<1>8. CASE S = {}
  BY <1>1, <1>2, <1>8
<1>9. CASE S # {}
  <2>1. CASE method = "min"
    BY <1>1, <1>2, <1>7, <1>9, <2>1
  <2>2. CASE method = "avg"
    <3>1. Total(v) \div Cardinality(S) <= Total(u) \div Cardinality(S)
      BY <1>3, <1>6, <1>9, Division
    <3> QED
      BY <1>1, <1>2, <1>9, <2>2, <3>1
  <2>3. CASE method = "weighted"
    <3>1. CASE Total(w) = 0
      BY <1>1, <1>2, <1>9, <2>3, <3>1
    <3>2. CASE Total(w) # 0
      <4>1. Total(pv) \div Total(w) <= Total(pu) \div Total(w)
        BY <1>4, <1>5, <3>2, Division
      <4> QED
        BY <1>1, <1>2, <1>9, <2>3, <3>2, <4>1
    <3> QED
      BY <3>1, <3>2
  <2>4. CASE method \notin {"min", "avg", "weighted"}
    BY <1>1, <1>2, <1>7, <1>9, <2>4
  <2> QED
    BY <2>1, <2>2, <2>3, <2>4
<1> QED
  BY <1>8, <1>9

\* Settings as the validator and the types of the API let through.
Proper(settings) ==
    ValidProfile(settings) /\ ProperParams(settings.params) /\ ProperInputs(settings.inputs)

\* The steps of a step profile that was accepted.
LEMMA StepsTyped ==
    ASSUME NEW settings, Proper(settings), settings.algorithm = "step"
    PROVE  LET steps == settings.params.steps
           IN  /\ "steps" \in DOMAIN settings.params /\ steps # <<>>
               /\ DOMAIN steps = 1..Len(steps) /\ Len(steps) \in Nat \ {0}
               /\ IsFiniteSet(DOMAIN steps) /\ DOMAIN steps # {}
               /\ \A i \in DOMAIN steps : /\ i \in Int
                                          /\ steps[i].temp \in Int /\ steps[i].speed \in 0..100
<1> DEFINE steps == settings.params.steps
<1>1. /\ "steps" \in DOMAIN settings.params /\ steps # <<>>
      /\ steps \in Seq([temp : Int, speed : Int])
      /\ \A i \in DOMAIN steps : steps[i].temp \in Int /\ steps[i].speed \in 0..100
  <2>1. ValidSteps(settings.params) /\ ProperParams(settings.params)
    BY DEF Proper, ValidProfile
  <2>2. "steps" \in DOMAIN settings.params /\ steps # <<>>
    BY <2>1 DEF ValidSteps
  <2>3. \A i \in DOMAIN steps : steps[i].temp \in 0..1500 /\ steps[i].speed \in 0..100
    BY <2>1 DEF ValidSteps
  <2>4. steps \in Seq([temp : Int, speed : Int])
    BY <2>1, <2>2 DEF ProperParams
  <2> HIDE DEF steps
  <2>5. \A i \in DOMAIN steps : steps[i].temp \in Int /\ steps[i].speed \in 0..100
    BY <2>3
  <2> QED
    BY <2>2, <2>4, <2>5, Zenon
<1> HIDE DEF steps
<1>2. DOMAIN steps = 1..Len(steps) /\ Len(steps) \in Nat \ {0}
  BY <1>1
<1>3. IsFiniteSet(DOMAIN steps)
  BY <1>2, FS_Interval
<1> QED
  BY <1>1, <1>2, <1>3 DEF steps

\* The axis of accepted settings is a stretch of numbers.
LEMMA AxisTyped ==
    ASSUME NEW settings, Proper(settings)
    PROVE  LET axis == Axis(settings)
           IN  axis.lo \in Int /\ axis.hi \in Int /\ axis.lo < axis.hi
<1> DEFINE p == settings.params
<1>1. CASE settings.algorithm = "step"
  <2>1. Temps(p) # {} /\ Temps(p) \subseteq Int /\ IsFiniteSet(Temps(p))
    <3> DEFINE f == [i \in DOMAIN p.steps |-> p.steps[i].temp]
    <3>1. Temps(p) = Range(f) /\ DOMAIN f = DOMAIN p.steps
      BY DEF Temps, Range
    <3>2. IsFiniteSet(Range(f))
      <4> HIDE DEF f
      <4> QED
        BY <1>1, <3>1, StepsTyped, RangeFinite
    <3> QED
      BY <1>1, <3>1, <3>2, StepsTyped DEF Temps
  <2>2. Min(Temps(p)) \in Int /\ Max(Temps(p)) \in Int
    BY <2>1, Extremes
  <2>3. "steps" \in DOMAIN p /\ p.steps # <<>>
    BY <1>1, StepsTyped
  <2> QED
    BY <1>1, <2>2, <2>3 DEF Axis, DefaultAxis
<1>2. CASE settings.algorithm = "pid"
  <2>1. p.setpoint \in Int /\ "setpoint" \in DOMAIN p
    BY <1>2 DEF Proper, ValidProfile, ValidPid, Within
  <2> QED
    BY <1>2, <2>1 DEF Axis, DefaultAxis, Param
<1>3. CASE settings.algorithm = "linear"
  <2>1. /\ p.min_temp \in Int /\ "min_temp" \in DOMAIN p
        /\ p.max_temp \in Int /\ "max_temp" \in DOMAIN p
    <3>1. ValidLinear(p)
      BY <1>3 DEF Proper, ValidProfile
    <3>2. Within(p, "min_temp", 0, 1500) /\ Within(p, "max_temp", 0, 1500)
      BY <3>1 DEF ValidLinear
    <3> HIDE DEF p
    <3> QED
      BY <3>2 DEF Within
  <2> QED
    BY <1>3, <2>1 DEF Axis, DefaultAxis, Param
<1> QED
  BY <1>1, <1>2, <1>3 DEF Proper, ValidProfile

\* A higher load is not lower on the axis, and none is below its low end.
LEMMA ProjectedMonotone ==
    ASSUME NEW axis, axis.lo \in Int, axis.hi \in Int, axis.lo < axis.hi,
           NEW a \in Int, NEW b \in Int, a <= b
    PROVE  /\ Projected(axis, a) \in Int
           /\ Projected(axis, a) <= Projected(axis, b)
<1> DEFINE width == axis.hi - axis.lo
           x == Clamp(a, 0, 100)
           y == Clamp(b, 0, 100)
<1>1. x \in Int /\ y \in Int /\ x <= y
  BY DEF Clamp
<1>2. width \in Int /\ width >= 0
  OBVIOUS
<1> HIDE DEF width, x, y
<1>3. x * width \in Int /\ y * width \in Int /\ x * width <= y * width
  BY <1>1, <1>2, Product
<1>4. (x * width) \div 100 \in Int /\ (y * width) \div 100 \in Int
      /\ (x * width) \div 100 <= (y * width) \div 100
  BY <1>3, Division
<1>5. /\ Projected(axis, a) = axis.lo + (x * width) \div 100
      /\ Projected(axis, b) = axis.lo + (y * width) \div 100
  BY DEF Projected, width, x, y
<1> QED
  BY <1>4, <1>5

\* What sensors may show.
ProperReading(r) == \A s \in DOMAIN r : r[s] \in Int

\* What the sensors of a profile show on its axis are numbers.
LEMMA ValuesTyped ==
    ASSUME NEW settings, Proper(settings), NEW r, ProperReading(r)
    PROVE  NumbersOn(Values(settings, r), Present(settings, r))
<1>1. /\ Axis(settings).lo \in Int /\ Axis(settings).hi \in Int
      /\ Axis(settings).lo < Axis(settings).hi
  BY AxisTyped
<1>2. ASSUME NEW s \in Present(settings, r) PROVE Values(settings, r)[s] \in Int
  <2>1. r[s] \in Int
    BY DEF Present, ProperReading
  <2>2. Projected(Axis(settings), r[s]) \in Int
    BY <1>1, <2>1, ProjectedMonotone
  <2> QED
    BY <2>1, <2>2 DEF Values
<1> QED
  BY <1>2 DEF Values, NumbersOn

\* The sensors a profile listens to have weights, and there are finitely many.
LEMMA InputsTyped ==
    ASSUME NEW settings, Proper(settings), NEW r
    PROVE  /\ IsFiniteSet(Present(settings, r))
           /\ Present(settings, r) \subseteq DOMAIN settings.inputs
           /\ \A s \in Present(settings, r) :
                 settings.inputs[s] \in Int /\ settings.inputs[s] > 0
BY FS_Subset DEF Proper, ProperInputs, ValidProfile, ValidInputs, Present

\* The input value is a number.
LEMMA InputTyped ==
    ASSUME NEW settings, Proper(settings), NEW r, ProperReading(r)
    PROVE  CalculateInputValue(settings, r) \in Int
BY ValuesTyped, InputsTyped, AggregateTyped DEF CalculateInputValue

\* Where the same sensors show no less, the input value is no less: neither the
\* projection of loads nor any aggregation turns the order round.
LEMMA InputMonotone ==
    ASSUME NEW settings, Proper(settings), NEW r, ProperReading(r), NEW q, ProperReading(q),
           Present(settings, r) = Present(settings, q),
           \A s \in Present(settings, r) : r[s] <= q[s]
    PROVE  CalculateInputValue(settings, r) <= CalculateInputValue(settings, q)
<1> DEFINE S == Present(settings, r)
<1>1. NumbersOn(Values(settings, r), S) /\ NumbersOn(Values(settings, q), S)
  BY ValuesTyped
<1>2. ASSUME NEW s \in S PROVE Values(settings, r)[s] <= Values(settings, q)[s]
  <2>1. r[s] \in Int /\ q[s] \in Int /\ r[s] <= q[s]
    BY DEF Present, ProperReading
  <2>2. Projected(Axis(settings), r[s]) <= Projected(Axis(settings), q[s])
    BY <2>1, AxisTyped, ProjectedMonotone
  <2> QED
    BY <2>1, <2>2 DEF Values
<1>3. /\ IsFiniteSet(S) /\ S \subseteq DOMAIN settings.inputs
      /\ \A s \in S : settings.inputs[s] \in Int /\ settings.inputs[s] > 0
  BY InputsTyped
<1> HIDE DEF S
<1> QED
  BY <1>1, <1>2, <1>3, AggregateMonotone DEF CalculateInputValue

-----------------------------------------------------------------------------
(* The algorithms.                                                         *)

\* A clamped value is between the bounds, or one of them.
LEMMA ClampTyped ==
    ASSUME NEW v \in Int, NEW lo \in 0..100, NEW hi \in 0..100
    PROVE  /\ Clamp(v, lo, hi) \in 0..100
           /\ lo <= hi => lo <= Clamp(v, lo, hi) /\ Clamp(v, lo, hi) <= hi
BY DEF Clamp

\* Clamping does not turn the order round.
LEMMA ClampMonotone ==
    ASSUME NEW v \in Int, NEW u \in Int, v <= u, NEW lo \in 0..100, NEW hi \in 0..100, lo <= hi
    PROVE  Clamp(v, lo, hi) <= Clamp(u, lo, hi)
BY DEF Clamp

\* The parameters of a linear profile that was accepted.
LEMMA LinearParams ==
    ASSUME NEW p, ValidLinear(p)
    PROVE  /\ Param(p, "min_temp", 300) = p["min_temp"] /\ p["min_temp"] \in Int
           /\ Param(p, "max_temp", 800) = p["max_temp"] /\ p["max_temp"] \in Int
           /\ MinSpeed(p) = p["min_speed"] /\ p["min_speed"] \in 0..100
           /\ MaxSpeed(p) = p["max_speed"] /\ p["max_speed"] \in 0..100
<1>1. /\ Within(p, "min_temp", 0, 1500) /\ Within(p, "max_temp", 0, 1500)
      /\ Within(p, "min_speed", 0, 100) /\ Within(p, "max_speed", 0, 100)
  BY DEF ValidLinear, ValidSpeeds
<1> QED
  BY <1>1 DEF Within, Param, MinSpeed, MaxSpeed

\* What the linear curve gives is a percentage, and where it rises it never falls.
LEMMA LinearCurve ==
    ASSUME NEW p, ValidLinear(p), NEW a \in Int, NEW b \in Int
    PROVE  /\ LinearSpeed(p, a) \in 0..100
           /\ a <= b /\ p["min_speed"] <= p["max_speed"] => LinearSpeed(p, a) <= LinearSpeed(p, b)
<1> DEFINE lo == p["min_temp"]
           hi == p["max_temp"]
           min == p["min_speed"]
           max == p["max_speed"]
           Slope(t) == ((t - lo) * (max - min)) \div (hi - lo)
<1>1. lo \in Int /\ hi \in Int /\ min \in 0..100 /\ max \in 0..100
  BY LinearParams
<1>2. ASSUME NEW t \in Int
      PROVE  LinearSpeed(p, t) = CASE t <= lo -> min
                                   [] t > lo /\ t >= hi -> max
                                   [] OTHER -> Clamp(min + Slope(t), min, max)
  BY LinearParams DEF LinearSpeed
<1> HIDE DEF lo, hi, min, max
<1>3. ASSUME NEW t \in Int, ~(t <= lo), ~(t >= hi)
      PROVE  Slope(t) \in Int /\ hi - lo \in Nat \ {0} /\ (t - lo) * (max - min) \in Int
  <2>1. hi - lo \in Nat \ {0} /\ t - lo \in Int /\ max - min \in Int
    BY <1>1, <1>3
  <2>2. (t - lo) * (max - min) \in Int
    BY <2>1, Product
  <2> QED
    BY <2>1, <2>2, Division
<1>4. ASSUME NEW t \in Int PROVE LinearSpeed(p, t) \in 0..100
  <2>1. CASE t <= lo
    BY <1>1, <1>2, <2>1
  <2>2. CASE ~(t <= lo) /\ t >= hi
    BY <1>1, <1>2, <2>2
  <2>3. CASE ~(t <= lo) /\ ~(t >= hi)
    <3>1. min + Slope(t) \in Int
      BY <1>1, <1>3, <2>3
    <3>2. LinearSpeed(p, t) = Clamp(min + Slope(t), min, max)
      BY <1>1, <1>2, <2>3
    <3> HIDE DEF Slope
    <3> QED
      BY <1>1, <3>1, <3>2, ClampTyped
  <2> QED
    BY <2>1, <2>2, <2>3
<1>5. ASSUME a <= b, min <= max PROVE LinearSpeed(p, a) <= LinearSpeed(p, b)
  <2>1. ASSUME NEW t \in Int PROVE min <= LinearSpeed(p, t) /\ LinearSpeed(p, t) <= max
    <3>1. CASE t <= lo
      BY <1>1, <1>2, <1>5, <3>1
    <3>2. CASE ~(t <= lo) /\ t >= hi
      BY <1>1, <1>2, <1>5, <3>2
    <3>3. CASE ~(t <= lo) /\ ~(t >= hi)
      <4>1. min + Slope(t) \in Int
        BY <1>1, <1>3, <3>3
      <4>2. LinearSpeed(p, t) = Clamp(min + Slope(t), min, max)
        BY <1>1, <1>2, <3>3
      <4> HIDE DEF Slope
      <4> QED
        BY <1>1, <1>5, <4>1, <4>2, ClampTyped
    <3> QED
      BY <3>1, <3>2, <3>3
  <2>2. /\ LinearSpeed(p, a) \in Int /\ LinearSpeed(p, b) \in Int
        /\ min <= LinearSpeed(p, b) /\ LinearSpeed(p, a) <= max
    BY <1>4, <2>1
  <2>3. CASE a <= lo
    BY <1>1, <1>2, <2>2, <2>3
  <2>4. CASE ~(b <= lo) /\ b >= hi
    BY <1>1, <1>2, <2>2, <2>4
  <2>5. CASE ~(a <= lo) /\ ~(b >= hi)
    <3>1. ~(a <= lo) /\ ~(a >= hi) /\ ~(b <= lo) /\ ~(b >= hi)
      BY <1>1, <1>5, <2>5
    <3>2. (a - lo) * (max - min) <= (b - lo) * (max - min)
      <4>1. a - lo \in Int /\ b - lo \in Int /\ a - lo <= b - lo
            /\ max - min \in Int /\ max - min >= 0
        BY <1>1, <1>5
      <4> QED
        BY <4>1, Product
    <3>3. Slope(a) <= Slope(b) /\ Slope(a) \in Int /\ Slope(b) \in Int
      BY <1>3, <3>1, <3>2, Division
    <3>4. /\ LinearSpeed(p, a) = Clamp(min + Slope(a), min, max)
          /\ LinearSpeed(p, b) = Clamp(min + Slope(b), min, max)
      BY <1>1, <1>2, <3>1
    <3>5. /\ min + Slope(a) \in Int /\ min + Slope(b) \in Int
          /\ min + Slope(a) <= min + Slope(b)
      BY <1>1, <3>3
    <3> HIDE DEF Slope
    <3> QED
      BY <1>1, <1>5, <3>4, <3>5, ClampMonotone
  <2> QED
    BY <1>1, <1>5, <2>3, <2>4, <2>5
<1> QED
  BY <1>4, <1>5 DEF min, max

\* The step that is taken: the hottest reached, or the coldest of all.
LEMMA StepTaken ==
    ASSUME NEW settings, Proper(settings), settings.algorithm = "step", NEW t \in Int
    PROVE  LET steps == settings.params.steps
           IN  \E k \in DOMAIN steps :
                 /\ StepSpeed(settings.params, t) = Clamp(steps[k].speed, 0, 100)
                 /\ \/ /\ steps[k].temp <= t
                       /\ \A j \in DOMAIN steps :
                             steps[j].temp <= t => steps[j].temp <= steps[k].temp
                    \/ \A j \in DOMAIN steps : t < steps[j].temp /\ steps[k].temp <= steps[j].temp
<1> DEFINE steps == settings.params.steps
           reached == {i \in DOMAIN steps : steps[i].temp <= t}
           hottest == {i \in reached : \A j \in reached : steps[j].temp <= steps[i].temp}
           coldest == {i \in DOMAIN steps : \A j \in DOMAIN steps : steps[i].temp <= steps[j].temp}
<1>1. /\ "steps" \in DOMAIN settings.params /\ steps # <<>>
      /\ IsFiniteSet(DOMAIN steps) /\ DOMAIN steps # {}
      /\ \A i \in DOMAIN steps : i \in Int /\ steps[i].temp \in Int
  BY StepsTyped
<1>2. StepSpeed(settings.params, t) =
          CASE steps = <<>> -> 50
            [] steps # <<>> /\ reached = {} -> Clamp(steps[Min(coldest)].speed, 0, 100)
            [] OTHER -> Clamp(steps[Max(hottest)].speed, 0, 100)
  BY <1>1 DEF StepSpeed, Param
<1> HIDE DEF steps
<1>3. ASSUME NEW T \in SUBSET DOMAIN steps, T # {}
      PROVE  /\ \E i \in T : \A j \in T : steps[j].temp <= steps[i].temp
             /\ \E i \in T : \A j \in T : steps[i].temp <= steps[j].temp
             /\ Max(T) \in T /\ Min(T) \in T
  <2> DEFINE f == [i \in T |-> steps[i].temp]
  <2>1. IsFiniteSet(T) /\ T \subseteq Int /\ DOMAIN f = T
    BY <1>1, FS_Subset
  <2>2. \A i \in T : f[i] = steps[i].temp /\ f[i] \in Int
    BY <1>1
  <2> HIDE DEF f
  <2>3. Range(f) # {} /\ Range(f) \subseteq Int /\ IsFiniteSet(Range(f))
    BY <1>3, <2>1, <2>2, RangeFinite DEF Range
  <2>4. /\ Max(Range(f)) \in Range(f) /\ \A x \in Range(f) : x <= Max(Range(f))
        /\ Min(Range(f)) \in Range(f) /\ \A x \in Range(f) : Min(Range(f)) <= x
    BY <2>3, Extremes
  <2>5. \A i \in T : steps[i].temp \in Range(f)
    BY <2>1, <2>2 DEF Range
  <2>6. /\ \E i \in T : steps[i].temp = Max(Range(f))
        /\ \E i \in T : steps[i].temp = Min(Range(f))
    BY <2>1, <2>2, <2>4 DEF Range
  <2> QED
    BY <1>3, <2>1, <2>4, <2>5, <2>6, Extremes
<1>4. CASE reached = {}
  <2>1. coldest # {} /\ coldest \in SUBSET DOMAIN steps
    BY <1>1, <1>3
  <2>2. Min(coldest) \in coldest
    BY <1>3, <2>1
  <2>3. \A j \in DOMAIN steps : t < steps[j].temp
    BY <1>1, <1>4
  <2>4. StepSpeed(settings.params, t) = Clamp(steps[Min(coldest)].speed, 0, 100)
    BY <1>1, <1>2, <1>4
  <2> QED
    BY <2>2, <2>3, <2>4 DEF steps
<1>5. CASE reached # {}
  <2>1. hottest # {} /\ hottest \in SUBSET DOMAIN steps
    BY <1>3, <1>5
  <2>2. Max(hottest) \in hottest
    BY <1>3, <2>1
  <2>3. StepSpeed(settings.params, t) = Clamp(steps[Max(hottest)].speed, 0, 100)
    BY <1>1, <1>2, <1>5
  <2> QED
    BY <2>2, <2>3 DEF steps
<1> QED
  BY <1>4, <1>5

\* What the steps give is a percentage, and where they rise it never falls.
LEMMA StepCurve ==
    ASSUME NEW settings, Proper(settings), settings.algorithm = "step",
           NEW a \in Int, NEW b \in Int
    PROVE  LET steps == settings.params.steps
           IN  /\ StepSpeed(settings.params, a) \in 0..100
               /\ a <= b /\ (\A i, j \in DOMAIN steps :
                                steps[i].temp <= steps[j].temp => steps[i].speed <= steps[j].speed)
                      => StepSpeed(settings.params, a) <= StepSpeed(settings.params, b)
<1> DEFINE steps == settings.params.steps
           Taken(k, t) ==
               /\ StepSpeed(settings.params, t) = Clamp(steps[k].speed, 0, 100)
               /\ \/ /\ steps[k].temp <= t
                     /\ \A j \in DOMAIN steps :
                           steps[j].temp <= t => steps[j].temp <= steps[k].temp
                  \/ \A j \in DOMAIN steps : t < steps[j].temp /\ steps[k].temp <= steps[j].temp
<1>0. \A i \in DOMAIN steps : steps[i].temp \in Int /\ steps[i].speed \in 0..100
  BY StepsTyped
<1>1. \A i \in DOMAIN steps : /\ steps[i].temp \in Int
                                /\ steps[i].speed \in 0..100 /\ steps[i].speed \in Int
  BY <1>0
<1>6. 0 \in 0..100 /\ 100 \in 0..100 /\ 0 <= 100
  OBVIOUS
<1>2. PICK k \in DOMAIN steps : Taken(k, a)
  BY StepTaken
<1>3. PICK m \in DOMAIN steps : Taken(m, b)
  BY StepTaken
<1> HIDE DEF steps
<1>4. StepSpeed(settings.params, a) \in 0..100
  <2>1. Clamp(steps[k].speed, 0, 100) \in 0..100
    BY <1>1, <1>6, ClampTyped
  <2> QED
    BY <1>2, <2>1
<1>5. ASSUME a <= b,
             \A i, j \in DOMAIN steps :
                steps[i].temp <= steps[j].temp => steps[i].speed <= steps[j].speed
      PROVE  StepSpeed(settings.params, a) <= StepSpeed(settings.params, b)
  <2>1. steps[k].temp <= steps[m].temp
    BY <1>1, <1>2, <1>3, <1>5
  <2>2. steps[k].speed <= steps[m].speed
    BY <1>5, <2>1
  <2>3. Clamp(steps[k].speed, 0, 100) <= Clamp(steps[m].speed, 0, 100)
    BY <1>1, <1>6, <2>2, ClampMonotone
  <2> QED
    BY <1>2, <1>3, <2>3
<1> QED
  BY <1>4, <1>5 DEF steps

\* The integral term is within the widest limit there can be.
LEMMA IntegralBounded ==
    ASSUME NEW p, ValidPid(p), ProperParams(p), NEW iTerm \in Int, NEW error \in Int
    PROVE  /\ Integrated(p, iTerm, error) \in Int
           /\ Integrated(p, iTerm, error) <= 10000
           /\ -Integrated(p, iTerm, error) <= 10000
<1>1. /\ MinSpeed(p) \in 0..100 /\ MaxSpeed(p) \in 0..100
  BY DEF ValidPid, ValidSpeeds, Within, MinSpeed, MaxSpeed, Param
<1>2. Param(p, "ki", 1) \in Int
  BY DEF ValidPid, ProperParams, Param
<1> DEFINE ki == Param(p, "ki", 1)
           limit == 100 * (MaxSpeed(p) - MinSpeed(p))
           sum == iTerm + ki * error
<1>3. limit \in Int /\ -limit \in Int /\ limit <= 10000 /\ -limit <= 10000
  BY <1>1
<1>4. sum \in Int /\ -sum \in Int
  BY <1>2, Product
<1>5. Integrated(p, iTerm, error) = IF ki = 0 THEN 0
                                    ELSE IF sum > limit THEN limit
                                    ELSE IF sum < -limit THEN -limit ELSE sum
  BY DEF Integrated
<1> HIDE DEF ki, limit, sum
<1> QED
  BY <1>3, <1>4, <1>5

\* What the PID controller gives is a percentage.
LEMMA PidTyped ==
    ASSUME NEW p, ValidPid(p), ProperParams(p), NEW iTerm \in Int, NEW lastTemp \in Int,
           NEW temp \in Int
    PROVE  PidSpeed(p, iTerm, lastTemp, temp) \in 0..100
<1>1. MinSpeed(p) \in 0..100 /\ MaxSpeed(p) \in 0..100
  BY DEF ValidPid, ValidSpeeds, Within, MinSpeed, MaxSpeed, Param
<1>2. Param(p, "setpoint", 700) \in Int
  BY DEF ValidPid, Within, Param
<1>3. Param(p, "kp", 20) \in Int /\ Param(p, "kd", 10) \in Int
  BY DEF ValidPid, ProperParams, Param
<1> DEFINE error == temp - Param(p, "setpoint", 700)
           pTerm == Param(p, "kp", 20) * error
           dTerm == IF lastTemp = 0 THEN 0 ELSE Param(p, "kd", 10) * (temp - lastTemp)
           base == 50 * (MinSpeed(p) + MaxSpeed(p))
<1>4. error \in Int /\ base \in Int
  BY <1>1, <1>2
<1>5. Integrated(p, iTerm, error) \in Int
  BY <1>4, IntegralBounded
<1>6. pTerm \in Int /\ dTerm \in Int
  <2>1. temp - lastTemp \in Int
    OBVIOUS
  <2>2. Param(p, "kd", 10) * (temp - lastTemp) \in Int
    BY <1>3, <2>1, Product
  <2>3. pTerm \in Int
    <3> HIDE DEF error
    <3> QED
      BY <1>3, <1>4, Product
  <2> QED
    BY <2>2, <2>3
<1>7. PidOutput(p, iTerm, lastTemp, temp)
          = (base + pTerm + Integrated(p, iTerm, error) + dTerm) \div 100
  BY DEF PidOutput
<1> HIDE DEF error, pTerm, dTerm, base
<1>8. PidOutput(p, iTerm, lastTemp, temp) \in Int
  BY <1>4, <1>5, <1>6, <1>7, Division
<1> QED
  BY <1>1, <1>8, ClampTyped DEF PidSpeed

\* What the algorithm makes of an input is a percentage.
LEMMA CalculateTyped ==
    ASSUME NEW settings, Proper(settings), NEW instance, instance.iTerm \in Int,
           instance.lastTemp \in Int, NEW input \in Int
    PROVE  Calculate(settings, instance, input) \in 0..100
<1>1. CASE settings.algorithm = "linear"
  BY <1>1, LinearCurve DEF Calculate, Proper, ValidProfile
<1>2. CASE settings.algorithm = "step"
  BY <1>2, StepCurve DEF Calculate
<1>3. CASE settings.algorithm = "pid"
  BY <1>3, PidTyped DEF Calculate, Proper, ValidProfile
<1> QED
  BY <1>1, <1>2, <1>3 DEF Proper, ValidProfile

\* On a curve that rises, a higher input never gives a lower duty.
LEMMA CalculateMonotone ==
    ASSUME NEW settings, Proper(settings), Rises(settings), NEW x, NEW y,
           NEW a \in Int, NEW b \in Int, a <= b
    PROVE  Calculate(settings, x, a) <= Calculate(settings, y, b)
<1>1. CASE settings.algorithm = "linear"
  <2>1. ValidLinear(settings.params) /\ settings.params["min_speed"] <= settings.params["max_speed"]
    BY <1>1 DEF Proper, ValidProfile, Rises
  <2> QED
    BY <1>1, <2>1, LinearCurve DEF Calculate
<1>2. CASE settings.algorithm = "step"
  <2>1. \A i, j \in DOMAIN settings.params.steps :
           settings.params.steps[i].temp <= settings.params.steps[j].temp
              => settings.params.steps[i].speed <= settings.params.steps[j].speed
    BY <1>2 DEF Rises
  <2> QED
    BY <1>2, <2>1, StepCurve DEF Calculate
<1> QED
  BY <1>1, <1>2 DEF Rises, Proper, ValidProfile

-----------------------------------------------------------------------------
(* The instance.                                                           *)

\* The instance is a record, and it is the one of the cycle in the history; a
\* profile without history has no instance.
Instance ==
    /\ algo = [sig |-> algo.sig, iTerm |-> algo.iTerm, lastTemp |-> algo.lastTemp]
    /\ seen = <<>> => algo = NoAlgo
    /\ seen # <<>> => algo.sig = Sig(seen[1].settings)

\* getAlgorithm (services/controller.go) returns an instance of the profile's
\* present algorithm and parameters, and a new one when these have changed.
LEMMA GetAlgorithmFresh ==
    ASSUME Instance, NEW settings
    PROVE  LET instance == GetAlgorithm(settings)
           IN  /\ instance = [sig |-> Sig(settings), iTerm |-> instance.iTerm,
                              lastTemp |-> instance.lastTemp]
               /\ seen = <<>> \/ Sig(seen[1].settings) # Sig(settings) =>
                      instance.iTerm = 0 /\ instance.lastTemp = 0
  BY DEF Instance, GetAlgorithm, NoAlgo

\* The instance belongs to the history in every reachable state: no edit, no
\* inactive cycle and no pruning separates getAlgorithm's two maps from it.
THEOREM InstanceCorrect == Spec => []Instance
<1>1. Init => Instance
  BY DEF Init, Instance, NoAlgo
<1>2. Instance /\ [Next]_vars => Instance'
  <2> SUFFICES ASSUME Instance, [Next]_vars PROVE Instance'
    OBVIOUS
  <2>1. CASE Compute
    <3>1. PICK value, input :
              /\ algo' = Updated(profile, GetAlgorithm(profile), input)
              /\ seen' = <<[settings |-> profile, reading |-> reading, value |-> value]>>
      BY <2>1 DEF Compute
    <3> DEFINE instance == GetAlgorithm(profile)
    <3>2. instance = [sig |-> Sig(profile), iTerm |-> instance.iTerm,
                      lastTemp |-> instance.lastTemp]
      BY GetAlgorithmFresh
    <3> HIDE DEF instance
    <3>3. Updated(profile, instance, input).sig = Sig(profile)
      BY <3>2 DEF Updated
    <3>4. LET new == Updated(profile, instance, input)
          IN  new = [sig |-> new.sig, iTerm |-> new.iTerm, lastTemp |-> new.lastTemp]
      BY <3>2 DEF Updated
    <3>5. seen' # <<>> /\ seen'[1].settings = profile
      BY <3>1
    <3> QED BY <3>1, <3>3, <3>4, <3>5 DEF Instance, instance
  <2>2. CASE Prune
    BY <2>2 DEF Prune, Instance, NoAlgo
  <2>3. CASE \E e \in Edit : Update(e)
    BY <2>3 DEF Update, Instance
  <2>4. CASE \E on \in BOOLEAN : SetActive(on)
    BY <2>4 DEF SetActive, Instance
  <2>5. CASE Sense
    BY <2>5 DEF Sense, Instance
  <2>6. CASE UNCHANGED vars
    BY <2>6 DEF vars, Instance
  <2> QED BY <2>1, <2>2, <2>3, <2>4, <2>5, <2>6 DEF Next
<1> QED BY <1>1, <1>2, PTL DEF Spec

\* The first duty of a PID after an edit of its parameters, or after a cycle that
\* found it inactive, is that of a new controller.
THEOREM FreshStartCorrect == Spec => FreshStart
<1> DEFINE Fresh ==
        /\ seen' # <<>> /\ seen' # seen
        /\ seen'[1].settings.algorithm = "pid"
        /\ seen = <<>> \/ Sig(seen[1].settings) # Sig(seen'[1].settings)
        => duty' = Calculate(seen'[1].settings, NoAlgo, seen'[1].value)
<1>1. Instance /\ [Next]_vars => [Fresh]_vars
  <2> SUFFICES ASSUME Instance, [Next]_vars, seen' # <<>>, seen' # seen,
                      seen'[1].settings.algorithm = "pid",
                      seen = <<>> \/ Sig(seen[1].settings) # Sig(seen'[1].settings)
               PROVE  duty' = Calculate(seen'[1].settings, NoAlgo, seen'[1].value)
    OBVIOUS
  <2>1. Compute
    BY DEF Next, vars, Update, SetActive, Sense, Prune
  <2>2. PICK value, input :
            /\ input = HeldInput(profile, value)
            /\ duty' = Calculate(profile, GetAlgorithm(profile), input)
            /\ seen' = <<[settings |-> profile, reading |-> reading, value |-> value]>>
    BY <2>1 DEF Compute
  <2>3. seen'[1].settings = profile /\ seen'[1].value = value
    BY <2>2
  <2>4. input = value
    BY <2>2, <2>3 DEF HeldInput
  <2>5. GetAlgorithm(profile).iTerm = 0 /\ GetAlgorithm(profile).lastTemp = 0
    BY <2>3, GetAlgorithmFresh
  <2>6. NoAlgo.iTerm = 0 /\ NoAlgo.lastTemp = 0
    BY DEF NoAlgo
  <2> QED BY <2>2, <2>3, <2>4, <2>5, <2>6 DEF Calculate
<1> QED BY <1>1, InstanceCorrect, PTL DEF Spec, FreshStart

-----------------------------------------------------------------------------
(* The duty.                                                               *)

\* The readings are numbers, and what users send has the types of the API.
LEMMA Assumed ==
    /\ \A r \in Reading : ProperReading(r)
    /\ \A s \in Created : DOMAIN s = Fields /\ Proper(s)
    /\ \A e \in Edit : /\ "params" \in DOMAIN e => ProperParams(e.params)
                       /\ "inputs" \in DOMAIN e => ProperInputs(e.inputs)
<1>1. \A s \in Created : DOMAIN s = Fields /\ ValidProfile(s)
  BY ProfileDutyAssumption
<1>2. ASSUME NEW s \in Created PROVE ProperParams(s.params) /\ ProperInputs(s.inputs)
  <2>1. "params" \in DOMAIN s /\ "inputs" \in DOMAIN s
    BY <1>1 DEF Fields
  <2> QED
    BY <2>1, ProfileDutyAssumption
<1> QED
  BY <1>1, <1>2, ProfileDutyAssumption DEF ProperReading, Proper

\* The settings in the database are accepted ones, the readings are the sensors'.
SettingsKept ==
    /\ DOMAIN profile = Fields /\ Proper(profile)
    /\ reading \in Reading /\ active \in BOOLEAN

\* Input, instance and history come and go together.
HistoryKept ==
    /\ lastInput = <<>> \/ \E x \in Int : lastInput = <<x>>
    /\ (seen = <<>>) = (lastInput = <<>>)
    /\ seen # <<>> =>
          /\ Len(seen) = 1
          /\ Proper(seen[1].settings) /\ seen[1].reading \in Reading
          /\ seen[1].value = CalculateInputValue(seen[1].settings, seen[1].reading)

NumbersKept ==
    /\ algo.iTerm \in Int /\ algo.iTerm <= 10000 /\ -algo.iTerm <= 10000
    /\ algo.lastTemp \in Int
    /\ duty \in 0..100

\* What hysteresis has made of the input: the duty is that of an input which is
\* nearer to the real one than the hysteresis is wide.
InputHeld ==
    seen # <<>> /\ seen[1].settings.algorithm # "pid" =>
        LET h == seen[1].settings.hysteresis
            slack == IF h > 0 THEN h - 1 ELSE 0
        IN  /\ duty = Calculate(seen[1].settings, NoAlgo, lastInput[1])
            /\ AbsDiff(seen[1].value, lastInput[1]) <= slack

DutyOK == Instance /\ SettingsKept /\ HistoryKept /\ NumbersKept /\ InputHeld

\* An edit that is accepted leaves accepted settings.
LEMMA UpdateProper ==
    ASSUME DOMAIN profile = Fields, Proper(profile), NEW e \in Edit, Update(e)
    PROVE  DOMAIN profile' = Fields /\ Proper(profile')
<1>1. /\ profile' = [f \in Fields |-> IF f \in DOMAIN e THEN e[f] ELSE profile[f]]
      /\ ValidProfile(profile')
  BY DEF Update, Merged
<1>2. /\ profile'.params = IF "params" \in DOMAIN e THEN e.params ELSE profile.params
      /\ profile'.inputs = IF "inputs" \in DOMAIN e THEN e.inputs ELSE profile.inputs
  BY <1>1 DEF Fields
<1>3. ProperParams(profile'.params) /\ ProperInputs(profile'.inputs)
  BY <1>2, Assumed DEF Proper
<1> QED
  BY <1>1, <1>3 DEF Proper

\* What a cycle leaves: the input that was held, the duty and the instance that
\* come of it, and itself as the history.
LEMMA ComputeLeaves ==
    ASSUME DutyOK, Compute
    PROVE  LET value == CalculateInputValue(profile, reading)
               input == HeldInput(profile, value)
               instance == GetAlgorithm(profile)
           IN  /\ value \in Int /\ input \in Int
               /\ instance.iTerm \in Int /\ instance.lastTemp \in Int
               /\ lastInput' = <<input>>
               /\ duty' = Calculate(profile, instance, input)
               /\ algo' = Updated(profile, instance, input)
               /\ seen' = <<[settings |-> profile, reading |-> reading, value |-> value]>>
               /\ UNCHANGED <<profile, active, reading>>
<1> DEFINE value == CalculateInputValue(profile, reading)
<1>1. /\ lastInput' = <<HeldInput(profile, value)>>
      /\ duty' = Calculate(profile, GetAlgorithm(profile), HeldInput(profile, value))
      /\ algo' = Updated(profile, GetAlgorithm(profile), HeldInput(profile, value))
      /\ seen' = <<[settings |-> profile, reading |-> reading, value |-> value]>>
      /\ UNCHANGED <<profile, active, reading>>
  BY DEF Compute
<1>2. value \in Int
  BY Assumed, InputTyped DEF DutyOK, SettingsKept
<1>3. HeldInput(profile, value) \in Int
  <2> HIDE DEF value
  <2> QED
    BY <1>2 DEF HeldInput, DutyOK, HistoryKept
<1>4. GetAlgorithm(profile).iTerm \in Int /\ GetAlgorithm(profile).lastTemp \in Int
  BY DEF GetAlgorithm, NoAlgo, DutyOK, NumbersKept
<1> QED
  BY <1>1, <1>2, <1>3, <1>4

\* Hysteresis holds the input back by less than its width.
LEMMA HeldNear ==
    ASSUME NEW settings, settings.hysteresis \in 0..100, settings.algorithm # "pid",
           NEW value \in Int, lastInput = <<>> \/ \E x \in Int : lastInput = <<x>>
    PROVE  AbsDiff(value, HeldInput(settings, value))
               <= (IF settings.hysteresis > 0 THEN settings.hysteresis - 1 ELSE 0)
<1> DEFINE h == settings.hysteresis
<1>0. h \in 0..100
  OBVIOUS
<1> HIDE DEF h
<1>1. h \in Int /\ h >= 0
  BY <1>0
<1>2. HeldInput(settings, value) = value \/
         /\ h > 0 /\ lastInput[1] \in Int
         /\ HeldInput(settings, value) = lastInput[1] /\ AbsDiff(value, lastInput[1]) < h
  BY DEF HeldInput, h
<1>3. CASE HeldInput(settings, value) = value
  BY <1>1, <1>3 DEF AbsDiff, h
<1>4. CASE HeldInput(settings, value) # value
  BY <1>1, <1>2, <1>4 DEF AbsDiff, h
<1> QED
  BY <1>3, <1>4

\* Without a PID the instance does not matter.
LEMMA InstanceUnused ==
    ASSUME NEW settings, settings.algorithm # "pid", NEW x, NEW y, NEW input
    PROVE  Calculate(settings, x, input) = Calculate(settings, y, input)
<1>1. settings.algorithm = "linear" \/ settings.algorithm = "step"
          \/ settings.algorithm \notin {"linear", "step", "pid"}
  OBVIOUS
<1> QED
  BY <1>1 DEF Calculate

\* What a PID remembers is bounded after every cycle.
LEMMA UpdatedTyped ==
    ASSUME Instance, NumbersKept, NEW settings, Proper(settings), NEW input \in Int
    PROVE  LET new == Updated(settings, GetAlgorithm(settings), input)
           IN  /\ new.iTerm \in Int /\ new.iTerm <= 10000 /\ -new.iTerm <= 10000
               /\ new.lastTemp \in Int
<1> DEFINE instance == GetAlgorithm(settings)
<1>1. instance = [sig |-> instance.sig, iTerm |-> instance.iTerm,
                  lastTemp |-> instance.lastTemp]
  BY GetAlgorithmFresh
<1>2. /\ instance.iTerm \in Int /\ instance.iTerm <= 10000 /\ -instance.iTerm <= 10000
      /\ instance.lastTemp \in Int
  BY DEF GetAlgorithm, NoAlgo, NumbersKept
<1> HIDE DEF instance
<1>3. CASE settings.algorithm = "pid"
  <2> DEFINE error == input - Param(settings.params, "setpoint", 700)
             i == Integrated(settings.params, instance.iTerm, error)
  <2>1. ValidPid(settings.params) /\ ProperParams(settings.params)
    BY <1>3 DEF Proper, ValidProfile
  <2>2. error \in Int
    <3>1. Param(settings.params, "setpoint", 700) \in Int
      BY <2>1 DEF ValidPid, Within, Param
    <3> QED
      BY <3>1
  <2>3. i \in Int /\ i <= 10000 /\ -i <= 10000
    <3> HIDE DEF error
    <3> QED
      BY <1>2, <2>1, <2>2, IntegralBounded
  <2>4. /\ Updated(settings, instance, input).iTerm = i
        /\ Updated(settings, instance, input).lastTemp = input
    <3>1. Updated(settings, instance, input)
              = [[instance EXCEPT !.iTerm = i] EXCEPT !.lastTemp = input]
      BY <1>1, <1>3 DEF Updated
    <3> HIDE DEF i
    <3> QED
      BY <1>1, <3>1
  <2> HIDE DEF error, i
  <2> QED
    BY <2>3, <2>4 DEF instance
<1>4. CASE settings.algorithm # "pid"
  BY <1>2, <1>4 DEF Updated, instance
<1> QED
  BY <1>3, <1>4

\* A cycle keeps the invariant.
LEMMA ComputeKeeps == ASSUME DutyOK, Instance', Compute PROVE DutyOK'
<1> DEFINE value == CalculateInputValue(profile, reading)
           input == HeldInput(profile, value)
           instance == GetAlgorithm(profile)
<1>1. /\ value \in Int /\ input \in Int
      /\ instance.iTerm \in Int /\ instance.lastTemp \in Int
      /\ lastInput' = <<input>>
      /\ duty' = Calculate(profile, instance, input)
      /\ algo' = Updated(profile, instance, input)
      /\ seen' = <<[settings |-> profile, reading |-> reading, value |-> value]>>
      /\ UNCHANGED <<profile, active, reading>>
  BY ComputeLeaves
<1>2. /\ Instance /\ NumbersKept /\ Proper(profile) /\ reading \in Reading
      /\ lastInput = <<>> \/ \E x \in Int : lastInput = <<x>>
  BY DEF DutyOK, SettingsKept, HistoryKept
<1>3. SettingsKept'
  BY <1>1 DEF DutyOK, SettingsKept
<1>4. /\ seen' # <<>> /\ Len(seen') = 1 /\ seen'[1].settings = profile
      /\ seen'[1].reading = reading /\ seen'[1].value = value
  BY <1>1
<1>5. lastInput' # <<>> /\ lastInput'[1] = input
  BY <1>1
<1>6. HistoryKept'
  <2> HIDE DEF input
  <2> QED
    BY <1>1, <1>2, <1>4, <1>5 DEF HistoryKept
<1>7. NumbersKept'
  <2> DEFINE new == Updated(profile, instance, input)
  <2>1. new.iTerm \in Int /\ new.iTerm <= 10000 /\ -new.iTerm <= 10000 /\ new.lastTemp \in Int
    <3> HIDE DEF input
    <3> QED
      BY <1>1, <1>2, UpdatedTyped
  <2>2. Calculate(profile, instance, input) \in 0..100
    <3> HIDE DEF input, instance
    <3> QED
      BY <1>1, <1>2, CalculateTyped
  <2>3. algo' = new
    BY <1>1
  <2> HIDE DEF new, input, instance
  <2> QED
    BY <1>1, <2>1, <2>2, <2>3 DEF NumbersKept
<1>8. InputHeld'
  <2> SUFFICES ASSUME profile.algorithm # "pid"
               PROVE  /\ duty' = Calculate(profile, NoAlgo, input)
                      /\ AbsDiff(value, input) <= (IF profile.hysteresis > 0
                                                   THEN profile.hysteresis - 1 ELSE 0)
    <3> HIDE DEF value, input
    <3> QED
      BY <1>4, <1>5 DEF InputHeld
  <2>1. duty' = Calculate(profile, NoAlgo, input)
    BY <1>1, InstanceUnused
  <2>2. profile.hysteresis \in 0..100
    BY <1>2 DEF Proper, ValidProfile
  <2> HIDE DEF value
  <2> QED
    BY <1>1, <1>2, <2>1, <2>2, HeldNear
<1> QED
  BY <1>3, <1>6, <1>7, <1>8 DEF DutyOK

\* The parts of the invariant that a cycle relates stay as they are when none of
\* what it writes changes.
LEMMA RestKeeps ==
    ASSUME DutyOK, Instance', SettingsKept', UNCHANGED <<lastInput, algo, duty, seen>>
    PROVE  DutyOK'
BY DEF DutyOK, HistoryKept, NumbersKept, InputHeld

\* In every reachable state the duty is that of the cycle in the history, of an
\* input hysteresis may have held back, with bounded memory (computeFanSpeed,
\* services/controller.go).
THEOREM DutyKept == Spec => []DutyOK
<1>1. Init => DutyOK
  <2> SUFFICES ASSUME Init PROVE DutyOK
    OBVIOUS
  <2>1. Instance
    BY DEF Init, Instance, NoAlgo
  <2>2. SettingsKept
    BY Assumed DEF Init, SettingsKept
  <2>3. HistoryKept /\ InputHeld
    BY DEF Init, HistoryKept, InputHeld
  <2>4. NumbersKept
    BY DEF Init, NumbersKept, NoAlgo
  <2> QED
    BY <2>1, <2>2, <2>3, <2>4 DEF DutyOK
<1>2. DutyOK /\ Instance' /\ [Next]_vars => DutyOK'
  <2> SUFFICES ASSUME DutyOK, Instance', [Next]_vars PROVE DutyOK'
    OBVIOUS
  <2>1. ASSUME NEW e \in Edit, Update(e) PROVE DutyOK'
    <3>1. DOMAIN profile' = Fields /\ Proper(profile')
      BY <2>1, UpdateProper DEF DutyOK, SettingsKept
    <3>2. SettingsKept'
      BY <2>1, <3>1 DEF Update, DutyOK, SettingsKept
    <3> QED
      BY <2>1, <3>2, RestKeeps DEF Update
  <2>2. ASSUME NEW on \in BOOLEAN, SetActive(on) PROVE DutyOK'
    <3>1. SettingsKept'
      BY <2>2 DEF SetActive, DutyOK, SettingsKept
    <3> QED
      BY <2>2, <3>1, RestKeeps DEF SetActive
  <2>3. CASE Sense
    <3>1. SettingsKept'
      BY <2>3 DEF Sense, DutyOK, SettingsKept
    <3> QED
      BY <2>3, <3>1, RestKeeps DEF Sense
  <2>4. CASE Compute
    BY <2>4, ComputeKeeps
  <2>5. CASE Prune
    <3>1. SettingsKept'
      BY <2>5 DEF Prune, DutyOK, SettingsKept
    <3>2. HistoryKept' /\ InputHeld'
      BY <2>5 DEF Prune, HistoryKept, InputHeld
    <3>3. NumbersKept'
      BY <2>5 DEF Prune, NumbersKept, NoAlgo, DutyOK
    <3> QED
      BY <3>1, <3>2, <3>3 DEF DutyOK
  <2>6. CASE UNCHANGED vars
    <3>1. SettingsKept'
      BY <2>6 DEF vars, DutyOK, SettingsKept
    <3> QED
      BY <2>6, <3>1, RestKeeps DEF vars
  <2> QED
    BY <2>1, <2>2, <2>3, <2>4, <2>5, <2>6 DEF Next
<1> QED
  BY <1>1, <1>2, InstanceCorrect, PTL DEF Spec

\* Whatever was accepted, the duty is a percentage, the PID's integral term is
\* bounded and the history belongs to the last cycle.
THEOREM TypeCorrect == Spec => []TypeOK
<1>1. DutyOK => TypeOK
  <2> SUFFICES ASSUME DutyOK PROVE TypeOK
    OBVIOUS
  <2>1. active \in BOOLEAN /\ ValidProfile(profile)
    BY DEF DutyOK, SettingsKept, Proper
  <2>2. duty \in 0..100 /\ algo.iTerm <= 10000 /\ -algo.iTerm <= 10000
    BY DEF DutyOK, NumbersKept
  <2>3. Len(lastInput) <= 1 /\ Len(seen) <= 1
    <3>1. Len(<<>>) = 0 /\ \A x : Len(<<x>>) = 1
      OBVIOUS
    <3>2. Len(lastInput) = 0 \/ Len(lastInput) = 1
      BY <3>1 DEF DutyOK, HistoryKept
    <3>3. Len(seen) = 0 \/ Len(seen) = 1
      BY <3>1 DEF DutyOK, HistoryKept
    <3> QED
      BY <3>2, <3>3
  <2>4. (lastInput = <<>>) = (algo = NoAlgo)
    <3>1. (lastInput = <<>>) = (seen = <<>>)
      BY DEF DutyOK, HistoryKept
    <3>2. seen # <<>> => algo.sig # <<>>
      BY DEF DutyOK, Instance, Sig
    <3>3. algo = NoAlgo => algo.sig = <<>>
      BY DEF NoAlgo
    <3>4. seen = <<>> => algo = NoAlgo
      BY DEF DutyOK, Instance
    <3> QED
      BY <3>1, <3>2, <3>3, <3>4
  <2> QED
    BY <2>1, <2>2, <2>3, <2>4 DEF TypeOK
<1> QED
  BY <1>1, DutyKept, PTL

\* Hysteresis holds the input back by less than its own width, whatever the edits
\* and the drift of the sensors: the duty is that of an input that near.
THEOREM DutyFollowsInputCorrect == Spec => []DutyFollowsInput
<1>1. DutyOK => DutyFollowsInput
  <2> SUFFICES ASSUME DutyOK, seen # <<>>, seen[1].settings.algorithm # "pid"
               PROVE  LET settings == seen[1].settings
                          slack == Max({0, settings.hysteresis - 1})
                      IN  \E input \in (seen[1].value - slack)..(seen[1].value + slack) :
                              duty = Calculate(settings, NoAlgo, input)
    BY DEF DutyFollowsInput
  <2> DEFINE settings == seen[1].settings
             h == settings.hysteresis
             value == seen[1].value
             held == lastInput[1]
             slack == Max({0, h - 1})
  <2>1. /\ duty = Calculate(settings, NoAlgo, held)
        /\ AbsDiff(value, held) <= (IF h > 0 THEN h - 1 ELSE 0)
    BY DEF DutyOK, InputHeld
  <2>2. h \in 0..100 /\ Proper(settings)
    BY DEF DutyOK, HistoryKept, Proper, ValidProfile
  <2>3. value \in Int
    BY <2>2, Assumed, InputTyped DEF DutyOK, HistoryKept
  <2>4. held \in Int
    BY DEF DutyOK, HistoryKept
  <2> HIDE DEF value, held
  <2>5. slack = IF h > 0 THEN h - 1 ELSE 0
    <3> HIDE DEF h
    <3> DEFINE S == {0, h - 1}
    <3>1. S # {} /\ S \subseteq Int /\ IsFiniteSet(S)
      <4>1. h - 1 \in Int
        BY <2>2
      <4>2. IsFiniteSet({}) /\ \A T, x : IsFiniteSet(T) => IsFiniteSet(T \cup {x})
        BY FS_EmptySet, FS_AddElement
      <4>3. S = ({} \cup {0}) \cup {h - 1}
        OBVIOUS
      <4> HIDE DEF h
      <4>4. IsFiniteSet(S)
        BY <4>2, <4>3
      <4> QED
        BY <4>1, <4>4
    <3>2. Max(S) \in S /\ \A x \in S : x <= Max(S)
      <4> HIDE DEF S
      <4> QED
        BY <3>1, Extremes
    <3> QED
      BY <2>2, <3>2
  <2> HIDE DEF slack
  <2>6. slack \in Int /\ AbsDiff(value, held) <= slack
    <3> HIDE DEF h
    <3> QED
      BY <2>1, <2>2, <2>5
  <2>7. held \in (value - slack)..(value + slack)
    BY <2>3, <2>4, <2>6 DEF AbsDiff
  <2> QED
    BY <2>1, <2>7 DEF value, slack
<1> QED
  BY <1>1, DutyKept, PTL

\* On a curve that rises, a reading that is nowhere lower never gives a lower
\* duty than the cycle before: neither the projection of loads, nor the
\* aggregation, nor hysteresis, nor the curve turns the order round.
THEOREM HotterNeverSlowerCorrect == Spec => HotterNeverSlower
<1> DEFINE Safe ==
        /\ seen # <<>> /\ seen' # <<>>
        /\ seen[1].settings = seen'[1].settings
        /\ Rises(seen[1].settings)
        /\ Hotter(seen[1].settings, seen[1].reading, seen'[1].reading)
        => duty' >= duty
<1>1. DutyOK /\ [Next]_vars => [Safe]_vars
  <2> SUFFICES ASSUME DutyOK, [Next]_vars, seen # <<>>, seen' # <<>>,
                      seen[1].settings = seen'[1].settings,
                      Rises(seen[1].settings),
                      Hotter(seen[1].settings, seen[1].reading, seen'[1].reading)
               PROVE  duty' >= duty
    OBVIOUS
  <2>1. CASE ~Compute
    <3>1. duty' = duty
      BY <2>1 DEF Next, vars, Update, SetActive, Sense, Prune
    <3>2. duty \in Int
      BY DEF DutyOK, NumbersKept
    <3> QED
      BY <3>1, <3>2
  <2>2. CASE Compute
    <3> DEFINE settings == seen[1].settings
               before == lastInput[1]
               last == seen[1].value
               value == CalculateInputValue(profile, reading)
               input == HeldInput(profile, value)
    <3>1. /\ value \in Int /\ input \in Int
          /\ duty' = Calculate(profile, GetAlgorithm(profile), input)
          /\ seen' = <<[settings |-> profile, reading |-> reading, value |-> value]>>
      BY <2>2, ComputeLeaves
    <3>2. settings = profile /\ seen'[1].reading = reading
      BY <3>1
    <3>3. settings.algorithm # "pid"
      BY DEF Rises
    <3>4. /\ Proper(settings) /\ seen[1].reading \in Reading /\ reading \in Reading
          /\ last = CalculateInputValue(settings, seen[1].reading)
          /\ lastInput # <<>> /\ before \in Int
      BY DEF DutyOK, HistoryKept, SettingsKept
    <3>5. last \in Int
      BY <3>4, Assumed, InputTyped
    <3>6. last <= value
      BY <3>2, <3>4, Assumed, InputMonotone DEF Hotter
    <3>7. /\ duty = Calculate(settings, NoAlgo, before)
          /\ AbsDiff(last, before) <= (IF settings.hysteresis > 0
                                       THEN settings.hysteresis - 1 ELSE 0)
      BY <3>3 DEF DutyOK, InputHeld
    <3>8. before <= input
      <4>1. settings.hysteresis \in 0..100
        BY <3>4 DEF Proper, ValidProfile
      <4> DEFINE h == settings.hysteresis
      <4>2. h \in Int /\ h >= 0
        <5> HIDE DEF h
        <5>1. h \in 0..100
          BY <4>1 DEF h
        <5> QED
          BY <5>1
      <4>3. input = IF h > 0 /\ AbsDiff(value, before) < h THEN before ELSE value
        BY <3>2, <3>3, <3>4 DEF HeldInput
      <4> HIDE DEF h, settings, before, last, value, input
      <4>4. AbsDiff(last, before) <= (IF h > 0 THEN h - 1 ELSE 0)
        BY <3>7 DEF h
      <4> QED
        BY <3>1, <3>4, <3>5, <3>6, <4>2, <4>3, <4>4 DEF AbsDiff
    <3>9. Calculate(settings, NoAlgo, before)
              <= Calculate(settings, GetAlgorithm(profile), input)
      <4> HIDE DEF settings, before, last, value, input
      <4>1. Rises(settings)
        BY DEF settings
      <4> QED
        BY <3>1, <3>4, <3>8, <4>1, CalculateMonotone
    <3>10. duty \in Int /\ duty' = Calculate(settings, GetAlgorithm(profile), input)
      BY <3>1, <3>2 DEF DutyOK, NumbersKept
    <3>11. duty' \in Int
      <4> HIDE DEF input, value
      <4>1. Proper(profile) /\ GetAlgorithm(profile).iTerm \in Int
            /\ GetAlgorithm(profile).lastTemp \in Int
        BY <2>2, ComputeLeaves DEF DutyOK, SettingsKept
      <4>2. duty' \in 0..100
        BY <3>1, <4>1, CalculateTyped
      <4> QED
        BY <4>2
    <3> QED
      BY <3>7, <3>9, <3>10, <3>11
  <2> QED
    BY <2>1, <2>2
<1> QED
  BY <1>1, DutyKept, PTL DEF Spec, HotterNeverSlower
=============================================================================
