------------------------- MODULE TrendMetrics_proofs -------------------------
(***************************************************************************)
(* What the operators of TrendMetrics compute, of streams of any length    *)
(* and any stamps: sums, sequences filled from an array, values in order,  *)
(* medians of groups, the two tests, and what is kept of a stream.         *)
(*                                                                         *)
(* Recursion over packets is a recursive function here; that one exists,   *)
(* and what holds of all its values, is shown step by step (Recursion,     *)
(* Induction). Order is by counting: a value belongs at place i if fewer   *)
(* than i values are below it and i are up to it.                          *)
(***************************************************************************)
EXTENDS TrendMetrics, FiniteSetTheorems, WellFoundedInduction, TLAPS

-----------------------------------------------------------------------------
(* Numbers.                                                                 *)

\* A set of natural numbers has a least element.
LEMMA LeastElement ==
    ASSUME NEW S \in SUBSET Nat, S # {}
    PROVE  \E k \in S : \A j \in S : k <= j
<1> DEFINE R == OpToRel(<, Nat)
<1>1. IsWellFoundedOn(R, Nat)
  BY NatLessThanWellFounded
<1>2. \A x, y \in Nat : x < y => <<x, y>> \in R
  BY DEF OpToRel
<1> HIDE DEF R
<1>3. PICK k \in S : \A j \in S : ~(<<j, k>> \in R)
  BY <1>1, WFMin
<1>4. \A j \in S : ~(j < k)
  BY <1>2, <1>3
<1>5. k \in Nat /\ \A j \in S : j \in Nat
  OBVIOUS
<1>6. \A j \in Nat : ~(j < k) => k <= j
  BY <1>5
<1>7. QED
  BY <1>4, <1>5, <1>6

\* A stream has packets.
LEMMA StreamLength == stream_len \in Nat /\ stream_len > 1
BY MetricAssumption

\* The root of a positive number is positive, and its square no larger than the number.
LEMMA IntSqrtPositive ==
    ASSUME NEW n \in Nat, n > 0
    PROVE  IntSqrt(n) \in Nat /\ IntSqrt(n) > 0 /\ IntSqrt(n) * IntSqrt(n) <= n
<1> DEFINE S == {r \in Nat : n < (r + 1) * (r + 1)}
<1>1. n \in S
  OBVIOUS
<1>2. PICK r \in S : \A j \in S : r <= j
  BY <1>1, LeastElement
<1>3. r \in 0..n
  BY <1>1, <1>2
<1>4. r * r <= n
  <2>1. CASE r = 0
    BY <2>1
  <2>2. CASE r > 0
    <3>1. r - 1 \in Nat /\ ~(r <= r - 1)
      BY <2>2, <1>3
    <3>2. ~(n < ((r - 1) + 1) * ((r - 1) + 1))
      BY <3>1, <1>2
    <3>3. (r - 1) + 1 = r
      BY <1>3
    <3>4. QED
      BY <3>2, <3>3, <1>3
  <2>3. QED
    BY <2>1, <2>2, <1>3
<1>5. r \in 0..n /\ r * r <= n /\ n < (r + 1) * (r + 1)
  BY <1>2, <1>3, <1>4
<1> HIDE DEF S
<1>6. /\ IntSqrt(n) \in 0..n /\ IntSqrt(n) * IntSqrt(n) <= n
      /\ n < (IntSqrt(n) + 1) * (IntSqrt(n) + 1)
  BY <1>5 DEF IntSqrt
<1>7. IntSqrt(n) # 0
  BY <1>6
<1>8. QED
  BY <1>6, <1>7

-----------------------------------------------------------------------------
(* Recursion over packets and values.                                       *)

\* What holds of 0 and goes from each number to the next holds of all.
LEMMA Induction ==
    ASSUME NEW n \in Nat, NEW S \in SUBSET (0..n), 0 \in S,
           \A k \in 0..n-1 : k \in S => k + 1 \in S
    PROVE  \A k \in 0..n : k \in S
<1> DEFINE Bad == (0..n) \ S
<1>1. SUFFICES ASSUME Bad # {} PROVE FALSE
  OBVIOUS
<1>2. Bad \in SUBSET Nat
  OBVIOUS
<1>3. PICK k \in Bad : \A j \in Bad : k <= j
  BY <1>1, <1>2, LeastElement
<1>4. k \in 1..n
  BY <1>3
<1>5. k - 1 \in 0..n-1 /\ ~(k <= k - 1)
  BY <1>4
<1>6. k - 1 \in S
  BY <1>3, <1>5
<1>7. (k - 1) + 1 \in S
  BY <1>5, <1>6
<1> QED
  BY <1>3, <1>4, <1>7

\* The values from x0 on, step by step.
StepsOf(n, X) == [1..n -> [X -> X]]
Runs(f, n, X, x0, step) ==
    f \in [0..n -> X] /\ f[0] = x0 /\ \A k \in 1..n : f[k] = step[k][f[k-1]]

\* A recursive function exists.
LEMMA Recursion ==
    ASSUME NEW X, NEW x0 \in X, NEW n \in Nat, NEW step \in StepsOf(n, X)
    PROVE  \E f : Runs(f, n, X, x0, step)
<1> USE DEF StepsOf
<1> DEFINE Good(f, m) == f[0] = x0 /\ \A k \in 1..m : f[k] = step[k][f[k-1]]
           S == {m \in 0..n : \E f \in [0..m -> X] : Good(f, m)}
<1>1. 0 \in S
  <2>1. [k \in 0..0 |-> x0] \in [0..0 -> X]
    OBVIOUS
  <2>2. Good([k \in 0..0 |-> x0], 0)
    OBVIOUS
  <2>3. \E f \in [0..0 -> X] : Good(f, 0)
    BY <2>1, <2>2
  <2>4. 0 \in 0..n
    OBVIOUS
  <2> HIDE DEF Good
  <2> QED
    BY <2>3, <2>4
<1>2. ASSUME NEW m \in 0..n-1, m \in S
      PROVE  m + 1 \in S
  <2>1. PICK f \in [0..m -> X] : Good(f, m)
    BY <1>2
  <2> DEFINE h == [k \in 0..m+1 |-> IF k = m + 1 THEN step[m+1][f[m]] ELSE f[k]]
  <2>2. h \in [0..m+1 -> X]
    <3>1. m + 1 \in 1..n /\ f[m] \in X
      BY <2>1
    <3>2. step[m+1][f[m]] \in X
      BY <3>1
    <3> QED
      BY <2>1, <3>2
  <2>3. Good(h, m + 1)
    <3>1. h[0] = x0
      BY <2>1
    <3>2. ASSUME NEW k \in 1..m+1 PROVE h[k] = step[k][h[k-1]]
      <4>1. CASE k = m + 1
        BY <4>1
      <4>2. CASE k # m + 1
        <5>1. k \in 1..m /\ k - 1 \in 0..m
          BY <4>2
        <5> QED
          BY <2>1, <5>1
      <4> QED
        BY <4>1, <4>2
    <3> QED
      BY <3>1, <3>2
  <2>4. m + 1 \in 0..n
    OBVIOUS
  <2> QED
    BY <2>2, <2>3, <2>4
<1>3. n \in S
  <2>1. S \in SUBSET (0..n)
    OBVIOUS
  <2> HIDE DEF S
  <2>2. \A m \in 0..n : m \in S
    BY <1>1, <1>2, <2>1, Induction
  <2>3. n \in 0..n
    OBVIOUS
  <2> QED
    BY <2>2, <2>3
<1>4. PICK f \in [0..n -> X] : Good(f, n)
  BY <1>3
<1> QED
  BY <1>4 DEF Runs

-----------------------------------------------------------------------------
(* Sums.                                                                    *)

\* The sums of the first values, as Total adds them up.
Sums(s, f) == f = [n \in 0..Len(s) |-> IF n = 0 THEN 0 ELSE f[n-1] + s[n]]

\* A sum is a number.
LEMMA TotalSums ==
    ASSUME NEW s \in Seq(Int)
    PROVE  \E f \in [0..Len(s) -> Int] : Sums(s, f) /\ Total(s) = f[Len(s)]
<1> DEFINE n == Len(s)
           step == [k \in 1..n |-> [x \in Int |-> x + s[k]]]
<1>0. n \in Nat
  OBVIOUS
<1>1. step \in StepsOf(n, Int)
  BY DEF StepsOf
<1>2. PICK g : Runs(g, n, Int, 0, step)
  <2> HIDE DEF step, n
  <2>1. 0 \in Int
    OBVIOUS
  <2> QED
    BY <1>0, <1>1, <2>1, Recursion
<1>5. Sums(s, g)
  <2>1. ASSUME NEW k \in 0..n
        PROVE  g[k] = IF k = 0 THEN 0 ELSE g[k-1] + s[k]
    <3>1. CASE k = 0
      BY <1>2, <3>1 DEF Runs
    <3>2. CASE k # 0
      <4>1. k \in 1..n /\ k - 1 \in 0..n
        BY <3>2
      <4>2. g[k] = step[k][g[k-1]] /\ g[k-1] \in Int
        BY <1>2, <3>2, <4>1 DEF Runs
      <4> QED
        BY <3>2, <4>1, <4>2
    <3> QED
      BY <3>1, <3>2
  <2>2. g = [k \in 0..n |-> g[k]]
    BY <1>2 DEF Runs
  <2> QED
    BY <2>1, <2>2 DEF Sums
<1>6. \E f : f = [m \in 0..Len(s) |-> IF m = 0 THEN 0 ELSE f[m-1] + s[m]]
  BY <1>5 DEF Sums
<1>7. PICK f : Sums(s, f) /\ Total(s) = f[Len(s)]
  BY <1>6 DEF Total, Sums
<1>8. f \in [0..n -> Int]
  <2> DEFINE R == {k \in 0..n : f[k] \in Int}
  <2>1. 0 \in R
    BY <1>7 DEF Sums
  <2>2. ASSUME NEW k \in 0..n-1, k \in R PROVE k + 1 \in R
    <3>1. k + 1 \in 1..n /\ k + 1 \in 0..n /\ k + 1 # 0 /\ (k + 1) - 1 = k /\ f[k] \in Int
      BY <2>2
    <3>2. f[k+1] = f[k] + s[k+1] /\ s[k+1] \in Int
      BY <1>7, <3>1 DEF Sums
    <3> QED
      BY <3>1, <3>2
  <2>3. R \in SUBSET (0..n)
    OBVIOUS
  <2>4. \A k \in 0..n : k \in R
    <3> HIDE DEF R
    <3> QED
      BY <1>0, <2>1, <2>2, <2>3, Induction
  <2>5. f = [k \in 0..n |-> f[k]]
    BY <1>7 DEF Sums
  <2> QED
    BY <2>4, <2>5
<1> QED
  BY <1>7, <1>8

\* Hence it is an integer.
LEMMA TotalType ==
    ASSUME NEW s \in Seq(Int)
    PROVE  Total(s) \in Int
<1>1. PICK f \in [0..Len(s) -> Int] : Sums(s, f) /\ Total(s) = f[Len(s)]
  BY TotalSums
<1>2. Len(s) \in 0..Len(s)
  OBVIOUS
<1> QED
  BY <1>1, <1>2

\* Larger values have a larger sum.
LEMMA TotalGrows ==
    ASSUME NEW s \in Seq(Int), NEW t \in Seq(Int), Len(s) = Len(t),
           \A i \in 1..Len(s) : s[i] <= t[i]
    PROVE  Total(s) <= Total(t)
<1> DEFINE n == Len(s)
<1>1. PICK f \in [0..n -> Int] : Sums(s, f) /\ Total(s) = f[n]
  BY TotalSums
<1>2. PICK g \in [0..n -> Int] : Sums(t, g) /\ Total(t) = g[n]
  BY TotalSums
<1>3. n \in Nat
  OBVIOUS
<1> DEFINE S == {k \in 0..n : f[k] <= g[k]}
<1>4. 0 \in S
  BY <1>1, <1>2 DEF Sums
<1>5. ASSUME NEW k \in 0..n-1, k \in S
      PROVE  k + 1 \in S
  <2>1. k + 1 \in 1..n /\ k + 1 \in 0..n /\ k + 1 # 0 /\ (k + 1) - 1 = k
    OBVIOUS
  <2>2. f[k+1] = f[k] + s[k+1] /\ g[k+1] = g[k] + t[k+1]
    BY <1>1, <1>2, <2>1 DEF Sums
  <2>3. s[k+1] <= t[k+1] /\ s[k+1] \in Int /\ t[k+1] \in Int
    BY <2>1
  <2>4. k \in 0..n /\ f[k] \in Int /\ g[k] \in Int
    BY <1>1, <1>2
  <2> QED
    BY <1>5, <2>1, <2>2, <2>3, <2>4
<1>6. S \in SUBSET (0..n)
  OBVIOUS
<1>7. n \in S
  <2> HIDE DEF S
  <2>1. \A k \in 0..n : k \in S
    BY <1>3, <1>4, <1>5, <1>6, Induction
  <2> QED
    BY <1>3, <2>1
<1> QED
  BY <1>1, <1>2, <1>7

\* The sum of equal values.
LEMMA TotalOfConstant ==
    ASSUME NEW s \in Seq(Int), NEW c \in Int, \A i \in 1..Len(s) : s[i] = c
    PROVE  Total(s) = Len(s) * c
<1> DEFINE n == Len(s)
<1>1. PICK f \in [0..n -> Int] : Sums(s, f) /\ Total(s) = f[n]
  BY TotalSums
<1>2. n \in Nat
  OBVIOUS
<1> DEFINE S == {k \in 0..n : f[k] = k * c}
<1>3. 0 \in S
  BY <1>1 DEF Sums
<1>4. ASSUME NEW k \in 0..n-1, k \in S
      PROVE  k + 1 \in S
  <2>1. k + 1 \in 1..n /\ k + 1 \in 0..n /\ k + 1 # 0 /\ (k + 1) - 1 = k
    OBVIOUS
  <2>2. f[k+1] = f[k] + s[k+1] /\ s[k+1] = c
    BY <1>1, <2>1 DEF Sums
  <2>3. (k + 1) * c = k * c + c
    OBVIOUS
  <2> QED
    BY <1>4, <2>1, <2>2, <2>3
<1>5. S \in SUBSET (0..n)
  OBVIOUS
<1>6. n \in S
  <2> HIDE DEF S
  <2>1. \A k \in 0..n : k \in S
    BY <1>2, <1>3, <1>4, <1>5, Induction
  <2> QED
    BY <1>2, <2>1
<1> QED
  BY <1>1, <1>6

-----------------------------------------------------------------------------
(* Sequences that are filled from an array.                                 *)

\* v lists values at some indices of D, in the order of the indices.
InOrderOf(order, v, D, values) ==
    /\ order \in [1..Len(v) -> D]
    /\ \A i, j \in 1..Len(v) : i < j => order[i] < order[j]
    /\ \A i \in 1..Len(v) : v[i] = values[order[i]]
Lists(v, D, values) == v \in Seq(Int) /\ \E order : InOrderOf(order, v, D, values)

\* Nothing is listed of no index.
LEMMA ListsNothing ==
    ASSUME NEW D, NEW values
    PROVE  Lists(<<>>, D, values)
<1> DEFINE order == [i \in 1..0 |-> 0]
<1>1. <<>> \in Seq(Int) /\ Len(<<>>) = 0
  OBVIOUS
<1>2. order \in [1..0 -> D]
  OBVIOUS
<1>3. InOrderOf(order, <<>>, D, values)
  BY <1>1, <1>2 DEF InOrderOf
<1> QED
  BY <1>1, <1>3 DEF Lists

\* One more index, behind the others.
AllBelow(D, k) == \A d \in D : d \in Int /\ d < k
LEMMA ListsOneMore ==
    ASSUME NEW D, NEW values, NEW v, Lists(v, D, values),
           NEW k \in Int, AllBelow(D, k), values[k] \in Int
    PROVE  /\ Lists(Append(v, values[k]), D \cup {k}, values)
           /\ Len(Append(v, values[k])) = Len(v) + 1
<1>1. PICK order : InOrderOf(order, v, D, values)
  BY DEF Lists
<1> DEFINE n == Len(v)
           w == Append(v, values[k])
           longer == [i \in 1..n+1 |-> IF i = n + 1 THEN k ELSE order[i]]
<1>2. v \in Seq(Int) /\ n \in Nat
  BY DEF Lists
<1>3. /\ w \in Seq(Int) /\ Len(w) = n + 1 /\ w[n+1] = values[k]
      /\ \A i \in 1..n : w[i] = v[i]
  BY <1>2
<1>4. /\ \A i \in 1..n : order[i] \in D /\ v[i] = values[order[i]]
      /\ \A i, j \in 1..n : i < j => order[i] < order[j]
  BY <1>1 DEF InOrderOf
<1>5. longer \in [1..n+1 -> D \cup {k}]
  BY <1>2, <1>4
<1> HIDE DEF w, n
<1>6. ASSUME NEW i \in 1..n+1, NEW j \in 1..n+1, i < j
      PROVE  longer[i] < longer[j]
  <2>1. i \in 1..n /\ longer[i] = order[i]
    BY <1>2, <1>6
  <2>2. CASE j = n + 1
    BY <1>4, <2>1, <2>2 DEF AllBelow
  <2>3. CASE j # n + 1
    <3>1. j \in 1..n
      BY <1>2, <2>3
    <3> QED
      BY <1>4, <1>6, <2>1, <2>3, <3>1
  <2> QED
    BY <2>2, <2>3
<1>7. ASSUME NEW i \in 1..n+1
      PROVE  w[i] = values[longer[i]]
  <2>1. CASE i = n + 1
    BY <1>3, <2>1
  <2>2. CASE i # n + 1
    <3>1. i \in 1..n
      BY <1>2, <2>2
    <3> QED
      BY <1>3, <1>4, <2>2, <3>1
  <2> QED
    BY <2>1, <2>2
<1> HIDE DEF longer
<1>8. InOrderOf(longer, w, D \cup {k}, values)
  BY <1>3, <1>5, <1>6, <1>7 DEF InOrderOf
<1>9. Lists(w, D \cup {k}, values)
  BY <1>3, <1>8 DEF Lists
<1> QED
  BY <1>3, <1>9 DEF w, n

\* What is listed of some indices is listed of more.
LEMMA ListsMore ==
    ASSUME NEW D, NEW E, D \subseteq E, NEW values, NEW v, Lists(v, D, values)
    PROVE  Lists(v, E, values)
<1>1. PICK order : InOrderOf(order, v, D, values)
  BY DEF Lists
<1>2. InOrderOf(order, v, E, values)
  BY <1>1 DEF InOrderOf
<1> QED
  BY <1>2 DEF Lists

\* Where they all rise, those listed do.
LEMMA ListsRising ==
    ASSUME NEW D, NEW values, NEW v, Lists(v, D, values),
           \A j, k \in D : j < k => values[j] < values[k]
    PROVE  \A i, j \in 1..Len(v) : i < j => v[i] < v[j]
<1>1. PICK order : InOrderOf(order, v, D, values)
  BY DEF Lists
<1> QED
  BY <1>1 DEF InOrderOf

\* The first packets of S.
FirstOf(S, n) == {k \in S : k < n}

\* One packet more.
LEMMA FirstOfNext ==
    ASSUME NEW S \in SUBSET Packets, NEW n \in Nat
    PROVE  /\ AllBelow(FirstOf(S, n), n)
           /\ FirstOf(S, n + 1) = IF n \in S THEN FirstOf(S, n) \cup {n} ELSE FirstOf(S, n)
           /\ IsFiniteSet(FirstOf(S, n)) /\ Cardinality(FirstOf(S, n)) \in Nat
           /\ n \in S => Cardinality(FirstOf(S, n + 1)) = Cardinality(FirstOf(S, n)) + 1
<1>1. stream_len \in Nat /\ Packets \in SUBSET Nat
  BY StreamLength DEF Packets
<1>2. FirstOf(S, n) \in SUBSET (0..n-1)
  <2>1. ASSUME NEW k \in S, k < n PROVE k \in 0..n-1
    BY <1>1, <2>1
  <2> QED
    BY <2>1 DEF FirstOf
<1>3. IsFiniteSet(FirstOf(S, n)) /\ Cardinality(FirstOf(S, n)) \in Nat
  <2>1. 0 \in Int /\ n - 1 \in Int
    OBVIOUS
  <2>2. IsFiniteSet(0..n-1)
    BY <2>1, FS_Interval
  <2> QED
    BY <1>2, <2>2, FS_Subset, FS_CardinalityType
<1>4. FirstOf(S, n + 1) = IF n \in S THEN FirstOf(S, n) \cup {n} ELSE FirstOf(S, n)
  <2>1. ASSUME NEW k \in S PROVE k < n + 1 <=> k < n \/ k = n
    BY <1>1
  <2> QED
    BY <2>1 DEF FirstOf
<1>5. n \notin FirstOf(S, n) /\ AllBelow(FirstOf(S, n), n)
  BY <1>2 DEF FirstOf, AllBelow
<1>6. n \in S => Cardinality(FirstOf(S, n + 1)) = Cardinality(FirstOf(S, n)) + 1
  BY <1>3, <1>4, <1>5, FS_AddElement
<1> QED
  BY <1>3, <1>4, <1>5, <1>6 DEF FirstOf

\* ValuesAt adds the values packet by packet.
Listed(S, values, f) ==
    f = [n \in 0..stream_len |->
            IF n = 0 THEN <<>>
            ELSE IF n - 1 \in S THEN Append(f[n-1], values[n-1]) ELSE f[n-1]]

\* It has such a function.
LEMMA ValuesAtListed ==
    ASSUME NEW S, NEW values, \A k \in S : values[k] \in Int
    PROVE  \E f : Listed(S, values, f) /\ ValuesAt(S, values) = f[stream_len]
<1> DEFINE n == stream_len
           none == <<>>
           step == [k \in 1..n |-> [x \in Seq(Int) |->
                        IF k - 1 \in S THEN Append(x, values[k-1]) ELSE x]]
<1>1. n \in Nat
  BY StreamLength
<1>2. step \in StepsOf(n, Seq(Int))
  <2>1. ASSUME NEW k \in 1..n, NEW x \in Seq(Int)
        PROVE  (IF k - 1 \in S THEN Append(x, values[k-1]) ELSE x) \in Seq(Int)
    <3>1. CASE k - 1 \in S
      <4>1. values[k-1] \in Int
        BY <3>1
      <4>2. Append(x, values[k-1]) \in Seq(Int)
        BY <4>1
      <4> QED
        BY <3>1, <4>2
    <3>2. CASE k - 1 \notin S
      BY <3>2
    <3> QED
      BY <3>1, <3>2
  <2> HIDE DEF n
  <2> QED
    BY <2>1 DEF StepsOf
<1>3. none \in Seq(Int)
  OBVIOUS
<1>4. PICK g : Runs(g, n, Seq(Int), none, step)
  <2> HIDE DEF step, n, none
  <2> QED
    BY <1>1, <1>2, <1>3, Recursion
<1>5. Listed(S, values, g)
  <2>1. ASSUME NEW k \in 0..n
        PROVE  g[k] = IF k = 0 THEN <<>>
                      ELSE IF k - 1 \in S THEN Append(g[k-1], values[k-1]) ELSE g[k-1]
    <3>1. CASE k = 0
      BY <1>4, <3>1 DEF Runs
    <3>2. CASE k # 0
      <4>1. k \in 1..n /\ k - 1 \in 0..n
        BY <1>1, <3>2
      <4>2. g[k] = step[k][g[k-1]] /\ g[k-1] \in Seq(Int)
        BY <1>4, <4>1 DEF Runs
      <4>3. step[k][g[k-1]] = IF k - 1 \in S THEN Append(g[k-1], values[k-1]) ELSE g[k-1]
        BY <4>1, <4>2
      <4> QED
        BY <3>2, <4>2, <4>3
    <3> QED
      BY <3>1, <3>2
  <2>2. g = [k \in 0..n |-> g[k]]
    BY <1>4 DEF Runs
  <2> QED
    BY <2>1, <2>2 DEF Listed
<1>6. \E f : f = [k \in 0..stream_len |->
            IF k = 0 THEN <<>>
            ELSE IF k - 1 \in S THEN Append(f[k-1], values[k-1]) ELSE f[k-1]]
  BY <1>5 DEF Listed
<1> QED
  BY <1>6 DEF ValuesAt, Listed

\* It lists the values at S, all of them.
LEMMA ValuesAtLists ==
    ASSUME NEW S \in SUBSET Packets, NEW values, \A k \in S : values[k] \in Int
    PROVE  Lists(ValuesAt(S, values), S, values) /\ Len(ValuesAt(S, values)) = Cardinality(S)
<1>1. PICK f : Listed(S, values, f) /\ ValuesAt(S, values) = f[stream_len]
  BY ValuesAtListed
<1> DEFINE Good(n) == Lists(f[n], FirstOf(S, n), values)
                      /\ Len(f[n]) = Cardinality(FirstOf(S, n))
           R == {n \in 0..stream_len : Good(n)}
<1>2. stream_len \in Nat
  BY StreamLength
<1>3. f[0] = <<>> /\ FirstOf(S, 0) = {}
  <2>1. 0 \in 0..stream_len
    BY <1>2
  <2>2. \A k \in S : ~(k < 0)
    BY <1>2 DEF Packets
  <2> QED
    BY <1>1, <2>1, <2>2 DEF Listed, FirstOf
<1>4. 0 \in R
  <2>1. Len(<<>>) = 0 /\ Cardinality({}) = 0
    BY FS_EmptySet
  <2>2. 0 \in 0..stream_len
    BY <1>2
  <2> QED
    BY <1>3, <2>1, <2>2, ListsNothing
<1>5. ASSUME NEW n \in 0..stream_len-1, n \in R
      PROVE  n + 1 \in R
  <2>1. /\ n \in Nat /\ n + 1 \in 0..stream_len /\ n + 1 # 0 /\ (n + 1) - 1 = n
    BY <1>2
  <2>2. f[n+1] = IF n \in S THEN Append(f[n], values[n]) ELSE f[n]
    BY <1>1, <2>1 DEF Listed
  <2>3. Good(n)
    BY <1>5
  <2>4. CASE n \in S
    <3>1. f[n+1] = Append(f[n], values[n]) /\ values[n] \in Int
      BY <2>2, <2>4
    <3>2. /\ AllBelow(FirstOf(S, n), n)
          /\ FirstOf(S, n + 1) = FirstOf(S, n) \cup {n}
          /\ Cardinality(FirstOf(S, n + 1)) = Cardinality(FirstOf(S, n)) + 1
      BY <2>1, <2>4, FirstOfNext
    <3>3. n \in Int
      BY <2>1
    <3>4. /\ Lists(Append(f[n], values[n]), FirstOf(S, n) \cup {n}, values)
          /\ Len(Append(f[n], values[n])) = Len(f[n]) + 1
      <4> DEFINE v == f[n]
                 D == FirstOf(S, n)
      <4>1. Lists(v, D, values) /\ AllBelow(D, n) /\ values[n] \in Int
        BY <2>3, <3>1, <3>2
      <4> HIDE DEF v, D, R, Good
      <4>2. \A k \in Int : AllBelow(D, k) /\ values[k] \in Int
              => /\ Lists(Append(v, values[k]), D \cup {k}, values)
                 /\ Len(Append(v, values[k])) = Len(v) + 1
        BY <4>1, ListsOneMore
      <4>3. /\ Lists(Append(v, values[n]), D \cup {n}, values)
            /\ Len(Append(v, values[n])) = Len(v) + 1
        BY <3>3, <4>1, <4>2
      <4> QED
        BY <4>3 DEF v, D
    <3>5. Good(n + 1)
      BY <2>3, <3>1, <3>2, <3>4
    <3> QED
      BY <2>1, <3>5
  <2>5. CASE n \notin S
    <3>1. f[n+1] = f[n] /\ FirstOf(S, n + 1) = FirstOf(S, n)
      BY <2>1, <2>2, <2>5, FirstOfNext
    <3>2. Good(n + 1)
      BY <2>3, <3>1
    <3> QED
      BY <2>1, <3>2
  <2> QED
    BY <2>4, <2>5
<1>6. Good(stream_len)
  <2>1. R \in SUBSET (0..stream_len)
    OBVIOUS
  <2>2. \A n \in 0..stream_len : n \in R
    <3> HIDE DEF R
    <3> QED
      BY <1>2, <1>4, <1>5, <2>1, Induction
  <2>3. stream_len \in 0..stream_len
    BY <1>2
  <2> QED
    BY <2>2, <2>3
<1>7. FirstOf(S, stream_len) = S
  <2>1. \A k \in S : k < stream_len
    BY <1>2 DEF Packets
  <2> QED
    BY <2>1 DEF FirstOf
<1> QED
  BY <1>1, <1>6, <1>7

-----------------------------------------------------------------------------
(* Values in order.                                                         *)

\* Among some values of a sequence there is a largest.
LEMMA LargestValue ==
    ASSUME NEW v \in Seq(Int), NEW D, D \subseteq 1..Len(v), D # {}
    PROVE  \E j \in D : \A k \in D : v[k] <= v[j]
<1> DEFINE First(n) == {k \in D : k <= n}
           Good(n) == First(n) = {} \/ \E j \in First(n) : \A k \in First(n) : v[k] <= v[j]
           S == {n \in 0..Len(v) : Good(n)}
<1>1. Len(v) \in Nat /\ \A k \in D : k \in 1..Len(v) /\ v[k] \in Int
  OBVIOUS
<1>2. 0 \in S
  <2>1. \A k \in D : ~(k <= 0)
    BY <1>1
  <2>2. 0 \in 0..Len(v)
    BY <1>1
  <2> QED
    BY <2>1, <2>2
<1>3. ASSUME NEW n \in 0..Len(v)-1, n \in S
      PROVE  n + 1 \in S
  <2>1. Good(n) /\ n + 1 \in 0..Len(v)
    BY <1>3
  <2>2. First(n + 1) = IF n + 1 \in D THEN First(n) \cup {n + 1} ELSE First(n)
    <3>1. \A k \in D : k <= n + 1 <=> k <= n \/ k = n + 1
      BY <1>1
    <3> QED
      BY <3>1
  <2>3. CASE n + 1 \notin D
    BY <2>1, <2>2, <2>3
  <2>4. CASE n + 1 \in D /\ First(n) = {}
    <3>1. First(n + 1) = {n + 1} /\ v[n+1] <= v[n+1]
      BY <1>1, <2>2, <2>4
    <3>2. Good(n + 1)
      BY <3>1
    <3> QED
      BY <2>1, <3>2
  <2>5. CASE n + 1 \in D /\ First(n) # {}
    <3>1. PICK j \in First(n) : \A k \in First(n) : v[k] <= v[j]
      BY <2>1, <2>5
    <3>2. First(n + 1) = First(n) \cup {n + 1}
      BY <2>2, <2>5
    <3>3. v[j] \in Int /\ v[n+1] \in Int /\ \A k \in First(n) : v[k] \in Int
      BY <1>1, <2>5
    <3> HIDE DEF First
    <3>4. CASE v[j] <= v[n+1]
      <4>1. \A k \in First(n + 1) : v[k] <= v[n+1]
        BY <3>1, <3>2, <3>3, <3>4
      <4>2. Good(n + 1)
        BY <3>2, <4>1
      <4> QED
        BY <2>1, <4>2
    <3>5. CASE v[n+1] <= v[j]
      <4>1. \A k \in First(n + 1) : v[k] <= v[j]
        BY <3>1, <3>2, <3>3, <3>5
      <4>2. Good(n + 1)
        BY <3>1, <3>2, <4>1
      <4> QED
        BY <2>1, <4>2
    <3> QED
      BY <3>3, <3>4, <3>5
  <2> QED
    BY <2>3, <2>4, <2>5
<1>4. Good(Len(v))
  <2>1. S \in SUBSET (0..Len(v))
    OBVIOUS
  <2>2. \A n \in 0..Len(v) : n \in S
    <3> HIDE DEF S
    <3> QED
      BY <1>1, <1>2, <1>3, <2>1, Induction
  <2>3. Len(v) \in 0..Len(v)
    BY <1>1
  <2> QED
    BY <2>2, <2>3
<1>5. First(Len(v)) = D
  <2>1. \A k \in D : k <= Len(v)
    BY <1>1
  <2> QED
    BY <2>1
<1> QED
  BY <1>4, <1>5

\* Which values are below x, and which are not above it.
Under(v, x) == {j \in DOMAIN v : v[j] < x}
Upto(v, x)  == {j \in DOMAIN v : v[j] <= x}

\* There are as many of some indices as there are indices, at most.
LEMMA CountWithin ==
    ASSUME NEW n \in Nat, NEW D, D \subseteq 1..n
    PROVE  IsFiniteSet(D) /\ Cardinality(D) \in Nat /\ Cardinality(D) <= n
<1>1. IsFiniteSet(1..n) /\ Cardinality(1..n) = n
  <2>1. 1 \in Int /\ n \in Int
    OBVIOUS
  <2> QED
    BY <2>1, FS_Interval
<1> QED
  BY <1>1, FS_Subset, FS_CardinalityType

\* How the numbers of values below and up to some value compare.
LEMMA Counts ==
    ASSUME NEW v \in Seq(Int)
    PROVE  \A x \in Int :
           /\ Cardinality(Under(v, x)) \in Nat /\ Cardinality(Upto(v, x)) \in 0..Len(v)
           /\ Cardinality(Under(v, x)) <= Cardinality(Upto(v, x))
           /\ \A y \in Int : x < y => Cardinality(Upto(v, x)) <= Cardinality(Under(v, y))
<1> SUFFICES ASSUME NEW x \in Int
    PROVE  /\ Cardinality(Under(v, x)) \in Nat /\ Cardinality(Upto(v, x)) \in 0..Len(v)
           /\ Cardinality(Under(v, x)) <= Cardinality(Upto(v, x))
           /\ \A y \in Int : x < y => Cardinality(Upto(v, x)) <= Cardinality(Under(v, y))
  OBVIOUS
<1>1. Len(v) \in Nat /\ DOMAIN v = 1..Len(v) /\ \A j \in DOMAIN v : v[j] \in Int
  OBVIOUS
<1>2. \A y : Under(v, y) \subseteq 1..Len(v) /\ Upto(v, y) \subseteq 1..Len(v)
  BY <1>1 DEF Under, Upto
<1>3. Under(v, x) \subseteq Upto(v, x)
  BY <1>1 DEF Under, Upto
<1>4. \A y \in Int : x < y => Upto(v, x) \subseteq Under(v, y)
  BY <1>1 DEF Under, Upto
<1>5. \A y : /\ IsFiniteSet(Under(v, y)) /\ Cardinality(Under(v, y)) \in Nat
             /\ IsFiniteSet(Upto(v, y)) /\ Cardinality(Upto(v, y)) \in 0..Len(v)
  <2>1. ASSUME NEW y
        PROVE  /\ IsFiniteSet(Under(v, y)) /\ Cardinality(Under(v, y)) \in Nat
               /\ IsFiniteSet(Upto(v, y)) /\ Cardinality(Upto(v, y)) \in Nat
               /\ Cardinality(Upto(v, y)) <= Len(v)
    BY <1>1, <1>2, CountWithin
  <2> QED
    BY <1>1, <2>1
<1>6. Cardinality(Under(v, x)) <= Cardinality(Upto(v, x))
  BY <1>3, <1>5, FS_Subset
<1>7. \A y \in Int : x < y => Cardinality(Upto(v, x)) <= Cardinality(Under(v, y))
  BY <1>4, <1>5, FS_Subset
<1> QED
  BY <1>5, <1>6, <1>7

\* For each place there is a value with fewer below it and enough up to it.
LEMMA OrderStatistic ==
    ASSUME NEW v \in Seq(Int), NEW i \in 1..Len(v)
    PROVE  \E j \in 1..Len(v) :
              Cardinality(Under(v, v[j])) < i /\ i <= Cardinality(Upto(v, v[j]))
<1>1. Len(v) \in Nat /\ DOMAIN v = 1..Len(v) /\ \A j \in 1..Len(v) : v[j] \in Int
  OBVIOUS
<1> DEFINE n == Len(v)
           D == {j \in 1..n : i <= Cardinality(Upto(v, v[j]))}
           minus == [j \in 1..n |-> -v[j]]
<1>2. D # {}
  <2>1. PICK j \in 1..n : \A k \in 1..n : v[k] <= v[j]
    <3>1. 1..n # {}
      OBVIOUS
    <3> QED
      BY <3>1, LargestValue
  <2>2. Upto(v, v[j]) = 1..n
    BY <1>1, <2>1 DEF Upto
  <2>3. Cardinality(1..n) = n
    <3>1. 1 \in Int /\ n \in Int /\ ~(1 > n) /\ n - 1 + 1 = n
      BY <1>1
    <3> HIDE DEF n
    <3> QED
      BY <3>1, FS_Interval
  <2>4. i <= n
    BY <1>1
  <2> QED
    BY <2>2, <2>3, <2>4
<1>3. PICK j \in D : \A k \in D : v[j] <= v[k]
  <2>1. minus \in Seq(Int) /\ Len(minus) = n /\ D \subseteq 1..Len(minus)
    BY <1>1
  <2>2. \A k \in D : minus[k] = -v[k] /\ v[k] \in Int
    BY <1>1
  <2> HIDE DEF D, minus
  <2>3. PICK j \in D : \A k \in D : minus[k] <= minus[j]
    BY <1>2, <2>1, LargestValue
  <2>4. ASSUME NEW k \in D PROVE v[j] <= v[k]
    <3>1. minus[k] <= minus[j] /\ minus[k] = -v[k] /\ minus[j] = -v[j]
      BY <2>2, <2>3
    <3>2. v[k] \in Int /\ v[j] \in Int
      BY <2>2
    <3> QED
      BY <3>1, <3>2
  <2> QED
    BY <2>4
<1>4. ASSUME Cardinality(Under(v, v[j])) >= i PROVE FALSE
  <2>1. v[j] \in Int /\ j \in 1..n
    BY <1>1, <1>3
  <2>2. Under(v, v[j]) # {}
    <3>1. Cardinality({}) = 0
      BY FS_EmptySet
    <3>2. i > 0
      OBVIOUS
    <3>3. ~(0 >= i)
      BY <3>2
    <3> QED
      BY <1>4, <3>1, <3>3
  <2>3. PICK k \in Under(v, v[j]) : \A l \in Under(v, v[j]) : v[l] <= v[k]
    <3>1. Under(v, v[j]) \subseteq 1..Len(v)
      BY <1>1 DEF Under
    <3> QED
      BY <2>2, <3>1, LargestValue
  <2>4. k \in 1..n /\ v[k] < v[j] /\ v[k] \in Int
    BY <1>1, <2>3 DEF Under
  <2>5. Under(v, v[j]) \subseteq Upto(v, v[k])
    BY <1>1, <2>3 DEF Under, Upto
  <2>6. Cardinality(Under(v, v[j])) <= Cardinality(Upto(v, v[k]))
    <3>1. Upto(v, v[k]) \subseteq 1..Len(v)
      BY <1>1 DEF Upto
    <3>2. IsFiniteSet(Upto(v, v[k]))
      BY <1>1, <3>1, CountWithin
    <3> QED
      BY <2>5, <3>2, FS_Subset
  <2>7. Cardinality(Under(v, v[j])) \in Nat /\ Cardinality(Upto(v, v[k])) \in Nat
    <3> DEFINE x == v[j]
               y == v[k]
    <3>1. x \in Int /\ y \in Int
      BY <2>1, <2>4
    <3> HIDE DEF x, y, D, minus, n
    <3>2. Cardinality(Under(v, x)) \in Nat /\ Cardinality(Upto(v, y)) \in 0..Len(v)
      BY <3>1, Counts
    <3>3. Cardinality(Upto(v, y)) \in Nat
      BY <3>2
    <3> QED
      BY <3>2, <3>3 DEF x, y
  <2>8. k \in D
    <3>1. i <= Cardinality(Upto(v, v[k]))
      BY <1>4, <2>6, <2>7
    <3> QED
      BY <2>4, <3>1
  <2> QED
    BY <1>3, <2>1, <2>4, <2>8
<1>5. Cardinality(Under(v, v[j])) \in Nat
  BY <1>1, <1>3, Counts
<1>6. Cardinality(Under(v, v[j])) < i
  BY <1>4, <1>5
<1> QED
  BY <1>3, <1>6

\* A sequence in order has its values, and at each place one that belongs there.
LEMMA Ordered ==
    ASSUME NEW v \in Seq(Int)
    PROVE  /\ InOrder(v) \in Seq(Int) /\ Len(InOrder(v)) = Len(v)
           /\ \A i \in 1..Len(v) :
                 /\ \E j \in 1..Len(v) : InOrder(v)[i] = v[j]
                 /\ Cardinality(Under(v, InOrder(v)[i])) < i
                 /\ i <= Cardinality(Upto(v, InOrder(v)[i]))
<1> DEFINE n == Len(v)
           Fits(i, x) == Cardinality(Under(v, x)) < i /\ i <= Cardinality(Upto(v, x))
           at(i) == CHOOSE x \in Range(v) : Fits(i, x)
<1>1. n \in Nat /\ DOMAIN v = 1..n /\ \A j \in 1..n : v[j] \in Int
  OBVIOUS
<1>2. InOrder(v) = [i \in 1..n |-> at(i)]
  BY DEF InOrder, Under, Upto
<1>3. Range(v) = {v[j] : j \in 1..n}
  BY <1>1 DEF Range
<1>4. ASSUME NEW i \in 1..n
      PROVE  at(i) \in Range(v) /\ Fits(i, at(i))
  <2>1. \E x \in Range(v) : Fits(i, x)
    BY <1>3, OrderStatistic
  <2> HIDE DEF Fits
  <2> QED
    BY <2>1
<1> HIDE DEF at, Fits
<1>5. ASSUME NEW i \in 1..n
      PROVE  InOrder(v)[i] = at(i) /\ (\E j \in 1..n : at(i) = v[j]) /\ at(i) \in Int
  BY <1>1, <1>2, <1>3, <1>4
<1>6. InOrder(v) \in Seq(Int) /\ Len(InOrder(v)) = n
  BY <1>1, <1>2, <1>5
<1> QED
  BY <1>4, <1>5, <1>6 DEF Fits

\* It does not fall.
LEMMA OrderedRises ==
    ASSUME NEW v \in Seq(Int), NEW i \in 1..Len(v), NEW j \in 1..Len(v), i <= j
    PROVE  InOrder(v)[i] <= InOrder(v)[j]
<1> DEFINE x == InOrder(v)[i]
           y == InOrder(v)[j]
<1>1. /\ x \in Int /\ y \in Int
      /\ Cardinality(Under(v, x)) < i /\ j <= Cardinality(Upto(v, y))
  <2>1. InOrder(v) \in Seq(Int) /\ Len(InOrder(v)) = Len(v)
    BY Ordered
  <2>2. x \in Int /\ y \in Int
    BY <2>1
  <2> QED
    BY <2>2, Ordered
<1> HIDE DEF x, y
<1>2. y < x => Cardinality(Upto(v, y)) <= Cardinality(Under(v, x))
  BY <1>1, Counts
<1>3. Cardinality(Under(v, x)) \in Nat /\ Cardinality(Upto(v, y)) \in Nat
  BY <1>1, Counts
<1>4. ~(y < x)
  BY <1>1, <1>2, <1>3
<1> QED
  BY <1>1, <1>4 DEF x, y

-----------------------------------------------------------------------------
(* Medians.                                                                 *)

\* Twice a median lies between twice the least and twice the largest value.
LEMMA MedianBetween ==
    ASSUME NEW v \in Seq(Int), Len(v) > 0
    PROVE  /\ MedianTwice(v) \in Int
           /\ \A x \in Int : (\A j \in 1..Len(v) : x <= v[j]) => 2 * x <= MedianTwice(v)
           /\ \A x \in Int : (\A j \in 1..Len(v) : v[j] <= x) => MedianTwice(v) <= 2 * x
<1> DEFINE n == Len(v)
           o == InOrder(v)
           h == n \div 2
           a == IF n % 2 = 0 THEN o[h] ELSE o[h+1]
           b == o[h+1]
<1>1. n \in Nat /\ n > 0 /\ \A j \in 1..n : v[j] \in Int
  OBVIOUS
<1>2. h + 1 \in 1..n /\ (n % 2 = 0 => h \in 1..n)
  BY <1>1
<1>3. \A i \in 1..n : \E j \in 1..n : o[i] = v[j]
  BY Ordered
<1>4. MedianTwice(v) = a + b
  <2>1. \A i \in 1..n : o[i] \in Int
    BY <1>1, <1>3
  <2>2. o[h+1] \in Int
    BY <1>2, <2>1
  <2> QED
    BY <2>2 DEF MedianTwice
<1> HIDE DEF n, o, h
<1>5. (\E j \in 1..n : a = v[j]) /\ (\E j \in 1..n : b = v[j])
  BY <1>2, <1>3
<1> HIDE DEF a, b
<1>6. PICK j \in 1..n, k \in 1..n : a = v[j] /\ b = v[k]
  BY <1>5
<1>7. a \in Int /\ b \in Int
  BY <1>1, <1>6
<1>8. ASSUME NEW x \in Int, \A l \in 1..n : x <= v[l]
      PROVE  2 * x <= MedianTwice(v)
  <2>1. x <= a /\ x <= b
    BY <1>6, <1>8
  <2> QED
    BY <1>4, <1>7, <2>1
<1>9. ASSUME NEW x \in Int, \A l \in 1..n : v[l] <= x
      PROVE  MedianTwice(v) <= 2 * x
  <2>1. a <= x /\ b <= x
    BY <1>6, <1>9
  <2> QED
    BY <1>4, <1>7, <2>1
<1>10. MedianTwice(v) \in Int
  BY <1>4, <1>7
<1> QED
  BY <1>8, <1>9, <1>10 DEF n

\* Group g of per values out of n: it is not empty, and its last value is before the
\* first of the next.
GroupFrom(g, per)  == (g - 1) * per + 1
GroupTo(g, per, n) == Smaller(g * per, n)
GroupsOf(per, n)   == (n + per - 1) \div per
Group(g, per, n) ==
    /\ GroupFrom(g, per) \in 1..n /\ GroupTo(g, per, n) \in 1..n
    /\ GroupFrom(g, per) <= GroupTo(g, per, n)
    /\ GroupTo(g, per, n) < GroupFrom(g + 1, per)
LEMMA Groups ==
    ASSUME NEW n \in Nat, n > 0, NEW per \in Nat, per > 0
    PROVE  GroupsOf(per, n) \in Nat \ {0} /\ \A g \in 1..GroupsOf(per, n) : Group(g, per, n)
<1> DEFINE m == n + per - 1
           q == m \div per
<1>1. m \in Nat /\ m >= per
  OBVIOUS
<1>2. \A a \in Nat, b \in Nat \ {0} : a \div b \in Nat /\ b * (a \div b) <= a /\ a < b * ((a \div b) + 1)
  OBVIOUS
<1> HIDE DEF m
<1>3. q \in Nat /\ per * q <= m /\ m < per * (q + 1)
  BY <1>1, <1>2
<1> HIDE DEF q
<1>4. q # 0
  BY <1>1, <1>3
<1>5. ASSUME NEW g \in 1..q
      PROVE  Group(g, per, n)
  <2> DEFINE p == (g - 1) * per
             gp == g * per
  <2>1. g - 1 \in Nat /\ g \in Nat /\ (g + 1) - 1 = g
    BY <1>3
  <2>2. p \in Nat /\ gp \in Nat /\ gp = p + per
    BY <2>1
  <2>3. gp <= per * q
    <3>1. q - g \in Nat
      BY <1>3, <2>1
    <3>2. (q - g) * per >= 0
      BY <3>1
    <3>3. (q - g) * per = q * per - g * per /\ q * per = per * q
      BY <1>3, <2>1
    <3> QED
      BY <1>3, <2>2, <3>2, <3>3
  <2>4. per * q \in Nat /\ m = n + per - 1
    BY <1>3 DEF m
  <2>5. GroupFrom(g, per) = p + 1 /\ GroupFrom(g + 1, per) = gp + 1
    BY <2>1 DEF GroupFrom
  <2>6. GroupTo(g, per, n) = IF gp < n THEN gp ELSE n
    BY DEF GroupTo, Smaller
  <2> HIDE DEF p, gp
  <2> QED
    BY <1>3, <2>2, <2>3, <2>4, <2>5, <2>6 DEF Group
<1> QED
  BY <1>3, <1>4, <1>5 DEF m, q, GroupsOf

\* The medians of groups: as many as there are groups, each between the least and the
\* largest value of its group.
LEMMA MediansOfGroups ==
    ASSUME NEW d \in Seq(Int), Len(d) > 0
    PROVE  /\ Medians(d) \in Seq(Int) /\ Len(Medians(d)) = GroupCount(Len(d))
           /\ GroupCount(Len(d)) \in Nat \ {0}
           /\ \A g \in 1..GroupCount(Len(d)) :
                LET per == IntSqrt(Len(d)) IN
                /\ Medians(d)[g] \in Int
                /\ \A x \in Int :
                      (\A k \in GroupFrom(g, per)..GroupTo(g, per, Len(d)) : x <= d[k])
                          => 2 * x <= Medians(d)[g]
                /\ \A x \in Int :
                      (\A k \in GroupFrom(g, per)..GroupTo(g, per, Len(d)) : d[k] <= x)
                          => Medians(d)[g] <= 2 * x
<1> DEFINE n == Len(d)
           per == IntSqrt(n)
           G == GroupCount(n)
           from(g) == GroupFrom(g, per)
           to(g) == GroupTo(g, per, n)
           group(g) == SubSeq(d, from(g), to(g))
<1>1. n \in Nat /\ n > 0 /\ \A k \in 1..n : d[k] \in Int
  OBVIOUS
<1>2. per \in Nat /\ per > 0
  BY <1>1, IntSqrtPositive
<1>3. /\ G \in Nat \ {0}
      /\ \A g \in 1..G : from(g) \in 1..n /\ to(g) \in 1..n /\ from(g) <= to(g)
  <2>1. G = GroupsOf(per, n)
    BY DEF GroupCount, GroupsOf
  <2> HIDE DEF n, per, G
  <2> QED
    BY <1>1, <1>2, <2>1, Groups DEF Group
<1>4. Medians(d) = [g \in 1..G |-> MedianTwice(group(g))]
  BY DEF Medians, GroupFrom, GroupTo
<1> HIDE DEF G
<1>5. ASSUME NEW g \in 1..G
      PROVE  /\ MedianTwice(group(g)) \in Int
             /\ \A x \in Int : (\A k \in from(g)..to(g) : x <= d[k]) => 2 * x <= MedianTwice(group(g))
             /\ \A x \in Int : (\A k \in from(g)..to(g) : d[k] <= x) => MedianTwice(group(g)) <= 2 * x
  <2> DEFINE a == from(g)
             b == to(g)
             s == SubSeq(d, a, b)
  <2>1. a \in 1..n /\ b \in 1..n /\ a <= b
    BY <1>3
  <2> HIDE DEF a, b
  <2>2. s \in Seq(Int) /\ Len(s) = b - a + 1 /\ \A j \in 1..b-a+1 : s[j] = d[a + j - 1]
    BY <1>1, <2>1
  <2>3. Len(s) > 0
    BY <1>1, <2>1, <2>2
  <2>4. \A j \in 1..Len(s) : a + j - 1 \in a..b
    BY <1>1, <2>1, <2>2
  <2> HIDE DEF s
  <2>5. MedianTwice(s) \in Int
    BY <2>2, <2>3, MedianBetween
  <2>6. ASSUME NEW x \in Int, \A k \in a..b : x <= d[k]
        PROVE  2 * x <= MedianTwice(s)
    <3>1. \A j \in 1..Len(s) : x <= s[j]
      BY <2>2, <2>4, <2>6
    <3> QED
      BY <2>2, <2>3, <3>1, MedianBetween
  <2>7. ASSUME NEW x \in Int, \A k \in a..b : d[k] <= x
        PROVE  MedianTwice(s) <= 2 * x
    <3>1. \A j \in 1..Len(s) : s[j] <= x
      BY <2>2, <2>4, <2>7
    <3> QED
      BY <2>2, <2>3, <3>1, MedianBetween
  <2> QED
    BY <2>5, <2>6, <2>7 DEF s, a, b
<1> HIDE DEF group
<1>6. \A g \in 1..G : Medians(d)[g] = MedianTwice(group(g))
  BY <1>4
<1>7. Medians(d) \in Seq(Int) /\ Len(Medians(d)) = G
  BY <1>3, <1>4, <1>5
<1> QED
  BY <1>3, <1>5, <1>6, <1>7 DEF G

\* Where the values of two groups do not rise, their medians do not.
LEMMA MediansFall ==
    ASSUME NEW d \in Seq(Int), Len(d) > 0, NEW g \in 1..GroupCount(Len(d))-1,
           LET per == IntSqrt(Len(d)) IN
           \A i, j \in GroupFrom(g, per)..GroupTo(g + 1, per, Len(d)) :
              i < j => d[j] <= d[i]
    PROVE  Medians(d)[g+1] <= Medians(d)[g]
<1> DEFINE n == Len(d)
           per == IntSqrt(n)
           G == GroupCount(n)
<1>1. n \in Nat /\ n > 0 /\ \A k \in 1..n : d[k] \in Int
  OBVIOUS
<1>2. per \in Nat /\ per > 0
  BY <1>1, IntSqrtPositive
<1>3. G \in Nat
  BY MediansOfGroups
<1> DEFINE a1 == GroupFrom(g, per)
           b1 == GroupTo(g, per, n)
           a2 == GroupFrom(g + 1, per)
           b2 == GroupTo(g + 1, per, n)
           x  == d[b1]
<1>4. g \in 1..G /\ g + 1 \in 1..G
  BY <1>3
<1>5. /\ a1 \in 1..n /\ b1 \in 1..n /\ a1 <= b1 /\ b1 < a2
      /\ a2 \in 1..n /\ b2 \in 1..n /\ a2 <= b2
  <2>1. G = GroupsOf(per, n)
    BY DEF GroupCount, GroupsOf
  <2> HIDE DEF n, per, G
  <2>2. Group(g, per, n) /\ Group(g + 1, per, n)
    BY <1>1, <1>2, <1>4, <2>1, Groups
  <2> QED
    BY <2>2 DEF Group
<1>6. /\ Medians(d)[g] \in Int /\ Medians(d)[g+1] \in Int
      /\ \A y \in Int : (\A k \in a1..b1 : y <= d[k]) => 2 * y <= Medians(d)[g]
      /\ \A y \in Int : (\A k \in a2..b2 : d[k] <= y) => Medians(d)[g+1] <= 2 * y
  BY <1>4, MediansOfGroups
<1>7. x \in Int
  BY <1>1, <1>5
<1>11. \A i, j \in a1..b2 : i < j => d[j] <= d[i]
  OBVIOUS
<1> HIDE DEF a1, b1, a2, b2, n, per
<1>8. \A k \in a1..b1 : x <= d[k]
  <2>1. ASSUME NEW k \in a1..b1 PROVE x <= d[k]
    <3>1. /\ k \in 1..n /\ d[k] \in Int /\ (k = b1 \/ k < b1)
          /\ k \in a1..b2 /\ b1 \in a1..b2
      BY <1>1, <1>5
    <3> QED
      BY <1>7, <1>11, <3>1 DEF x
  <2> QED
    BY <2>1
<1>9. \A k \in a2..b2 : d[k] <= x
  <2>1. ASSUME NEW k \in a2..b2 PROVE d[k] <= x
    <3>1. b1 < k /\ k \in a1..b2 /\ b1 \in a1..b2
      BY <1>1, <1>5
    <3> QED
      BY <1>11, <3>1 DEF x
  <2> QED
    BY <2>1
<1> HIDE DEF x
<1>10. 2 * x <= Medians(d)[g] /\ Medians(d)[g+1] <= 2 * x
  BY <1>6, <1>7, <1>8, <1>9
<1> QED
  BY <1>6, <1>7, <1>10

\* The medians of values that rise do.
LEMMA MediansRise ==
    ASSUME NEW d \in Seq(Int), Len(d) > 0,
           \A i, j \in 1..Len(d) : i < j => d[i] < d[j]
    PROVE  \A g \in 1..GroupCount(Len(d))-1 : Medians(d)[g] < Medians(d)[g+1]
<1> DEFINE n == Len(d)
           per == IntSqrt(n)
           G == GroupCount(n)
<1>1. n \in Nat /\ n > 0 /\ \A k \in 1..n : d[k] \in Int
  OBVIOUS
<1>2. per \in Nat /\ per > 0
  BY <1>1, IntSqrtPositive
<1>3. G \in Nat
  BY MediansOfGroups
<1> SUFFICES ASSUME NEW g \in 1..G-1
             PROVE  Medians(d)[g] < Medians(d)[g+1]
  OBVIOUS
<1> DEFINE a1 == GroupFrom(g, per)
           b1 == GroupTo(g, per, n)
           a2 == GroupFrom(g + 1, per)
           b2 == GroupTo(g + 1, per, n)
           x  == d[b1]
           z  == d[a2]
<1>4. g \in 1..G /\ g + 1 \in 1..G
  BY <1>3
<1>5. /\ a1 \in 1..n /\ b1 \in 1..n /\ a1 <= b1 /\ b1 < a2
      /\ a2 \in 1..n /\ b2 \in 1..n /\ a2 <= b2
  <2>1. G = GroupsOf(per, n)
    BY DEF GroupCount, GroupsOf
  <2> HIDE DEF n, per, G
  <2>2. Group(g, per, n) /\ Group(g + 1, per, n)
    BY <1>1, <1>2, <1>4, <2>1, Groups
  <2> QED
    BY <2>2 DEF Group
<1>6. /\ Medians(d)[g] \in Int /\ Medians(d)[g+1] \in Int
      /\ \A y \in Int : (\A k \in a1..b1 : d[k] <= y) => Medians(d)[g] <= 2 * y
      /\ \A y \in Int : (\A k \in a2..b2 : y <= d[k]) => 2 * y <= Medians(d)[g+1]
  BY <1>4, MediansOfGroups
<1>7. x \in Int /\ z \in Int /\ x < z
  BY <1>1, <1>5
<1> HIDE DEF a1, b1, a2, b2, n, per
<1>8. \A k \in a1..b1 : d[k] <= x
  <2>1. ASSUME NEW k \in a1..b1 PROVE d[k] <= x
    <3>1. k \in 1..n /\ d[k] \in Int /\ (k = b1 \/ k < b1)
      BY <1>1, <1>5
    <3>2. CASE k = b1
      BY <1>7, <3>2
    <3>3. CASE k < b1
      <4>1. d[k] < d[b1]
        BY <1>5, <3>1, <3>3 DEF n
      <4> QED
        BY <1>7, <3>1, <4>1
    <3> QED
      BY <3>1, <3>2, <3>3
  <2> QED
    BY <2>1
<1>9. \A k \in a2..b2 : z <= d[k]
  <2>1. ASSUME NEW k \in a2..b2 PROVE z <= d[k]
    <3>1. k \in 1..n /\ d[k] \in Int /\ (k = a2 \/ a2 < k)
      BY <1>1, <1>5
    <3>2. CASE k = a2
      BY <1>7, <3>2
    <3>3. CASE a2 < k
      <4>1. d[a2] < d[k]
        BY <1>5, <3>1, <3>3 DEF n
      <4> QED
        BY <1>7, <3>1, <4>1
    <3> QED
      BY <3>1, <3>2, <3>3
  <2> QED
    BY <2>1
<1> HIDE DEF x, z
<1>10. Medians(d)[g] <= 2 * x /\ 2 * z <= Medians(d)[g+1]
  BY <1>6, <1>7, <1>8, <1>9
<1> QED
  BY <1>6, <1>7, <1>10

-----------------------------------------------------------------------------
(* The tests.                                                               *)

\* The rises counted are between two neighbours.
LEMMA RisesCounted ==
    ASSUME NEW v \in Seq(Int)
    PROVE  Cardinality({i \in 1..Len(v)-1 : v[i] < v[i+1]}) \in Nat
<1> DEFINE D == {i \in 1..Len(v)-1 : v[i] < v[i+1]}
<1>1. Len(v) \in Nat
  OBVIOUS
<1>2. D \subseteq 1..Len(v)
  <2>1. \A i \in 1..Len(v)-1 : i \in 1..Len(v)
    BY <1>1
  <2> QED
    BY <2>1
<1> HIDE DEF D
<1>3. Cardinality(D) \in Nat
  BY <1>1, <1>2, CountWithin
<1> QED
  BY <1>3 DEF D

\* The pairwise comparison is a quotient; of values enough it is not "discarded".
LEMMA PctIsQuotient ==
    ASSUME NEW v \in Seq(Int)
    PROVE  /\ pairwise_comparision_test(v) \in Quotients
           /\ Len(v) >= MIN_PARTITIONED_STREAM_LEN
                 => pairwise_comparision_test(v) # DISCARDED_PCT
<1> DEFINE c == Cardinality({i \in 1..Len(v)-1 : v[i] < v[i+1]})
<1>1. c \in Nat /\ Len(v) \in Nat
  BY RisesCounted
<1>2. pairwise_comparision_test(v) =
          IF Len(v) >= MIN_PARTITIONED_STREAM_LEN THEN <<c, Len(v)>> ELSE DISCARDED_PCT
  BY DEF pairwise_comparision_test
<1> HIDE DEF c
<1>3. <<c, Len(v)>> \in Quotients /\ <<c, Len(v)>> # DISCARDED_PCT
  BY <1>1 DEF Quotients, DISCARDED_PCT
<1>4. DISCARDED_PCT \in Quotients
  BY DEF Quotients, DISCARDED_PCT
<1> QED
  BY <1>2, <1>3, <1>4

\* The ups and downs, and how large they are.
Heights(v) == [i \in DOMAIN Steps(v) |-> Magnitude(Steps(v)[i])]

\* They are one less than the values, and no larger than their size.
LEMMA StepsType ==
    ASSUME NEW v \in Seq(Int), Len(v) > 0
    PROVE  /\ Steps(v) \in Seq(Int) /\ Len(Steps(v)) = Len(v) - 1
           /\ Heights(v) \in Seq(Int) /\ Len(Heights(v)) = Len(v) - 1
           /\ \A i \in 1..Len(v)-1 :
                 /\ Steps(v)[i] = v[i+1] - v[i] /\ Steps(v)[i] <= Heights(v)[i]
                 /\ Steps(v)[i] \in Int /\ Heights(v)[i] = Magnitude(Steps(v)[i])
<1> DEFINE m == Len(v) - 1
<1>1. m \in Nat /\ \A i \in 1..m : v[i] \in Int /\ v[i+1] \in Int
  OBVIOUS
<1>2. Steps(v) = [i \in 1..m |-> v[i+1] - v[i]]
  BY DEF Steps
<1> HIDE DEF m
<1>3. Steps(v) \in Seq(Int) /\ Len(Steps(v)) = m /\ DOMAIN Steps(v) = 1..m
  BY <1>1, <1>2
<1>4. \A i \in 1..m : Steps(v)[i] = v[i+1] - v[i] /\ Steps(v)[i] \in Int
  BY <1>1, <1>2
<1>5. Heights(v) = [i \in 1..m |-> Magnitude(Steps(v)[i])]
  BY <1>3 DEF Heights
<1>6. \A n \in Int : Magnitude(n) \in Int /\ n <= Magnitude(n)
  BY DEF Magnitude
<1>7. \A i \in 1..m : Heights(v)[i] = Magnitude(Steps(v)[i]) /\ Steps(v)[i] <= Heights(v)[i]
                      /\ Heights(v)[i] \in Int
  BY <1>4, <1>5, <1>6
<1>8. Heights(v) \in Seq(Int) /\ Len(Heights(v)) = m
  BY <1>1, <1>5, <1>7
<1> QED
  BY <1>3, <1>4, <1>7, <1>8 DEF m

\* The pairwise difference is a quotient; of values enough it is not "discarded", since
\* what is left in the end is no more than all the ups and downs.
LEMMA PdtIsQuotient ==
    ASSUME NEW v \in Seq(Int)
    PROVE  /\ pairwise_diff_test(v) \in Quotients
           /\ Len(v) >= MIN_PARTITIONED_STREAM_LEN => pairwise_diff_test(v) # DISCARDED_PDT
<1>1. MIN_PARTITIONED_STREAM_LEN \in Nat /\ MIN_PARTITIONED_STREAM_LEN > 0 /\ Len(v) \in Nat
  BY MetricAssumption
<1>2. CASE Len(v) >= MIN_PARTITIONED_STREAM_LEN
  <2> DEFINE a == Total(Steps(v))
             b == Total(Heights(v))
  <2>1. Len(v) > 0
    BY <1>1, <1>2
  <2>2. a \in Int /\ b \in Int
    BY <2>1, StepsType, TotalType
  <2>3. a <= b
    BY <2>1, StepsType, TotalGrows
  <2>4. pairwise_diff_test(v) = <<a, b>>
    BY <1>2 DEF pairwise_diff_test, Heights
  <2> HIDE DEF a, b
  <2>5. <<a, b>> \in Quotients /\ <<a, b>> # DISCARDED_PDT
    BY <2>2, <2>3 DEF Quotients, DISCARDED_PDT
  <2> QED
    BY <2>4, <2>5
<1>3. CASE ~(Len(v) >= MIN_PARTITIONED_STREAM_LEN)
  BY <1>3 DEF pairwise_diff_test, DISCARDED_PDT, Quotients
<1> QED
  BY <1>2, <1>3

\* Where a sequence rises; it falls otherwise, up to place z and behind it.
Rises(v) == {i \in 1..Len(v)-1 : v[i] < v[i+1]}
Turns(v, z) == \A i, j \in 1..Len(v) : i < j /\ (j <= z \/ z < i) => v[j] <= v[i]
Neighbours(R) == \A i, j \in R : i < j => j <= i + 1

\* There are two neighbours at most.
LEMMA TwoNeighbours ==
    ASSUME NEW n \in Nat, NEW R \in SUBSET (1..n), Neighbours(R)
    PROVE  Cardinality(R) \in Nat /\ Cardinality(R) <= 2
<1>1. IsFiniteSet(R) /\ Cardinality(R) \in Nat
  BY CountWithin
<1>2. CASE R = {}
  BY <1>2, FS_EmptySet
<1>3. CASE R # {}
  <2>1. R \in SUBSET Nat
    OBVIOUS
  <2>2. PICK k \in R : \A j \in R : k <= j
    BY <1>3, <2>1, LeastElement
  <2>3. R \subseteq k..k+1
    BY <2>1, <2>2 DEF Neighbours
  <2>4. k \in Nat /\ k..k+1 = {k} \cup {k+1}
    BY <2>1, <2>2
  <2>5. IsFiniteSet({k}) /\ Cardinality({k}) = 1
    BY FS_Singleton
  <2>6. IsFiniteSet({k} \cup {k+1}) /\ Cardinality({k} \cup {k+1}) <= 2
    BY <2>5, FS_AddElement
  <2>7. IsFiniteSet(k..k+1) /\ Cardinality(k..k+1) <= 2 /\ Cardinality(k..k+1) \in Nat
    BY <2>4, <2>6, FS_CardinalityType
  <2>8. Cardinality(R) <= Cardinality(k..k+1)
    BY <2>3, <2>7, FS_Subset
  <2> QED
    BY <1>1, <2>7, <2>8
<1> QED
  BY <1>1, <1>2, <1>3

\* A sequence that turns once rises there only.
LEMMA TurnsOnce ==
    ASSUME NEW v \in Seq(Int), NEW z \in Int, Turns(v, z)
    PROVE  Neighbours(Rises(v))
<1>1. ASSUME NEW i \in Rises(v)
      PROVE  i = z
  <2>1. i \in 1..Len(v) /\ i + 1 \in 1..Len(v) /\ i < i + 1 /\ v[i] < v[i+1]
    BY DEF Rises
  <2>2. v[i] \in Int /\ v[i+1] \in Int
    BY <2>1
  <2>3. ~(i + 1 <= z \/ z < i)
    BY <2>1, <2>2 DEF Turns
  <2> QED
    BY <2>1, <2>3
<1> QED
  BY <1>1 DEF Neighbours

\* Nor do the medians rise elsewhere than in the two groups that go over it.
LEMMA MediansTurn ==
    ASSUME NEW d \in Seq(Int), Len(d) > 0, NEW z \in Int, Turns(d, z)
    PROVE  Neighbours(Rises(Medians(d)))
<1> DEFINE n == Len(d)
           per == IntSqrt(n)
           G == GroupCount(n)
<1>1. n \in Nat /\ n > 0
  OBVIOUS
<1>2. per \in Nat /\ per > 0
  BY <1>1, IntSqrtPositive
<1>3. G \in Nat /\ Medians(d) \in Seq(Int) /\ Len(Medians(d)) = G
  BY MediansOfGroups
<1>4. G = GroupsOf(per, n)
  BY DEF GroupCount, GroupsOf
<1>5. ASSUME NEW g \in Rises(Medians(d))
      PROVE  g \in Int /\ (g - 1) * per + 1 <= z /\ z < (g + 1) * per
  <2>1. g \in 1..G-1 /\ Medians(d)[g] < Medians(d)[g+1]
    BY <1>3 DEF Rises
  <2>2. g \in 1..G /\ g + 1 \in 1..G /\ g \in Int
    BY <1>3, <2>1
  <2>3. Medians(d)[g] \in Int /\ Medians(d)[g+1] \in Int
    BY <1>3, <2>2
  <2>4. ~(Medians(d)[g+1] <= Medians(d)[g])
    BY <2>1, <2>3
  <2>5. ~(\A i, j \in GroupFrom(g, per)..GroupTo(g + 1, per, n) : i < j => d[j] <= d[i])
    BY <2>1, <2>4, MediansFall
  <2>6. PICK i \in GroupFrom(g, per)..GroupTo(g + 1, per, n),
             j \in GroupFrom(g, per)..GroupTo(g + 1, per, n) : i < j /\ ~(d[j] <= d[i])
    BY <2>5
  <2> HIDE DEF per, n, G
  <2>7. Group(g, per, n) /\ Group(g + 1, per, n)
    BY <1>1, <1>2, <1>4, <2>2, Groups
  <2>8. GroupFrom(g, per) \in 1..n /\ GroupTo(g + 1, per, n) \in 1..n
    BY <2>7 DEF Group
  <2>9. i \in 1..n /\ j \in 1..n
    BY <1>1, <2>6, <2>8
  <2>10. i <= z /\ z < j
    BY <1>1, <2>6, <2>9 DEF Turns, n
  <2>11. GroupFrom(g, per) <= z /\ z < GroupTo(g + 1, per, n)
    BY <2>6, <2>8, <2>9, <2>10
  <2>12. (g + 1) * per \in Int /\ (g - 1) * per \in Int
    BY <1>2, <2>2
  <2>13. GroupTo(g + 1, per, n) <= (g + 1) * per
    BY <1>1, <2>12 DEF GroupTo, Smaller
  <2> QED
    BY <2>2, <2>8, <2>11, <2>12, <2>13 DEF GroupFrom
<1>6. ASSUME NEW g \in Rises(Medians(d)), NEW h \in Rises(Medians(d)), g < h
      PROVE  h <= g + 1
  <2>1. g \in Int /\ h \in Int /\ z < (g + 1) * per /\ (h - 1) * per + 1 <= z
    BY <1>5
  <2> HIDE DEF per
  <2>2. (h - 1) * per \in Int /\ (g + 1) * per \in Int
    BY <1>2, <2>1
  <2>3. (h - 1) * per <= (g + 1) * per /\ (h - 1) * per # (g + 1) * per
    BY <2>1, <2>2
  <2>4. ~(h - 1 >= g + 1)
    <3>1. SUFFICES ASSUME h - 1 >= g + 1
                   PROVE  FALSE
      OBVIOUS
    <3>2. (h - 1) - (g + 1) \in Nat
      BY <2>1, <3>1
    <3>3. ((h - 1) - (g + 1)) * per >= 0
      BY <1>2, <3>2
    <3>4. ((h - 1) - (g + 1)) * per = (h - 1) * per - (g + 1) * per
      BY <1>2, <2>1
    <3> QED
      BY <2>2, <2>3, <3>3, <3>4
  <2> QED
    BY <2>1, <2>4
<1> QED
  BY <1>6 DEF Neighbours

\* Two rises among five values and more are no trend.
LEMMA TurnedPct ==
    ASSUME NEW v \in Seq(Int), Neighbours(Rises(v)), MIN_PARTITIONED_STREAM_LEN >= 5
    PROVE  get_pct_trend(pairwise_comparision_test(v)) \in {NOTR, DISCARD}
<1>1. CASE ~(Len(v) >= MIN_PARTITIONED_STREAM_LEN)
  BY <1>1 DEF pairwise_comparision_test, get_pct_trend
<1>2. CASE Len(v) >= MIN_PARTITIONED_STREAM_LEN
  <2> DEFINE n == Len(v)
             c == Cardinality(Rises(v))
             q == <<c, n>>
  <2>1. c \in Nat /\ c <= 2
    <3>1. Rises(v) \in SUBSET (1..n) /\ n \in Nat
      BY DEF Rises
    <3> QED
      BY <3>1, TwoNeighbours
  <2>2. pairwise_comparision_test(v) = q
    BY <1>2 DEF pairwise_comparision_test, Rises
  <2>3. n \in Nat /\ n >= 5
    BY <1>2, MetricAssumption
  <2>4. q[1] = c /\ q[2] = n
    OBVIOUS
  <2> HIDE DEF n, q, c
  <2>5. ~Above(q, 605) /\ Below(q, 495)
    BY <2>1, <2>3, <2>4 DEF Above, Below
  <2>6. get_pct_trend(q) \in {NOTR, DISCARD}
    BY <2>5 DEF get_pct_trend
  <2> QED
    BY <2>2, <2>6
<1> QED
  BY <1>1, <1>2

\* Three values and more that all rise show it in both tests.
LEMMA RisingTests ==
    ASSUME NEW v \in Seq(Int), Len(v) >= MIN_PARTITIONED_STREAM_LEN, Len(v) >= 3,
           \A i \in 1..Len(v)-1 : v[i] < v[i+1]
    PROVE  /\ get_pct_trend(pairwise_comparision_test(v)) = INCR
           /\ get_pdt_trend(pairwise_diff_test(v)) = {INCR}
           /\ pairwise_diff_test(v)[2] # 0
<1> DEFINE n == Len(v)
<1>1. n \in Nat /\ n >= 3
  OBVIOUS
<1>2. get_pct_trend(pairwise_comparision_test(v)) = INCR
  <2>1. {i \in 1..n-1 : v[i] < v[i+1]} = 1..n-1
    OBVIOUS
  <2>2. Cardinality(1..n-1) = n - 1
    <3>1. 1 \in Int /\ n - 1 \in Int /\ ~(1 > n - 1) /\ n - 1 - 1 + 1 = n - 1
      BY <1>1
    <3> HIDE DEF n
    <3> QED
      BY <3>1, FS_Interval
  <2> DEFINE q == <<n - 1, n>>
  <2>3. pairwise_comparision_test(v) = q
    BY <2>1, <2>2 DEF pairwise_comparision_test
  <2>4. q[1] = n - 1 /\ q[2] = n
    OBVIOUS
  <2> HIDE DEF n
  <2>5. q # DISCARDED_PCT
    BY <1>1 DEF DISCARDED_PCT
  <2> HIDE DEF q
  <2>6. Above(q, 605)
    BY <1>1, <2>4 DEF Above
  <2> QED
    BY <2>3, <2>5, <2>6 DEF get_pct_trend
<1>3. get_pdt_trend(pairwise_diff_test(v)) = {INCR} /\ pairwise_diff_test(v)[2] # 0
  <2> DEFINE s == Steps(v)
             a == Total(s)
             ones == [i \in 1..n-1 |-> 1]
             q == <<a, a>>
  <2>1. /\ s \in Seq(Int) /\ Len(s) = n - 1 /\ Heights(v) \in Seq(Int) /\ Len(Heights(v)) = n - 1
        /\ \A i \in 1..n-1 : s[i] = v[i+1] - v[i] /\ Heights(v)[i] = Magnitude(s[i])
    BY <1>1, StepsType
  <2>2. \A i \in 1..n-1 : s[i] \in Int /\ s[i] >= 1
    <3>1. \A i \in 1..n-1 : v[i] \in Int /\ v[i+1] \in Int /\ v[i] < v[i+1]
      OBVIOUS
    <3> HIDE DEF s, n
    <3>2. ASSUME NEW i \in 1..n-1 PROVE s[i] \in Int /\ s[i] >= 1
      <4> DEFINE x == v[i]
                 y == v[i+1]
      <4>1. x \in Int /\ y \in Int /\ x < y
        BY <3>1
      <4>2. s[i] = y - x
        BY <2>1
      <4> HIDE DEF x, y
      <4> QED
        BY <4>1, <4>2
    <3> QED
      BY <3>2
  <2> HIDE DEF s, n
  <2>3. \A i \in 1..n-1 : Heights(v)[i] = s[i]
    BY <2>1, <2>2 DEF Magnitude
  <2>4. Heights(v) = s
    <3>1. Heights(v) = [i \in 1..n-1 |-> Heights(v)[i]] /\ s = [i \in 1..n-1 |-> s[i]]
      BY <2>1
    <3> QED
      BY <2>3, <3>1
  <2>5. a > 0
    <3>1. ones \in Seq(Int) /\ Len(ones) = n - 1 /\ \A i \in 1..n-1 : ones[i] = 1
      BY <1>1
    <3> HIDE DEF ones
    <3>2. Total(ones) = (n - 1) * 1
      <4>1. 1 \in Int /\ \A i \in 1..Len(ones) : ones[i] = 1
        BY <3>1
      <4>2. Total(ones) = Len(ones) * 1
        BY <3>1, <4>1, TotalOfConstant
      <4> QED
        BY <3>1, <4>2
    <3>3. Total(ones) <= Total(s)
      <4>1. Len(ones) = Len(s) /\ \A i \in 1..Len(ones) : ones[i] <= s[i]
        BY <2>1, <2>2, <3>1
      <4> QED
        BY <2>1, <3>1, <4>1, TotalGrows
    <3>4. Total(s) \in Int
      BY <2>1, TotalType
    <3> QED
      BY <1>1, <3>2, <3>3, <3>4
  <2>6. a \in Int
    BY <2>1, TotalType
  <2>7. pairwise_diff_test(v) = q
    BY <2>4 DEF pairwise_diff_test, Heights, s
  <2> HIDE DEF a
  <2>8. q[1] = a /\ q[2] = a /\ q # DISCARDED_PDT
    BY <2>6 DEF DISCARDED_PDT
  <2> HIDE DEF q
  <2>9. Above(q, 440)
    BY <2>5, <2>6, <2>8 DEF Above
  <2>10. q[2] # 0
    BY <2>5, <2>6, <2>8
  <2> QED
    BY <2>7, <2>8, <2>9, <2>10 DEF get_pdt_trend
<1> QED
  BY <1>2, <1>3

-----------------------------------------------------------------------------
(* What is kept of a stream.                                                *)

\* Stamps are numbers, and there is one of each packet.
LEMMA StampsAt ==
    /\ \A x \in Stamps : \A k \in Packets : x[k] \in Int
    /\ Packets \in SUBSET Nat /\ IsFiniteSet(Packets) /\ Cardinality(Packets) = stream_len
<1>1. \A x \in Stamps : \A k \in Packets : x[k] \in Int
  BY DEF Stamps
<1>2. Packets \in SUBSET Nat
  BY StreamLength DEF Packets
<1>3. IsFiniteSet(Packets) /\ Cardinality(Packets) = stream_len
  <2>1. 0 \in Int /\ stream_len-1 \in Int /\ ~(0 > stream_len-1) /\ stream_len-1 - 0 + 1 = stream_len
    BY StreamLength
  <2>2. QED
    BY <2>1, FS_Interval DEF Packets
<1> QED
  BY <1>1, <1>2, <1>3

\* The delays less the least of them.
LEMMA AdjustedType ==
    ASSUME NEW d \in Stamps
    PROVE  /\ LeastDelay(d) \in Int /\ adjust_offset_to_zero(d) \in Stamps
           /\ \A k \in Packets : adjust_offset_to_zero(d)[k] =
                                     IF d[k] # 0 THEN d[k] - LeastDelay(d) ELSE 0
           /\ \A k \in Packets : d[k] # 0 => LeastDelay(d) <= d[k]
<1> DEFINE measured == {d[k] : k \in Packets} \ {0}
           least == LeastDelay(d)
<1>1. \A k \in Packets : d[k] \in Int
  BY StampsAt
<1>2. least \in Int /\ \A k \in Packets : d[k] # 0 => least <= d[k]
  <2>1. CASE measured = {}
    <3>1. \A k \in Packets : d[k] = 0
      BY <2>1
    <3> QED
      BY <2>1, <3>1 DEF LeastDelay
  <2>2. CASE measured # {}
    <3> DEFINE minus == [i \in 1..stream_len |-> -d[i-1]]
               D == {i \in 1..stream_len : d[i-1] # 0}
    <3>0. stream_len \in Nat
      BY StreamLength
    <3>1. \A i \in 1..stream_len : i - 1 \in Packets
      BY StreamLength DEF Packets
    <3>2. minus \in Seq(Int) /\ Len(minus) = stream_len
      BY <1>1, <3>0, <3>1
    <3>3. D # {}
      <4>1. PICK k \in Packets : d[k] # 0
        BY <2>2
      <4>2. k + 1 \in 1..stream_len /\ (k + 1) - 1 = k
        BY <4>1, StreamLength DEF Packets
      <4> QED
        BY <4>1, <4>2
    <3>4. PICK i \in D : \A j \in D : minus[j] <= minus[i]
      <4>1. D \subseteq 1..Len(minus)
        BY <3>2
      <4> HIDE DEF D, minus
      <4> QED
        BY <3>2, <3>3, <4>1, LargestValue
    <3>5. d[i-1] \in measured /\ d[i-1] \in Int
      BY <1>1, <3>1, <3>4
    <3>6. ASSUME NEW e \in measured PROVE d[i-1] <= e
      <4>1. PICK k \in Packets : e = d[k] /\ e # 0
        OBVIOUS
      <4>2. k + 1 \in 1..stream_len /\ (k + 1) - 1 = k
        BY <4>1, StreamLength DEF Packets
      <4>3. k + 1 \in D
        BY <4>1, <4>2
      <4>4. minus[k+1] <= minus[i]
        BY <3>4, <4>3
      <4>5. minus[k+1] = -d[k] /\ minus[i] = -d[i-1] /\ d[k] \in Int
        BY <1>1, <4>1, <4>2
      <4> HIDE DEF minus, D, measured
      <4> QED
        BY <3>5, <4>1, <4>4, <4>5
    <3>7. \E x \in measured : \A e \in measured : x <= e
      BY <3>5, <3>6
    <3>8. LeastDelay(d) \in measured /\ \A e \in measured : LeastDelay(d) <= e
      BY <2>2, <3>7 DEF LeastDelay
    <3>9. \A k \in Packets : d[k] # 0 => d[k] \in measured
      OBVIOUS
    <3> HIDE DEF measured
    <3>10. \A k \in Packets : d[k] # 0 => LeastDelay(d) <= d[k]
      BY <3>8, <3>9
    <3>11. LeastDelay(d) \in Int
      BY <1>1, <3>8 DEF measured
    <3> QED
      BY <3>10, <3>11
  <2> QED
    BY <2>1, <2>2
<1> HIDE DEF least
<1>3. adjust_offset_to_zero(d) = [k \in Packets |-> IF d[k] # 0 THEN d[k] - least ELSE 0]
  BY DEF adjust_offset_to_zero, least
<1>4. adjust_offset_to_zero(d) \in Stamps
  BY <1>1, <1>2, <1>3 DEF Stamps
<1> QED
  BY <1>2, <1>3, <1>4 DEF least

\* Rounding gives the nearest number.
LEMMA RoundedIsNear ==
    ASSUME NEW a \in Nat, NEW m \in Nat, 2 * a > (2 * m - 1) * 100
    PROVE  RoundEven(a, 100) >= m
<1> DEFINE q == a \div 100
           r == a % 100
<1>1. q \in Nat /\ r \in 0..99 /\ a = 100 * q + r
  OBVIOUS
<1>2. RoundEven(a, 100) = IF 2 * r > 100 \/ (2 * r = 100 /\ q % 2 = 1) THEN q + 1 ELSE q
  BY DEF RoundEven
<1> HIDE DEF q, r
<1>3. q >= m \/ (q = m - 1 /\ 2 * r > 100)
  BY <1>1
<1> QED
  BY <1>1, <1>2, <1>3

\* A tenth and a half of a number rounded is not more than the number.
LEMMA DroppedType ==
    ASSUME NEW n \in Nat
    PROVE  RoundEven(15 * n, 100) \in 0..n
<1> DEFINE q == (15 * n) \div 100
           r == (15 * n) % 100
<1>1. q \in Nat /\ r \in 0..99 /\ 15 * n = 100 * q + r
  OBVIOUS
<1>2. RoundEven(15 * n, 100) = IF 2 * r > 100 \/ (2 * r = 100 /\ q % 2 = 1) THEN q + 1 ELSE q
  BY DEF RoundEven
<1> HIDE DEF q, r
<1>3. CASE RoundEven(15 * n, 100) = q + 1 /\ 2 * r >= 100
  BY <1>1, <1>3
<1>4. CASE RoundEven(15 * n, 100) = q
  BY <1>1, <1>4
<1> QED
  BY <1>1, <1>2, <1>3, <1>4

\* The known gaps of a stream, and those of them that are not dropped.
Known(snd) == {k \in 0..stream_len-2 : GapKnown(snd, k)}
Gaps(snd)  == ValuesAt(Known(snd), [k \in Known(snd) |-> Gap(snd, k)])
LEMMA IntervalsType ==
    ASSUME NEW snd \in Stamps
    PROVE  /\ Known(snd) \in SUBSET Packets /\ Gaps(snd) \in Seq(Int)
           /\ Lists(Gaps(snd), Known(snd), [k \in Known(snd) |-> Gap(snd, k)])
           /\ Len(Gaps(snd)) = Cardinality(Known(snd))
           /\ SenderIntervals(snd) \in Seq(Int)
           /\ Len(SenderIntervals(snd))
                  = Len(Gaps(snd)) - RoundEven(15 * Len(Gaps(snd)), 100)
           /\ \A i \in 1..Len(SenderIntervals(snd)) :
                  SenderIntervals(snd)[i] = InOrder(Gaps(snd))[i]
<1> DEFINE gap == [k \in Known(snd) |-> Gap(snd, k)]
<1>1. Known(snd) \in SUBSET Packets /\ \A k \in Known(snd) : k + 1 \in Packets
  BY StreamLength DEF Known, Packets
<1>2. \A k \in Known(snd) : gap[k] \in Int
  <2>1. \A k \in Known(snd) : snd[k] \in Int /\ snd[k+1] \in Int
    BY <1>1, StampsAt
  <2> QED
    BY <2>1 DEF Gap
<1>3. Lists(Gaps(snd), Known(snd), gap) /\ Len(Gaps(snd)) = Cardinality(Known(snd))
  <2> HIDE DEF gap
  <2>1. Lists(ValuesAt(Known(snd), gap), Known(snd), gap)
        /\ Len(ValuesAt(Known(snd), gap)) = Cardinality(Known(snd))
    BY <1>1, <1>2, ValuesAtLists
  <2> QED
    BY <2>1 DEF Gaps, gap
<1>4. Gaps(snd) \in Seq(Int)
  BY <1>3 DEF Lists
<1> DEFINE o == InOrder(Gaps(snd))
           n == Len(Gaps(snd))
           m == n - RoundEven(15 * n, 100)
<1>5. o \in Seq(Int) /\ Len(o) = n
  BY <1>4, Ordered
<1>6. n \in Nat
  BY <1>4
<1>7. m \in 0..n
  <2> HIDE DEF n
  <2>1. RoundEven(15 * n, 100) \in 0..n
    BY <1>6, DroppedType
  <2> QED
    BY <1>6, <2>1
<1>8. SenderIntervals(snd) = SubSeq(o, 1, m)
  BY <1>5 DEF SenderIntervals, Gaps, Known
<1> HIDE DEF o, m
<1>9. SubSeq(o, 1, m) \in Seq(Int) /\ Len(SubSeq(o, 1, m)) = m
      /\ \A i \in 1..m : SubSeq(o, 1, m)[i] = o[i]
  BY <1>5, <1>6, <1>7
<1> QED
  BY <1>1, <1>3, <1>4, <1>8, <1>9 DEF o, m

-----------------------------------------------------------------------------
(* Bursts.                                                                  *)

\* check_intr_coalescence counts whole numbers.
Counters == [b2b : Nat, tmp : Nat, burst : Nat]
NoCount  == [b2b |-> 0, tmp |-> 0, burst |-> 0]
CountStep(arrv, acc, i) ==
    IF arrv[i] - arrv[i-1] <= CoalescedGap
    THEN [acc EXCEPT !.b2b = @ + 1, !.tmp = @ + 1]
    ELSE IF acc.tmp >= 3 THEN [acc EXCEPT !.tmp = 0, !.burst = @ + 1]
    ELSE acc

\* A packet more.
LEMMA CountStepType ==
    ASSUME NEW arrv, NEW acc \in Counters, NEW i
    PROVE  CountStep(arrv, acc, i) \in Counters
<1> DEFINE c1 == [acc EXCEPT !.b2b = acc.b2b + 1]
           c2 == [acc EXCEPT !.tmp = 0]
           more  == [c1 EXCEPT !.tmp = acc.tmp + 1]
           ended == [c2 EXCEPT !.burst = acc.burst + 1]
<1>1. acc.b2b \in Nat /\ acc.tmp \in Nat /\ acc.burst \in Nat
  BY DEF Counters
<1>2. more \in Counters /\ ended \in Counters
  <2>1. c1 \in Counters /\ c2 \in Counters
    BY <1>1 DEF Counters
  <2>2. \A c \in Counters, i1 \in Nat :
          [c EXCEPT !.tmp = i1] \in Counters /\ [c EXCEPT !.burst = i1] \in Counters
    BY DEF Counters
  <2>3. acc.tmp + 1 \in Nat /\ acc.burst + 1 \in Nat
    BY <1>1
  <2> HIDE DEF c1, c2
  <2> QED
    BY <2>1, <2>2, <2>3
<1>3. [acc EXCEPT !.b2b = @ + 1, !.tmp = @ + 1] = more
  BY DEF Counters
<1>4. [acc EXCEPT !.tmp = 0, !.burst = @ + 1] = ended
  BY DEF Counters
<1> HIDE DEF more, ended
<1>5. CountStep(arrv, acc, i) \in {more, ended, acc}
  BY <1>3, <1>4 DEF CountStep
<1> QED
  BY <1>2, <1>5

\* The counters of all packets.
LEMMA BurstsType ==
    ASSUME NEW arrv, NEW len \in 0..stream_len
    PROVE  /\ check_intr_coalescence(arrv, len).ic \in BOOLEAN
           /\ check_intr_coalescence(arrv, len).bursts \in Nat
<1> DEFINE n == stream_len - 1
           step == [i \in 1..n |-> [acc \in Counters |->
                       IF i < 2 THEN NoCount ELSE CountStep(arrv, acc, i)]]
<1>1. n \in Nat /\ Packets = 0..n
  BY StreamLength DEF Packets
<1>2. NoCount \in Counters
  BY DEF NoCount, Counters
<1>3. step \in StepsOf(n, Counters)
  BY <1>2, CountStepType DEF StepsOf
<1>4. PICK g : Runs(g, n, Counters, NoCount, step)
  <2> HIDE DEF step, n
  <2> QED
    BY <1>1, <1>2, <1>3, Recursion
<1>5. \E f : f = [i \in Packets |-> IF i < 2 THEN NoCount ELSE CountStep(arrv, f[i-1], i)]
  <2>1. ASSUME NEW i \in 0..n
        PROVE  g[i] = IF i < 2 THEN NoCount ELSE CountStep(arrv, g[i-1], i)
    <3>1. CASE i = 0
      BY <1>4, <3>1 DEF Runs
    <3>2. CASE i # 0
      <4>1. i \in 1..n /\ i - 1 \in 0..n
        BY <1>1, <3>2
      <4>2. g[i] = step[i][g[i-1]] /\ g[i-1] \in Counters
        BY <1>4, <4>1 DEF Runs
      <4> HIDE DEF n
      <4>3. step[i][g[i-1]] = IF i < 2 THEN NoCount ELSE CountStep(arrv, g[i-1], i)
        BY <4>1, <4>2
      <4> QED
        BY <4>2, <4>3
    <3> QED
      BY <3>1, <3>2
  <2>2. g = [i \in 0..n |-> g[i]]
    BY <1>4 DEF Runs
  <2>3. g = [i \in Packets |-> IF i < 2 THEN NoCount ELSE CountStep(arrv, g[i-1], i)]
    <3> HIDE DEF n
    <3> QED
      BY <1>1, <2>1, <2>2
  <2> QED
    BY <2>3
<1> DEFINE c == check_intr_coalescence(arrv, len)
           last == Larger(0, len - 1)
<1>6. PICK f : /\ f = [i \in Packets |-> IF i < 2 THEN NoCount ELSE CountStep(arrv, f[i-1], i)]
               /\ c = [ic |-> f[last].b2b * 10 > 6 * len, bursts |-> f[last].burst]
  BY <1>5 DEF check_intr_coalescence, CountStep, NoCount
<1> DEFINE S == {i \in 0..n : f[i] \in Counters}
<1>7. 0 \in S
  BY <1>1, <1>2, <1>6
<1>8. ASSUME NEW i \in 0..n-1, i \in S
      PROVE  i + 1 \in S
  <2>1. i + 1 \in 0..n /\ (i + 1) - 1 = i /\ f[i] \in Counters
    BY <1>1, <1>8
  <2>2. f[i+1] = IF i + 1 < 2 THEN NoCount ELSE CountStep(arrv, f[i], i + 1)
    BY <1>1, <1>6, <2>1
  <2>3. f[i+1] \in Counters
    BY <1>2, <2>1, <2>2, CountStepType
  <2> QED
    BY <2>1, <2>3
<1>9. \A i \in 0..n : i \in S
  <2>1. S \in SUBSET (0..n)
    OBVIOUS
  <2> HIDE DEF S, n
  <2> QED
    BY <1>1, <1>7, <1>8, <2>1, Induction
<1>10. last \in 0..n
  <2>1. last = IF 0 > len - 1 THEN 0 ELSE len - 1
    BY DEF Larger
  <2>2. stream_len \in Nat /\ stream_len > 1 /\ n = stream_len - 1 /\ len \in 0..stream_len
    BY StreamLength
  <2> HIDE DEF last, n
  <2> QED
    BY <2>1, <2>2
<1>11. f[last] \in Counters
  BY <1>9, <1>10
<1> HIDE DEF last, c
<1>12. f[last].burst \in Nat
  BY <1>11 DEF Counters
<1>13. c.ic = (f[last].b2b * 10 > 6 * len) /\ c.bursts = f[last].burst
  BY <1>6
<1>14. c.ic \in BOOLEAN
  BY <1>13
<1> QED
  BY <1>12, <1>13, <1>14 DEF c

\* eliminate_b2b_pkt_ic: the packets it may keep, and how it adds them.
BurstEnds(arrv, first, high, t) == {k \in first..high : GapBehind(arrv, k, t)}
Kept == [tmp : Nat, kept : Seq(Int)]
NoneKept == [tmp |-> 0, kept |-> <<>>]
KeepStep(arrv, d, t, acc, k) ==
    IF ~GapBehind(arrv, k, t) THEN acc
    ELSE IF k < stream_len - 1 /\ Gap(arrv, k) < CoalescedGap
         THEN [acc EXCEPT !.tmp = @ + 1]
    ELSE IF acc.tmp >= 3 THEN [tmp |-> 0, kept |-> Append(acc.kept, d[k])]
    ELSE acc

\* A packet more: it is kept or it is not, and only if there is a gap behind it.
LEMMA KeepStepType ==
    ASSUME NEW arrv, NEW d, NEW t, NEW acc \in Kept, NEW k, d[k] \in Int
    PROVE  /\ KeepStep(arrv, d, t, acc, k) \in Kept
           /\ \/ KeepStep(arrv, d, t, acc, k).kept = acc.kept
              \/ /\ GapBehind(arrv, k, t)
                 /\ KeepStep(arrv, d, t, acc, k).kept = Append(acc.kept, d[k])
<1>1. acc.tmp \in Nat /\ acc.kept \in Seq(Int)
  BY DEF Kept
<1>2. [acc EXCEPT !.tmp = @ + 1] \in Kept /\ [acc EXCEPT !.tmp = @ + 1].kept = acc.kept
  BY DEF Kept
<1>3. Append(acc.kept, d[k]) \in Seq(Int)
  BY <1>1
<1> DEFINE one == [tmp |-> 0, kept |-> Append(acc.kept, d[k])]
<1>4. one \in Kept /\ one.kept = Append(acc.kept, d[k])
  BY <1>3 DEF Kept
<1> HIDE DEF one
<1>5. KeepStep(arrv, d, t, acc, k) =
        IF ~GapBehind(arrv, k, t) THEN acc
        ELSE IF k < stream_len - 1 /\ Gap(arrv, k) < CoalescedGap
             THEN [acc EXCEPT !.tmp = @ + 1]
        ELSE IF acc.tmp >= 3 THEN one
        ELSE acc
  BY DEF KeepStep, one
<1>6. CASE ~GapBehind(arrv, k, t)
  BY <1>5, <1>6
<1>7. CASE GapBehind(arrv, k, t) /\ (k < stream_len - 1 /\ Gap(arrv, k) < CoalescedGap)
  BY <1>2, <1>5, <1>7
<1>8. CASE GapBehind(arrv, k, t) /\ ~(k < stream_len - 1 /\ Gap(arrv, k) < CoalescedGap)
  <2>1. CASE acc.tmp >= 3
    BY <1>4, <1>5, <1>8, <2>1
  <2>2. CASE ~(acc.tmp >= 3)
    BY <1>5, <1>8, <2>2
  <2> QED
    BY <2>1, <2>2
<1> QED
  BY <1>6, <1>7, <1>8

\* It lists delays of packets with a gap behind them, in their order.
LEMMA BurstsListed ==
    ASSUME NEW arrv, NEW d \in Stamps, NEW l \in Packets, NEW h \in Packets, l <= h, NEW t
    PROVE  Lists(LastOfBursts(arrv, d, l, h, t), BurstEnds(arrv, l, h, t), d)
<1> DEFINE n == h - l + 1
           D == BurstEnds(arrv, l, h, t)
           step == [i \in 1..n |-> [acc \in Kept |-> KeepStep(arrv, d, t, acc, l + i - 1)]]
<1>1. l \in Nat /\ h \in Nat /\ n \in Nat /\ l..h \subseteq Packets
  BY StreamLength DEF Packets
<1>2. \A i \in 1..n : l + i - 1 \in l..h /\ d[l + i - 1] \in Int
  <2>1. \A i \in 1..n : l + i - 1 \in l..h
    BY <1>1
  <2>2. \A k \in l..h : d[k] \in Int
    BY <1>1, StampsAt
  <2> HIDE DEF n
  <2> QED
    BY <2>1, <2>2
<1>3. NoneKept \in Kept /\ NoneKept.kept = <<>>
  BY DEF NoneKept, Kept
<1>4. step \in StepsOf(n, Kept)
  <2>1. \A i \in 1..n : \A acc \in Kept : KeepStep(arrv, d, t, acc, l + i - 1) \in Kept
    BY <1>2, KeepStepType
  <2> HIDE DEF n
  <2> QED
    BY <2>1 DEF StepsOf
<1>5. PICK g : Runs(g, n, Kept, NoneKept, step)
  <2> HIDE DEF step, n
  <2> QED
    BY <1>1, <1>3, <1>4, Recursion
<1>6. \E f : f = [i \in 0..n |-> IF i = 0 THEN NoneKept
                                 ELSE KeepStep(arrv, d, t, f[i-1], l + i - 1)]
  <2>1. ASSUME NEW i \in 0..n
        PROVE  g[i] = IF i = 0 THEN NoneKept ELSE KeepStep(arrv, d, t, g[i-1], l + i - 1)
    <3>1. CASE i = 0
      BY <1>5, <3>1 DEF Runs
    <3>2. CASE i # 0
      <4>1. i \in 1..n /\ i - 1 \in 0..n
        BY <1>1, <3>2
      <4>2. g[i] = step[i][g[i-1]] /\ g[i-1] \in Kept
        BY <1>5, <4>1 DEF Runs
      <4> HIDE DEF n
      <4>3. step[i][g[i-1]] = KeepStep(arrv, d, t, g[i-1], l + i - 1)
        BY <4>1, <4>2
      <4> QED
        BY <3>2, <4>2, <4>3
    <3> QED
      BY <3>1, <3>2
  <2>2. g = [i \in 0..n |-> g[i]]
    BY <1>5 DEF Runs
  <2> HIDE DEF n
  <2>3. g = [i \in 0..n |-> IF i = 0 THEN NoneKept
                             ELSE KeepStep(arrv, d, t, g[i-1], l + i - 1)]
    BY <2>1, <2>2
  <2> QED
    BY <2>3
<1>7. PICK f : /\ f = [i \in 0..n |-> IF i = 0 THEN NoneKept
                                      ELSE KeepStep(arrv, d, t, f[i-1], l + i - 1)]
               /\ LastOfBursts(arrv, d, l, h, t) = f[n].kept
  BY <1>6 DEF LastOfBursts, KeepStep, NoneKept
<1> DEFINE Before(i) == {k \in D : k < l + i}
           S == {i \in 0..n : f[i] \in Kept /\ Lists(f[i].kept, Before(i), d)}
<1>8. 0 \in S
  <2>1. f[0] = NoneKept /\ 0 \in 0..n
    BY <1>1, <1>7
  <2> QED
    BY <1>3, <2>1, ListsNothing
<1>9. ASSUME NEW i \in 0..n-1, i \in S
      PROVE  i + 1 \in S
  <2> DEFINE k == l + i
  <2>1. i + 1 \in 1..n /\ i + 1 \in 0..n /\ i + 1 # 0 /\ (i + 1) - 1 = i /\ l + (i + 1) - 1 = k
    BY <1>1
  <2>2. k \in l..h /\ k \in Int /\ d[k] \in Int
    BY <1>1, <1>2, <2>1
  <2>3. f[i] \in Kept /\ Lists(f[i].kept, Before(i), d)
    BY <1>9
  <2>4. f[i+1] = KeepStep(arrv, d, t, f[i], k)
    BY <1>7, <2>1
  <2>5. \A m \in D : m \in Int /\ (m < l + (i + 1) <=> m < k \/ m = k)
    BY <1>1 DEF BurstEnds
  <2>6. AllBelow(Before(i), k) /\ Before(i) \subseteq Before(i + 1)
    BY <2>5 DEF AllBelow
  <2>7. k \in D => Before(i + 1) = Before(i) \cup {k}
    BY <2>5
  <2> HIDE DEF Before, n, k
  <2>8. f[i+1] \in Kept
    <3>1. \A m : d[m] \in Int => KeepStep(arrv, d, t, f[i], m) \in Kept
      BY <2>3, KeepStepType
    <3> QED
      BY <2>2, <2>4, <3>1
  <2>9. CASE f[i+1].kept = f[i].kept
    <3>1. Lists(f[i+1].kept, Before(i + 1), d)
      BY <2>3, <2>6, <2>9, ListsMore
    <3> QED
      BY <2>1, <2>8, <3>1
  <2>10. CASE GapBehind(arrv, k, t) /\ f[i+1].kept = Append(f[i].kept, d[k])
    <3>1. k \in D
      BY <2>2, <2>10 DEF BurstEnds
    <3> DEFINE v == f[i].kept
               B == Before(i)
    <3>2. Lists(v, B, d) /\ AllBelow(B, k)
      BY <2>3, <2>6
    <3> HIDE DEF v, B
    <3>3. \A m \in Int : AllBelow(B, m) /\ d[m] \in Int => Lists(Append(v, d[m]), B \cup {m}, d)
      BY <3>2, ListsOneMore
    <3>4. Lists(Append(v, d[k]), B \cup {k}, d)
      BY <2>2, <3>2, <3>3
    <3>5. Lists(f[i+1].kept, Before(i + 1), d)
      BY <2>7, <2>10, <3>1, <3>4 DEF v, B
    <3> QED
      BY <2>1, <2>8, <3>5
  <2>11. \/ f[i+1].kept = f[i].kept
         \/ GapBehind(arrv, k, t) /\ f[i+1].kept = Append(f[i].kept, d[k])
    <3>1. \A m : d[m] \in Int =>
            \/ KeepStep(arrv, d, t, f[i], m).kept = f[i].kept
            \/ /\ GapBehind(arrv, m, t)
               /\ KeepStep(arrv, d, t, f[i], m).kept = Append(f[i].kept, d[m])
      BY <2>3, KeepStepType
    <3> QED
      BY <2>2, <2>4, <3>1
  <2> QED
    BY <2>9, <2>10, <2>11
<1>10. n \in S
  <2>1. S \in SUBSET (0..n)
    OBVIOUS
  <2>2. n \in 0..n
    BY <1>1
  <2> HIDE DEF S, n
  <2>3. \A i \in 0..n : i \in S
    BY <1>1, <1>8, <1>9, <2>1, Induction
  <2> QED
    BY <2>2, <2>3
<1>11. Before(n) \subseteq D
  OBVIOUS
<1> HIDE DEF Before, D, n
<1>12. Lists(f[n].kept, D, d)
  BY <1>10, <1>11, ListsMore
<1> QED
  BY <1>7, <1>12 DEF D

-----------------------------------------------------------------------------
(* The port's metrics.                                                      *)

\* The port's medians are taken of whole groups, which the stream has.
LEMMA PortGroups ==
    ASSUME NEW x \in Stamps
    PROVE  LET n == IntSqrt(stream_len)
               group(g) == [j \in 1..n |-> x[(g-1) * n + j - 1]]
           IN  /\ n \in Nat /\ n > 0 /\ n \div 2 + 1 \in 1..n
               /\ \A g \in 1..n : /\ group(g) \in Seq(Int) /\ Len(group(g)) = n
                                  /\ \A j \in 1..n : (g-1) * n + j - 1 \in Packets
               /\ PortMedians(x) \in Seq(Int) /\ Len(PortMedians(x)) = n
<1> DEFINE n == IntSqrt(stream_len)
           group(g) == [j \in 1..n |-> x[(g-1) * n + j - 1]]
<1>1. n \in Nat /\ n > 0 /\ n * n <= stream_len
  BY StreamLength, IntSqrtPositive
<1> HIDE DEF n
<1>2. n \div 2 + 1 \in 1..n
  BY <1>1
<1>3. ASSUME NEW g \in 1..n, NEW j \in 1..n
      PROVE  (g-1) * n + j - 1 \in Packets
  <2>1. n * n - (g-1) * n = (n - (g-1)) * n
    BY <1>1
  <2>2. n - (g-1) \in Nat \ {0} /\ g - 1 \in Nat
    BY <1>1
  <2>3. (n - (g-1)) * n >= n /\ (g-1) * n >= 0
    BY <1>1, <2>2
  <2>4. (g-1) * n \in Int /\ n * n \in Int
    BY <1>1, <2>2
  <2>5. (g-1) * n + j - 1 >= 0 /\ (g-1) * n + j - 1 <= n * n - 1
    BY <1>1, <2>1, <2>3, <2>4
  <2> QED
    BY <1>1, <2>4, <2>5, StreamLength DEF Packets
<1>4. ASSUME NEW g \in 1..n
      PROVE  group(g) \in Seq(Int) /\ Len(group(g)) = n
  <2>1. \A j \in 1..n : x[(g-1) * n + j - 1] \in Int
    BY <1>3, StampsAt
  <2> QED
    BY <1>1, <2>1
<1>5. \A g \in 1..n : InOrder(group(g))[n \div 2 + 1] \in Int
  <2> SUFFICES ASSUME NEW g \in 1..n
               PROVE  InOrder(group(g))[n \div 2 + 1] \in Int
    OBVIOUS
  <2>1. group(g) \in Seq(Int) /\ Len(group(g)) = n
    BY <1>4
  <2> HIDE DEF group
  <2>2. InOrder(group(g)) \in Seq(Int) /\ Len(InOrder(group(g))) = n
    BY <2>1, Ordered
  <2> QED
    BY <1>2, <2>2
<1>6. PortMedians(x) = [g \in 1..n |-> InOrder(group(g))[n \div 2 + 1]]
  BY DEF PortMedians, n
<1> HIDE DEF group
<1>7. PortMedians(x) \in Seq(Int) /\ Len(PortMedians(x)) = n
  BY <1>1, <1>5, <1>6
<1> QED
  BY <1>1, <1>2, <1>3, <1>4, <1>7 DEF n, group

\* The low bits of a time stamp are no later than it.
LEMMA WrappedType ==
    ASSUME NEW t \in Int
    PROVE  Wrapped(t) \in Int /\ (t >= 0 => Wrapped(t) <= t)
<1> DEFINE half == StampRange \div 2
           x == t + half
<1>1. StampRange \in Nat \ {0} /\ half \in Nat
  BY MetricAssumption
<1>2. x \in Int /\ (t >= 0 => x >= 0)
  BY <1>1
<1>3. Wrapped(t) = (x % StampRange) - half
  BY DEF Wrapped
<1> HIDE DEF half
<1>4. x = t + half
  OBVIOUS
<1> HIDE DEF x
<1>5. x % StampRange \in Int /\ (x >= 0 => x % StampRange <= x)
  BY <1>1, <1>2
<1> QED
  BY <1>1, <1>2, <1>3, <1>4, <1>5

\* The metrics of a stream are quotients, and with medians enough never those of a
\* stream that is discarded.
LEMMA GetMetricsType ==
    ASSUME NEW x \in Stamps
    PROVE  /\ GetMetrics(x).pct \in Quotients /\ GetMetrics(x).pdt \in Quotients
           /\ IntSqrt(stream_len) >= MIN_PARTITIONED_STREAM_LEN =>
                 GetMetrics(x).pct # DISCARDED_PCT /\ GetMetrics(x).pdt # DISCARDED_PDT
<1> DEFINE v == PortMedians(x)
<1>1. v \in Seq(Int) /\ Len(v) = IntSqrt(stream_len)
  BY PortGroups
<1> HIDE DEF v
<1>2. CASE TooLossy(x)
  BY <1>2 DEF GetMetrics, Quotients, DISCARDED_PCT, DISCARDED_PDT
<1>3. CASE ~TooLossy(x)
  <2>1. GetMetrics(x).pct = pairwise_comparision_test(v)
        /\ GetMetrics(x).pdt = PairwiseDifferenceTest(v)
    BY <1>3 DEF GetMetrics, v
  <2>2. PairwiseDifferenceTest(v) \in {<<0, 1>>, pairwise_diff_test(v)}
    BY DEF PairwiseDifferenceTest
  <2>3. <<0, 1>> \in Quotients /\ <<0, 1>> # DISCARDED_PDT
    BY DEF Quotients, DISCARDED_PDT
  <2> QED
    BY <1>1, <2>1, <2>2, <2>3, PctIsQuotient, PdtIsQuotient
<1> QED
  BY <1>2, <1>3
=============================================================================
