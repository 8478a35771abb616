--------------------------- MODULE BucketReadProofs ---------------------------
(***************************************************************************)
(* Theorems about BucketRead: what is in the rows of a read, for every     *)
(* adapter, whatever the interval, the features, the points and the range. *)
(* Right says it of the answer of one adapter, and there is a lemma for    *)
(* each; the state adds that an answer is that of the points there are.    *)
(* Then theorems about DonutSeries, whose jobs work on such rows.          *)
(***************************************************************************)
EXTENDS BucketRead, DonutSeries, FiniteSetTheorems, WellFoundedInduction, TLAPS

USE IntervalAssumption, FeaturesAssumption

-----------------------------------------------------------------------------
\* Numbers and sets of numbers.

\* A set of numbers has a first one.
LEMMA Least ==
  ASSUME NEW T, T \subseteq Nat, T # {}
  PROVE  \E x \in T : \A y \in T : x <= y
<1> DEFINE R == OpToRel(<, Nat)
<1>1. IsWellFoundedOn(R, Nat)
  BY NatLessThanWellFounded
<1> SUFFICES ASSUME NEW x \in T, \A y \in T : ~(<<y, x>> \in R)
             PROVE  \A y \in T : x <= y
  <2> HIDE DEF R
  <2> QED BY <1>1, WFMin
<1>2. \A y \in T : ~(y < x)
  BY DEF OpToRel
<1>3. x \in Nat /\ \A y \in T : y \in Nat
  OBVIOUS
<1> HIDE DEF R
<1> QED BY <1>2, <1>3

\* A bounded set of integers has a last one.
LEMMA Greatest ==
  ASSUME NEW T, T \subseteq Int, T # {}, NEW m \in Int, \A x \in T : x <= m
  PROVE  \E x \in T : \A y \in T : y <= x
<1> DEFINE G == {m - x : x \in T}
<1>1. \A x \in T : x \in Int /\ m - x \in Nat /\ m - x \in G
  <2> TAKE x \in T
  <2>1. x \in Int /\ x <= m
    OBVIOUS
  <2> QED BY <2>1
<1>2. \E g \in G : \A h \in G : g <= h
  <2>1. G \subseteq Nat /\ G # {}
    BY <1>1
  <2> HIDE DEF G
  <2> QED BY <2>1, Least
<1>3. PICK g \in G : \A h \in G : g <= h
  BY <1>2
<1>4. PICK x \in T : g = m - x
  OBVIOUS
<1>5. ASSUME NEW y \in T PROVE y <= x
  <2>1. g <= m - y
    BY <1>3, <1>1
  <2> QED BY <2>1, <1>4, <1>1
<1> QED BY <1>5

\* A property of 0 that goes from each number to the next.
LEMMA Induct ==
  ASSUME NEW S, 0 \in S, \A n \in Nat : n \in S => n + 1 \in S
  PROVE  Nat \subseteq S
<1> SUFFICES ASSUME Nat \ S # {} PROVE FALSE
  OBVIOUS
<1>1. PICK x \in Nat \ S : \A y \in Nat \ S : x <= y
  BY Least
<1>2. x # 0 /\ x - 1 \in Nat
  BY <1>1
<1>3. x - 1 \in S
  BY <1>1, <1>2
<1> QED BY <1>1, <1>2, <1>3

LEMMA LenIs ==
  ASSUME NEW s, NEW n \in Nat, DOMAIN s = 1..n
  PROVE  Len(s) = n
OBVIOUS

\* Floor is the last multiple of Interval.
LEMMA FloorIs ==
  ASSUME NEW t \in Int
  PROVE  /\ Floor(t) \in Int /\ Ceil(t) \in Int
         /\ t \div Interval \in Int /\ Floor(t) = (t \div Interval) * Interval
         /\ Floor(t) <= t /\ t < Floor(t) + Interval
         /\ t <= Ceil(t) /\ Ceil(t) < t + Interval
BY DEF Floor, Ceil

LEMMA Product ==
  ASSUME NEW k \in Int, NEW j \in Int
  PROVE  /\ k * Interval \in Int
         /\ (k + j) * Interval = k * Interval + j * Interval
         /\ (k - j) * Interval = k * Interval - j * Interval
         /\ (k * Interval) \div Interval = k
         /\ k <= j <=> k * Interval <= j * Interval
         /\ k < j <=> k * Interval < j * Interval
<1>1. k * Interval \in Int /\ (k + j) * Interval = k * Interval + j * Interval
  OBVIOUS
<1>2. (k - j) * Interval = k * Interval - j * Interval /\ (k * Interval) \div Interval = k
  OBVIOUS
<1>3. k <= j => k * Interval <= j * Interval
  OBVIOUS
<1>4. k < j => k * Interval < j * Interval
  OBVIOUS
<1> QED BY <1>1, <1>2, <1>3, <1>4

-----------------------------------------------------------------------------
\* InOrder.

\* How many numbers of a set are no greater than x.
Rank(S, x) == Cardinality({y \in S : y <= x})

\* The greater of two numbers of a set has the greater rank.
LEMMA RankIs ==
  ASSUME NEW S, S \subseteq Int, IsFiniteSet(S)
  PROVE  /\ Cardinality(S) \in Nat
         /\ \A x \in S : Rank(S, x) \in 1..Cardinality(S)
         /\ \A x, z \in S : x < z => Rank(S, x) < Rank(S, z)
<1>1. Cardinality(S) \in Nat
  BY FS_CardinalityType
<1>2. \A x : /\ IsFiniteSet({y \in S : y <= x}) /\ Rank(S, x) \in Nat
             /\ Rank(S, x) <= Cardinality(S)
  <2> TAKE x
  <2>1. IsFiniteSet({y \in S : y <= x}) /\ Cardinality({y \in S : y <= x}) <= Cardinality(S)
    BY FS_Subset, {y \in S : y <= x} \in SUBSET S
  <2> QED BY <2>1, FS_CardinalityType DEF Rank
<1>3. ASSUME NEW x \in S PROVE Rank(S, x) \in 1..Cardinality(S)
  <2>1. {y \in S : y <= x} # {}
    <3>1. x \in Int
      OBVIOUS
    <3> QED BY <3>1
  <2>2. Rank(S, x) # 0
    BY <2>1, <1>2, FS_EmptySet DEF Rank
  <2>3. Rank(S, x) \in Nat /\ Rank(S, x) <= Cardinality(S)
    BY <1>2
  <2> QED BY <2>2, <2>3, <1>1
<1>4. ASSUME NEW x \in S, NEW z \in S, x < z PROVE Rank(S, x) < Rank(S, z)
  <2>0. x \in Int /\ z \in Int /\ \A y \in S : y \in Int
    OBVIOUS
  <2>1. {y \in S : y <= x} \in SUBSET {y \in S : y <= z}
    <3>1. \A y \in S : y <= x => y <= z
      BY <2>0, <1>4
    <3> QED BY <3>1
  <2>2. z \in {y \in S : y <= z} /\ z \notin {y \in S : y <= x}
    BY <2>0, <1>4
  <2>3. Rank(S, x) <= Rank(S, z) /\ Rank(S, x) # Rank(S, z)
    BY <2>1, <2>2, <1>2, FS_Subset DEF Rank
  <2>4. Rank(S, x) \in Nat /\ Rank(S, z) \in Nat
    BY <1>2
  <2> QED BY <2>3, <2>4
<1> QED BY <1>1, <1>3, <1>4

\* InOrder(S) has every number of S once, at the place of its rank.
LEMMA Ordered ==
  ASSUME NEW S, S \subseteq Int, IsFiniteSet(S)
  PROVE  /\ DOMAIN InOrder(S) = 1..Cardinality(S) /\ Len(InOrder(S)) = Cardinality(S)
         /\ \A i \in 1..Cardinality(S) :
              InOrder(S)[i] \in S /\ Rank(S, InOrder(S)[i]) = i
         /\ \A x \in S : InOrder(S)[Rank(S, x)] = x
<1> DEFINE n == Cardinality(S)
           r == [x \in S |-> Rank(S, x)]
<1>0. n \in Nat /\ \A x \in S : Rank(S, x) \in 1..n
  BY RankIs
<1>1. \A x, z \in S : Rank(S, x) = Rank(S, z) => x = z
  <2> SUFFICES ASSUME NEW x \in S, NEW z \in S, x # z PROVE Rank(S, x) # Rank(S, z)
    OBVIOUS
  <2>1. x \in Int /\ z \in Int
    OBVIOUS
  <2>2. x < z \/ z < x
    BY <2>1
  <2>3. Rank(S, x) < Rank(S, z) \/ Rank(S, z) < Rank(S, x)
    BY <2>2, RankIs
  <2> QED BY <2>3, <1>0
<1>2. r \in Injection(S, 1..n)
  BY <1>0, <1>1 DEF Injection, IsInjective
<1>3. IsFiniteSet(1..n) /\ Cardinality(1..n) = n
  BY <1>0, FS_Interval
<1>4. r \in Surjection(S, 1..n)
  BY <1>2, <1>3, FS_Injection
<1>5. \A i \in 1..n : \E x \in S : Rank(S, x) = i
  BY <1>4 DEF Surjection
<1>6. DOMAIN InOrder(S) = 1..n
  BY DEF InOrder
<1>7. ASSUME NEW i \in 1..n
      PROVE  InOrder(S)[i] \in S /\ Rank(S, InOrder(S)[i]) = i
  <2>1. InOrder(S)[i] = CHOOSE x \in S : Rank(S, x) = i
    BY DEF InOrder, Rank
  <2> QED BY <2>1, <1>5
<1>8. ASSUME NEW x \in S PROVE InOrder(S)[Rank(S, x)] = x
  BY <1>0, <1>1, <1>7
<1>9. Len(InOrder(S)) = n
  BY <1>0, <1>6, LenIs
<1> QED BY <1>6, <1>7, <1>8, <1>9

\* What InOrder begins with: the numbers from 1 on as far as none is missing.
LEMMA OrderedFrom1 ==
  ASSUME NEW S, S \subseteq Nat \ {0}, IsFiniteSet(S), NEW f \in Nat \ {0}, 1..f \subseteq S
  PROVE  f \in DOMAIN InOrder(S) /\ InOrder(S)[f] = f
<1>1. f \in S /\ S \subseteq Int
  OBVIOUS
<1>2. {y \in S : y <= f} = 1..f
  <2>1. \A y \in S : y \in Nat \ {0}
    OBVIOUS
  <2>2. \A y \in 1..f : y \in S /\ y <= f
    OBVIOUS
  <2>3. \A y \in S : y <= f => y \in 1..f
    BY <2>1
  <2> QED BY <2>2, <2>3
<1>3. Rank(S, f) = f
  <2>1. Cardinality(1..f) = f
    BY FS_Interval
  <2> QED BY <1>2, <2>1 DEF Rank
<1>4. f \in 1..Cardinality(S)
  BY <1>1, <1>3, RankIs
<1>5. DOMAIN InOrder(S) = 1..Cardinality(S)
  BY <1>1, Ordered
<1> QED BY <1>1, <1>3, <1>4, <1>5, Ordered

-----------------------------------------------------------------------------
\* The results of the features put together by position.

\* The merge is as long as the longest result. Its row j has the time of a
\* result that reaches j, and the value of f is that of the result f.
LEMMA Merged ==
  ASSUME NEW results, NEW m \in Nat, DOMAIN results = 1..m,
         NEW b \in Nat, \A i \in 1..m : Len(results[i]) \in 0..b
  PROVE  /\ Longest(results) \in 0..b
         /\ \A i \in 1..m : Len(results[i]) <= Longest(results)
         /\ DOMAIN Merge(results) = 1..Longest(results)
         /\ Len(Merge(results)) = Longest(results)
         /\ \A j \in 1..Longest(results) :
              /\ \E i \in 1..m : /\ j <= Len(results[i])
                                 /\ Merge(results)[j].time = results[i][j].time
              /\ DOMAIN Merge(results)[j].val = Features
              /\ \A f \in Features :
                   Merge(results)[j].val[f] =
                     IF f \in 1..m /\ j <= Len(results[f]) THEN results[f][j].val ELSE {}
<1> DEFINE lens == {Len(results[i]) : i \in DOMAIN results} \cup {0}
           n == Longest(results)
<1>1. n \in lens /\ \A i \in 1..m : Len(results[i]) <= n
  <2>1. \A x \in lens : x \in 0..b
    OBVIOUS
  <2>2. b \in Int /\ lens \subseteq Int /\ lens # {} /\ \A x \in lens : x <= b
    BY <2>1
  <2>3. \E x \in lens : \A y \in lens : y <= x
    <3> HIDE DEF lens
    <3> QED BY <2>2, Greatest
  <2>4. \E x \in lens : \A i \in DOMAIN results : Len(results[i]) <= x
    BY <2>3
  <2> QED BY <2>4 DEF Longest
<1>2. n \in 0..b
  BY <1>1
<1>3. DOMAIN Merge(results) = 1..n
  BY DEF Merge
<1>4. Len(Merge(results)) = n
  BY <1>2, <1>3, LenIs
<1>5. ASSUME NEW j \in 1..n
      PROVE  \E i \in 1..m : /\ j <= Len(results[i])
                             /\ Merge(results)[j].time = results[i][j].time
  <2> DEFINE Reaches(i) == j <= Len(results[i]) /\ \A h \in 1..(i - 1) : j > Len(results[h])
             reached == {i \in 1..m : j <= Len(results[i])}
  <2>0. j \in Nat \ {0} /\ j <= n
    BY <1>2
  <2>1. reached # {}
    BY <1>1, <2>0
  <2>2. PICK i \in reached : \A h \in reached : i <= h
    <3>1. reached \subseteq Nat
      OBVIOUS
    <3> HIDE DEF reached
    <3> QED BY <2>1, <3>1, Least
  <2>3. Reaches(i)
    <3> SUFFICES ASSUME NEW h \in 1..(i - 1) PROVE j > Len(results[h])
      OBVIOUS
    <3>1. h \in 1..m /\ h < i
      OBVIOUS
    <3>2. ~(j <= Len(results[h]))
      BY <3>1, <2>2
    <3> QED BY <3>1, <3>2, <2>0
  <2>4. \E x \in DOMAIN results : Reaches(x)
    BY <2>3
  <2> DEFINE c == CHOOSE x \in DOMAIN results : Reaches(x)
  <2>5. c \in 1..m /\ Reaches(c)
    BY <2>4
  <2>6. Merge(results)[j].time = results[c][j].time
    BY DEF Merge
  <2> HIDE DEF c
  <2> QED BY <2>5, <2>6
<1>6. ASSUME NEW j \in 1..n
      PROVE  /\ DOMAIN Merge(results)[j].val = Features
             /\ \A f \in Features :
                   Merge(results)[j].val[f] =
                     IF f \in 1..m /\ j <= Len(results[f]) THEN results[f][j].val ELSE {}
  BY DEF Merge
<1> QED BY <1>1, <1>2, <1>3, <1>4, <1>5, <1>6

\* Where every feature has one result, a binning of its own points or nothing.
BinsOf(results, m, ps, who, first, n) ==
  \A i \in 1..m : results[i] = IF Of(ps, who[i]) = {} THEN <<>>
                               ELSE Binned(Of(ps, who[i]), first, n)

MergeOfBins(results, m, ps, who, first, n) ==
  /\ Longest(results) \in 0..n /\ Longest(results) \in {0, n}
  /\ \A i \in 1..m : Of(ps, who[i]) # {} => Longest(results) = n
  /\ DOMAIN Merge(results) = 1..Longest(results)
  /\ Len(Merge(results)) = Longest(results)
  /\ \A j \in 1..Longest(results) :
       /\ Merge(results)[j].time = first + (j - 1) * Interval
       /\ DOMAIN Merge(results)[j].val = Features
       /\ \A f \in Features :
            Merge(results)[j].val[f] =
              IF f \in 1..m THEN Bin(Of(ps, who[f]), first + (j - 1) * Interval) ELSE {}

LEMMA MergedBins ==
  ASSUME NEW results, NEW m \in Nat, DOMAIN results = 1..m, NEW ps, NEW who,
         NEW first \in Int, NEW n \in Nat, BinsOf(results, m, ps, who, first, n)
  PROVE  MergeOfBins(results, m, ps, who, first, n)
<1> USE DEF BinsOf
<1>1. \A p : DOMAIN Binned(p, first, n) = 1..n
  BY DEF Binned
<1>2. \A p : Len(Binned(p, first, n)) = n
  BY <1>1, LenIs
<1>3. ASSUME NEW i \in 1..m
      PROVE  /\ Len(results[i]) \in 0..n
             /\ Of(ps, who[i]) = {} => Len(results[i]) = 0
             /\ Of(ps, who[i]) # {} => Len(results[i]) = n
             /\ Of(ps, who[i]) # {} => results[i] = Binned(Of(ps, who[i]), first, n)
  <2>1. CASE Of(ps, who[i]) = {}
    <3>1. Len(results[i]) = 0
      BY <2>1
    <3> QED BY <3>1, <2>1
  <2>2. CASE Of(ps, who[i]) # {}
    <3>1. results[i] = Binned(Of(ps, who[i]), first, n)
      BY <2>2
    <3>2. Len(results[i]) = n
      BY <3>1, <1>2
    <3> QED BY <3>1, <3>2, <2>2
  <2> QED BY <2>1, <2>2
<1> DEFINE long == Longest(results)
<1>m. /\ long \in 0..n
      /\ \A i \in 1..m : Len(results[i]) <= long
      /\ DOMAIN Merge(results) = 1..long
      /\ Len(Merge(results)) = long
      /\ \A j \in 1..long :
           /\ \E i \in 1..m : /\ j <= Len(results[i])
                              /\ Merge(results)[j].time = results[i][j].time
           /\ DOMAIN Merge(results)[j].val = Features
           /\ \A f \in Features :
                Merge(results)[j].val[f] =
                  IF f \in 1..m /\ j <= Len(results[f]) THEN results[f][j].val ELSE {}
  <2>1. \A i \in 1..m : Len(results[i]) \in 0..n
    BY <1>3
  <2> QED BY <2>1, Merged
<1> HIDE DEF long
<1>4. long \in 0..n /\ DOMAIN Merge(results) = 1..long /\ Len(Merge(results)) = long
  BY <1>m
<1>5. ASSUME NEW i \in 1..m, Of(ps, who[i]) # {} PROVE long = n
  <2>1. Len(results[i]) = n /\ Len(results[i]) <= long
    BY <1>3, <1>5, <1>m
  <2> QED BY <2>1, <1>4
<1>7. ASSUME NEW j \in 1..long
      PROVE  /\ Merge(results)[j].time = first + (j - 1) * Interval
             /\ DOMAIN Merge(results)[j].val = Features
             /\ \A f \in Features :
                  Merge(results)[j].val[f] =
                    IF f \in 1..m THEN Bin(Of(ps, who[f]), first + (j - 1) * Interval) ELSE {}
  <2>0. j \in 1..n
    BY <1>4
  <2>1. ASSUME NEW i \in 1..m, j <= Len(results[i])
        PROVE  /\ Of(ps, who[i]) # {}
               /\ results[i][j].time = first + (j - 1) * Interval
               /\ results[i][j].val = Bin(Of(ps, who[i]), first + (j - 1) * Interval)
    <3>1. Of(ps, who[i]) # {}
      BY <1>3, <2>0, <2>1
    <3>2. results[i] = Binned(Of(ps, who[i]), first, n)
      BY <1>3, <3>1
    <3> QED BY <3>1, <3>2, <2>0 DEF Binned
  <2>2. Merge(results)[j].time = first + (j - 1) * Interval
    <3>1. PICK i \in 1..m : /\ j <= Len(results[i])
                            /\ Merge(results)[j].time = results[i][j].time
      BY <1>m
    <3> QED BY <3>1, <2>1
  <2>3. DOMAIN Merge(results)[j].val = Features
    BY <1>m
  <2>4. ASSUME NEW f \in Features
        PROVE  Merge(results)[j].val[f] =
                 IF f \in 1..m THEN Bin(Of(ps, who[f]), first + (j - 1) * Interval) ELSE {}
    <3>1. Merge(results)[j].val[f] =
            IF f \in 1..m /\ j <= Len(results[f]) THEN results[f][j].val ELSE {}
      BY <1>m
    <3>2. CASE f \in 1..m /\ j <= Len(results[f])
      BY <3>1, <3>2, <2>1
    <3>3. CASE f \in 1..m /\ ~(j <= Len(results[f]))
      <4>1. Of(ps, who[f]) = {}
        <5>1. Of(ps, who[f]) # {} => Len(results[f]) = n
          BY <3>3, <1>3
        <5>2. j <= n
          BY <2>0
        <5> QED BY <3>3, <5>1, <5>2
      <4> QED BY <3>1, <3>3, <4>1 DEF Bin, From
    <3>4. CASE f \notin 1..m
      BY <3>1, <3>4
    <3> QED BY <3>2, <3>3, <3>4
  <2> QED BY <2>2, <2>3, <2>4
<1>8. long \in {0, n}
  <2> SUFFICES ASSUME \A i \in 1..m : Of(ps, who[i]) = {} PROVE long = 0
    BY <1>5
  <2>1. \A i \in 1..m : Len(results[i]) = 0
    BY <1>3
  <2>2. 0 \in Nat /\ \A i \in 1..m : Len(results[i]) \in 0..0
    BY <2>1
  <2>3. Longest(results) \in 0..0
    BY <2>2, Merged
  <2> QED BY <2>3 DEF long
<1> QED BY <1>4, <1>5, <1>7, <1>8 DEF long, MergeOfBins

-----------------------------------------------------------------------------
\* The buckets of a range.

LEMMA BucketsIs ==
  ASSUME NEW j \in Int, NEW k \in Int
  PROVE  Buckets(j * Interval, k * Interval) = k - j
<1>1. k * Interval - j * Interval = (k - j) * Interval
  BY Product
<1>2. k - j \in Int /\ ((k - j) * Interval) \div Interval = k - j
  BY Product
<1> QED BY <1>1, <1>2 DEF Buckets

\* The numbers of the first bucket of a range and of the one after the last.
First(from) == from \div Interval
After(to) == (to + Interval - 1) \div Interval

LEMMA RangeIs ==
  ASSUME NEW from \in Int, NEW to \in Int, from < to
  PROVE  /\ First(from) \in Int /\ After(to) \in Int /\ First(from) < After(to)
         /\ Floor(from) = First(from) * Interval /\ Ceil(to) = After(to) * Interval
         /\ Buckets(Floor(from), Ceil(to)) = After(to) - First(from)
<1>1. First(from) \in Int /\ After(to) \in Int
  BY DEF First, After
<1>2. Floor(from) = First(from) * Interval /\ Ceil(to) = After(to) * Interval
  BY DEF Floor, Ceil, First, After
<1>3. First(from) * Interval < After(to) * Interval
  <2>1. Floor(from) <= from /\ to <= Ceil(to)
    BY FloorIs
  <2>2. Floor(from) \in Int /\ Ceil(to) \in Int
    BY FloorIs
  <2> QED BY <1>2, <2>1, <2>2
<1>4. First(from) < After(to)
  BY <1>1, <1>3, Product
<1> QED BY <1>1, <1>2, <1>4, BucketsIs

\* The bucket of a time of the range is one of them.
LEMMA BucketOf ==
  ASSUME NEW from \in Int, NEW to \in Int, NEW t \in Int, from <= t, t < Ceil(to)
  PROVE  /\ t \div Interval \in First(from)..(After(to) - 1)
         /\ Floor(t) = (t \div Interval) * Interval
         /\ Floor(from) + (t \div Interval - First(from)) * Interval = Floor(t)
<1> DEFINE a == First(from)
           b == t \div Interval
           c == After(to)
<1>1. a \in Int /\ b \in Int /\ c \in Int
  BY DEF First, After
<1>2. Floor(from) = a * Interval /\ Ceil(to) = c * Interval /\ Floor(t) = b * Interval
  BY DEF Floor, Ceil, First, After
<1>3. /\ a * Interval <= from /\ t < b * Interval + Interval
      /\ b * Interval <= t /\ t < c * Interval
  BY <1>2, FloorIs
<1>4. a < b + 1
  <2>1. a * Interval \in Int /\ b * Interval \in Int
    BY <1>1, Product
  <2>2. b + 1 \in Int /\ (b + 1) * Interval = b * Interval + Interval
    BY <1>1, Product
  <2>3. a * Interval < (b + 1) * Interval
    BY <1>3, <2>1, <2>2
  <2> QED BY <2>2, <2>3, <1>1, Product
<1>5. b < c
  <2>1. b * Interval \in Int /\ c * Interval \in Int
    BY <1>1, Product
  <2>2. b * Interval < c * Interval
    BY <1>3, <2>1
  <2> QED BY <2>2, <1>1, Product
<1>6. a * Interval + (b - a) * Interval = b * Interval
  <2>1. (b - a) * Interval = b * Interval - a * Interval
    BY <1>1, Product
  <2>2. a * Interval \in Int /\ b * Interval \in Int
    BY <1>1, Product
  <2> QED BY <2>1, <2>2
<1>7. b \in a..(c - 1)
  BY <1>1, <1>4, <1>5
<1> QED BY <1>2, <1>6, <1>7

-----------------------------------------------------------------------------
\* The adapters whose rows are on the grid.

\* There are no more rows than buckets. The row k is the bucket k from start on
\* and has what the query asks for in it, and every point that is asked for is
\* in the bucket of a row.
Right(rows, start, from, to) ==
  \E n \in 0..Buckets(Floor(from), Ceil(to)) :
    /\ DOMAIN rows = 1..n
    /\ \A k \in 1..n :
         /\ rows[k].time = start + (k - 1) * Interval
         /\ DOMAIN rows[k].val = Features
         /\ \A f \in Features :
              rows[k].val[f] = Of(Asked(from, to) \cap InRowOf(start + (k - 1) * Interval), f)
    /\ \A p \in From(Asked(from, to), from, to) :
         \E k \in 1..n : p \in InRowOf(start + (k - 1) * Interval)

\* Points of any time.
Series == Features \X Nat

\* The arguments of a read.
IsRange(from, to) == from \in Int /\ to \in Int /\ from < to

LEMMA RowIs ==
  ASSUME NEW t, NEW ps
  PROVE  /\ Row(t, ps).time = t /\ DOMAIN Row(t, ps).val = Features
         /\ \A f \in Features : Row(t, ps).val[f] = Of(ps, f)
BY DEF Row

LEMMA MemIsRight ==
  ASSUME points \subseteq Series, NEW from, NEW to, IsRange(from, to), adapter = "mem"
  PROVE  Right(MemAnswer(points, from, to), from, from, to)
<1> USE DEF IsRange
<1> DEFINE n == Buckets(from, to + Interval - 1)
           rows == MemAnswer(points, from, to)
<1>0. \A p \in points : p[2] \in Int
  BY DEF Series
<1>1. /\ Asked(from, to) = {p \in points : from <= p[2]}
      /\ \A t : InRowOf(t) = From(points, t, t + Interval)
  BY DEF Asked, InRowOf, Bin
<1>2. n \in Nat /\ n * Interval <= to + Interval - 1 - from
  BY DEF Buckets
<1>3. n <= Buckets(Floor(from), Ceil(to))
  <2> DEFINE a == First(from)
             c == After(to)
  <2>1. /\ a \in Int /\ c \in Int
        /\ a * Interval = Floor(from) /\ c * Interval = Ceil(to)
        /\ Buckets(Floor(from), Ceil(to)) = c - a
    BY RangeIs
  <2>2. a * Interval \in Int /\ c * Interval \in Int
        /\ a * Interval <= from /\ to <= c * Interval
    BY <2>1, FloorIs
  <2>3. n * Interval \in Int /\ (c - a + 1) \in Int
        /\ (c - a + 1) * Interval = c * Interval - a * Interval + Interval
    <3>1. (c - a + 1) * Interval = (c - a) * Interval + 1 * Interval
      BY <2>1, Product
    <3>2. (c - a) * Interval = c * Interval - a * Interval
      BY <2>1, Product
    <3>3. n * Interval \in Int
      BY <1>2, Product
    <3> QED BY <3>1, <3>2, <3>3, <2>1
  <2>4. n * Interval < (c - a + 1) * Interval
    BY <1>2, <2>2, <2>3
  <2>5. n < c - a + 1
    BY <2>4, <2>3, <1>2, Product
  <2> QED BY <2>5, <2>1, <1>2
<1>4. DOMAIN rows = 1..n
  BY DEF MemAnswer
<1>5. ASSUME NEW k \in 1..n
      PROVE  /\ k \in Nat \ {0} /\ (k - 1) * Interval \in Nat
             /\ k * Interval = (k - 1) * Interval + Interval
             /\ \A j \in 1..(k - 1) : j * Interval \in Int /\ j * Interval <= (k - 1) * Interval
  <2>1. k \in Nat \ {0} /\ k - 1 \in Nat
    BY <1>2
  <2>2. 0 * Interval <= (k - 1) * Interval /\ (k - 1) * Interval \in Int
    BY <2>1, Product
  <2>3. k * Interval = (k - 1) * Interval + Interval
    <3>1. (k - 1 + 1) * Interval = (k - 1) * Interval + 1 * Interval
      BY <2>1, Product
    <3> QED BY <3>1, <2>1
  <2>4. ASSUME NEW j \in 1..(k - 1)
        PROVE  j * Interval \in Int /\ j * Interval <= (k - 1) * Interval
    BY <2>1, Product
  <2> QED BY <2>1, <2>2, <2>3, <2>4
<1>6. ASSUME NEW k \in 1..n
      PROVE  MemBucket(points, from, k) = Asked(from, to) \cap InRowOf(from + (k - 1) * Interval)
  <2> DEFINE s == (k - 1) * Interval
  <2>1. s \in Nat /\ k * Interval = s + Interval
    BY <1>5
  <2>2. ASSUME NEW p \in points, from <= p[2], \A j \in 1..(k - 1) : from + j * Interval <= p[2]
        PROVE  from + s <= p[2]
    <3>1. CASE k = 1
      <4>1. s = 0
        BY <3>1
      <4> QED BY <4>1, <2>2, <1>0
    <3>2. CASE k # 1
      <4>1. k - 1 \in 1..(k - 1)
        BY <3>2, <1>5
      <4> QED BY <4>1, <2>2
    <3> QED BY <3>1, <3>2
  <2>3. ASSUME NEW p \in points, from + s <= p[2], NEW j \in 1..(k - 1)
        PROVE  from + j * Interval <= p[2]
    <3>1. j * Interval \in Int /\ j * Interval <= s
      BY <1>5
    <3> QED BY <3>1, <2>1, <2>3, <1>0
  <2> HIDE DEF s
  <2>4. \A p \in points :
          (/\ from <= p[2] /\ p[2] < from + (s + Interval)
           /\ \A j \in 1..(k - 1) : from + j * Interval <= p[2])
          <=> (from <= p[2] /\ from + s <= p[2] /\ p[2] < from + s + Interval)
    <3> TAKE p \in points
    <3>1. p[2] \in Int
      BY <1>0
    <3>2. from + (s + Interval) = from + s + Interval
      BY <2>1
    <3> QED BY <3>1, <3>2, <2>1, <2>2, <2>3
  <2>5. MemBucket(points, from, k) =
          {p \in points : /\ from <= p[2] /\ p[2] < from + (s + Interval)
                          /\ \A j \in 1..(k - 1) : from + j * Interval <= p[2]}
    BY <2>1 DEF MemBucket
  <2>6. Asked(from, to) \cap InRowOf(from + s) =
          {p \in points : from <= p[2] /\ from + s <= p[2] /\ p[2] < from + s + Interval}
    BY <1>1 DEF From
  <2> QED BY <2>4, <2>5, <2>6 DEF s
<1>7. ASSUME NEW k \in 1..n
      PROVE  /\ rows[k].time = from + (k - 1) * Interval
             /\ DOMAIN rows[k].val = Features
             /\ \A f \in Features :
                  rows[k].val[f] = Of(Asked(from, to) \cap InRowOf(from + (k - 1) * Interval), f)
  <2>1. rows[k] = Row(from + (k - 1) * Interval, MemBucket(points, from, k))
    BY DEF MemAnswer
  <2>2. MemBucket(points, from, k) = Asked(from, to) \cap InRowOf(from + (k - 1) * Interval)
    BY <1>6
  <2> HIDE DEF rows, n
  <2> QED BY <2>1, <2>2, RowIs
<1>8. ASSUME NEW p \in From(Asked(from, to), from, to)
      PROVE  \E k \in 1..n : p \in InRowOf(from + (k - 1) * Interval)
  <2> DEFINE j == (p[2] - from) \div Interval
  <2>1. p \in points /\ p[2] \in Int /\ from <= p[2] /\ p[2] < to
    BY <1>0, <1>1 DEF From
  <2>2. j \in Nat /\ j * Interval <= p[2] - from /\ p[2] - from < j * Interval + Interval
    <3>1. p[2] - from \in Nat
      BY <2>1
    <3> QED BY <3>1
  <2>3. j * Interval \in Int
    BY <2>2, Product
  <2>4. p \in InRowOf(from + j * Interval)
    <3> HIDE DEF j
    <3> QED BY <1>1, <2>1, <2>2, <2>3 DEF From
  <2>5. j < n
    <3>1. to + Interval - 1 - from < n * Interval + Interval
      BY DEF Buckets
    <3>2. (n + 1) * Interval = n * Interval + Interval /\ n * Interval \in Int
      BY <1>2, Product
    <3>3. (j + 1) * Interval = j * Interval + Interval
      BY <2>2, Product
    <3> HIDE DEF j, n
    <3>4. (j + 1) * Interval < (n + 1) * Interval
      BY <3>1, <3>2, <3>3, <2>1, <2>2, <2>3
    <3>5. j + 1 \in Int /\ n + 1 \in Int
      BY <1>2, <2>2
    <3>6. j + 1 < n + 1
      BY <3>4, <3>5, Product
    <3> QED BY <3>6, <1>2, <2>2
  <2>6. j + 1 \in 1..n /\ (j + 1) - 1 = j
    <3> HIDE DEF j, n
    <3> QED BY <2>2, <2>5, <1>2
  <2> HIDE DEF j, n
  <2> QED BY <2>4, <2>6
<1>9. n \in 0..Buckets(Floor(from), Ceil(to))
  <2>1. Buckets(Floor(from), Ceil(to)) \in Int
    BY RangeIs
  <2> HIDE DEF n
  <2> QED BY <1>2, <1>3, <2>1
<1> HIDE DEF n, rows
<1>10. Right(rows, from, from, to)
  BY <1>4, <1>7, <1>8, <1>9 DEF Right
<1> QED BY <1>10 DEF rows

LEMMA PointIs ==
  ASSUME points \subseteq Series, NEW p \in points
  PROVE  p[2] \in Nat /\ p[1] \in Features /\ p = <<p[1], p[2]>>
BY DEF Series

\* The rows of the adapters that begin with the bucket of from.
LEMMA BinsAreRight ==
  ASSUME points \subseteq Series, NEW from, NEW to, IsRange(from, to), adapter # "warp10",
         NEW rows, NEW n \in 0..(After(to) - First(from)), DOMAIN rows = 1..n,
         \A k \in 1..n :
           /\ rows[k].time = Floor(from) + (k - 1) * Interval
           /\ DOMAIN rows[k].val = Features
           /\ \A f \in Features :
                rows[k].val[f] = Of(Asked(from, to) \cap Bin(points, Floor(from) + (k - 1) * Interval), f),
         Asked(from, to) \subseteq points,
         \A p \in From(Asked(from, to), from, to) : (p[2] \div Interval) - First(from) < n
  PROVE  Right(rows, Floor(from), from, to)
<1>1. n \in 0..Buckets(Floor(from), Ceil(to))
  BY RangeIs DEF IsRange
<1>2. \A t : InRowOf(t) = Bin(points, t)
  BY DEF InRowOf
<1>3. ASSUME NEW p \in From(Asked(from, to), from, to)
      PROVE  \E k \in 1..n : p \in InRowOf(Floor(from) + (k - 1) * Interval)
  <2> DEFINE b == p[2] \div Interval
             a == First(from)
  <2>1. p \in points /\ p[2] \in Int /\ from <= p[2] /\ p[2] < to
    BY PointIs DEF From
  <2>2. to <= Ceil(to) /\ Ceil(to) \in Int /\ from \in Int /\ to \in Int
    BY FloorIs DEF IsRange
  <2>3. b \in a..(After(to) - 1) /\ Floor(from) + (b - a) * Interval = Floor(p[2])
    <3>1. p[2] < Ceil(to)
      BY <2>1, <2>2
    <3> QED BY <3>1, <2>1, <2>2, BucketOf
  <2>4. a \in Int /\ After(to) \in Int /\ b - a < n
    BY <2>2 DEF First, After
  <2>5. b - a + 1 \in 1..n /\ (b - a + 1) - 1 = b - a
    <3> HIDE DEF b, a
    <3> QED BY <2>3, <2>4
  <2>6. p \in Bin(points, Floor(p[2]))
    BY <2>1, FloorIs DEF Bin, From
  <2>7. p \in InRowOf(Floor(from) + ((b - a + 1) - 1) * Interval)
    BY <2>3, <2>5, <2>6, <1>2
  <2> QED BY <2>5, <2>7
<1> QED BY <1>1, <1>2, <1>3 DEF Right

\* The merge of the results of all the features is right.
LEMMA MergeIsRight ==
  ASSUME points \subseteq Series, NEW from, NEW to, IsRange(from, to), adapter # "warp10",
         NEW results, DOMAIN results = 1..NbFeatures,
         NEW who, \A f \in Features : who[f] = f,
         NEW n \in 0..(After(to) - First(from)),
         Asked(from, to) \subseteq points,
         BinsOf(results, NbFeatures, Asked(from, to), who, Floor(from), n),
         \A p \in From(Asked(from, to), from, to) : (p[2] \div Interval) - First(from) < n
  PROVE  Right(Merge(results), Floor(from), from, to)
<1> DEFINE ps == Asked(from, to)
           rows == Merge(results)
           long == Longest(results)
<1>1. n \in Nat /\ Floor(from) \in Int
  <2>1. First(from) \in Int /\ After(to) \in Int /\ from \in Int
    BY DEF IsRange, First, After
  <2>2. Floor(from) \in Int
    BY <2>1, FloorIs
  <2> QED BY <2>1, <2>2
<1>2. ASSUME NEW f \in Features, NEW t
      PROVE  Bin(Of(ps, who[f]), t) = Of(ps \cap Bin(points, t), f)
  <2>1. ps \subseteq points /\ who[f] = f
    OBVIOUS
  <2> HIDE DEF ps
  <2> QED BY <2>1 DEF Bin, Of, From
<1>3. MergeOfBins(results, NbFeatures, ps, who, Floor(from), n)
  BY <1>1, MergedBins
<1>4. From(ps, from, to) # {} => long = n
  <2> SUFFICES ASSUME NEW p \in From(ps, from, to)
               PROVE  \E i \in 1..NbFeatures : Of(ps, who[i]) # {}
    BY <1>3 DEF MergeOfBins
  <2>1. p \in ps /\ p \in points
    BY DEF From
  <2>3. p[1] \in Features
    BY <2>1, PointIs
  <2>4. p \in Of(ps, p[1]) /\ who[p[1]] = p[1]
    BY <2>1, <2>3 DEF Of
  <2>5. Of(ps, who[p[1]]) # {}
    BY <2>4
  <2> QED BY <2>5, <2>3 DEF Features
<1>5. long \in 0..(After(to) - First(from)) /\ DOMAIN rows = 1..long
  <2>1. long \in 0..n /\ DOMAIN rows = 1..long
    BY <1>3 DEF MergeOfBins
  <2>2. After(to) - First(from) \in Int
    BY DEF IsRange, First, After
  <2> HIDE DEF long, rows
  <2> QED BY <2>1, <2>2
<1>6. ASSUME NEW k \in 1..long
      PROVE  /\ rows[k].time = Floor(from) + (k - 1) * Interval
             /\ DOMAIN rows[k].val = Features
             /\ \A f \in Features :
                  rows[k].val[f] = Of(Asked(from, to) \cap Bin(points, Floor(from) + (k - 1) * Interval), f)
  BY <1>2, <1>3 DEF MergeOfBins, Features
<1>7. \A p \in From(Asked(from, to), from, to) : (p[2] \div Interval) - First(from) < long
  BY <1>4
<1> HIDE DEF long, rows
<1>8. Right(rows, Floor(from), from, to)
  BY <1>5, <1>6, <1>7, BinsAreRight
<1> QED BY <1>8 DEF rows

\* The points before the end of a bucket are in that bucket or before it.
LEMMA BucketBefore ==
  ASSUME points \subseteq Series, NEW from, NEW to, IsRange(from, to),
         NEW ps, ps \subseteq points, NEW e \in Int,
         \A p \in ps : p[2] < e * Interval,
         NEW p \in From(ps, from, to)
  PROVE  (p[2] \div Interval) - First(from) < e - First(from)
<1>1. p[2] \in Int /\ p[2] < e * Interval
  <2>1. p \in ps /\ p \in points
    BY DEF From
  <2> QED BY <2>1, PointIs
<1>2. p[2] \div Interval \in Int /\ (p[2] \div Interval) * Interval <= p[2]
  BY <1>1
<1>3. (p[2] \div Interval) * Interval \in Int /\ e * Interval \in Int
  BY <1>2, Product
<1>4. (p[2] \div Interval) * Interval < e * Interval
  BY <1>1, <1>2, <1>3
<1>5. p[2] \div Interval < e
  BY <1>2, <1>4, Product
<1>6. First(from) \in Int
  BY DEF First, IsRange
<1> QED BY <1>2, <1>5, <1>6

LEMMA InfluxIsRight ==
  ASSUME points \subseteq Series, NEW from, NEW to, IsRange(from, to), adapter = "influx"
  PROVE  Right(InfluxAnswer(points, from, to), Floor(from), from, to)
<1> USE DEF IsRange
<1> DEFINE ps == From(points, from, to)
           n == After(to) - First(from)
           results == [f \in Features |-> InfluxResult(points, f, from, to)]
           who == [i \in Features |-> i]
<1>1. Asked(from, to) = ps /\ ps \subseteq points
  BY DEF Asked, From
<1>2. n \in Nat /\ n = Buckets(Floor(from), Ceil(to))
  BY RangeIs
<1>3. DOMAIN results = 1..NbFeatures /\ \A f \in Features : who[f] = f
  BY DEF Features
<1>4. BinsOf(results, NbFeatures, ps, who, Floor(from), n)
  <2> SUFFICES ASSUME NEW f \in Features
               PROVE  results[f] = IF Of(ps, f) = {} THEN <<>>
                                   ELSE Binned(Of(ps, f), Floor(from), n)
    BY <1>3 DEF BinsOf, Features
  <2>1. From(Of(points, f), from, to) = Of(ps, f)
    BY DEF From, Of
  <2> HIDE DEF ps, n
  <2> QED BY <1>2, <2>1 DEF InfluxResult
<1>5. \A p \in From(ps, from, to) : (p[2] \div Interval) - First(from) < n
  <2>1. After(to) \in Int /\ Ceil(to) = After(to) * Interval
    BY RangeIs
  <2>2. Ceil(to) \in Int /\ to <= Ceil(to) /\ to \in Int
    BY FloorIs
  <2>3. ASSUME NEW p \in ps PROVE p[2] < After(to) * Interval
    <3>1. p[2] \in Int /\ p[2] < to
      BY <1>1, PointIs DEF From
    <3> QED BY <3>1, <2>1, <2>2
  <2> HIDE DEF ps
  <2> QED BY <1>1, <2>1, <2>3, BucketBefore DEF n
<1>6. n \in 0..(After(to) - First(from))
  BY <1>2
<1> HIDE DEF n, ps, results, who
<1>7. Right(Merge(results), Floor(from), from, to)
  BY <1>1, <1>3, <1>4, <1>5, <1>6, MergeIsRight
<1> QED BY <1>7 DEF results, InfluxAnswer

\* The results are those of the features that have an answer, in their order: as
\* far as no feature is refused, each has its own place.
LEMMA AnsweredInOrder ==
  ASSUME NEW refused
  PROVE  /\ Cardinality(Features \ refused) \in Nat
         /\ DOMAIN Answered(refused) = 1..Cardinality(Features \ refused)
         /\ \A f \in Features : refused \cap 1..f = {} =>
              f \in DOMAIN Answered(refused) /\ Answered(refused)[f] = f
<1> DEFINE S == Features \ refused
<1>1. S \subseteq Nat \ {0} /\ S \subseteq Int
  BY DEF Features
<1>2. IsFiniteSet(S) /\ Cardinality(S) \in Nat
  <2>1. IsFiniteSet(Features) /\ S \in SUBSET Features
    BY FS_Interval DEF Features
  <2> QED BY <2>1, FS_Subset, FS_CardinalityType
<1>3. DOMAIN Answered(refused) = 1..Cardinality(S)
  BY <1>1, <1>2, Ordered DEF Answered
<1>4. ASSUME NEW f \in Features, refused \cap 1..f = {}
      PROVE  f \in DOMAIN Answered(refused) /\ Answered(refused)[f] = f
  <2>1. f \in Nat \ {0} /\ 1..f \subseteq S
    BY <1>4 DEF Features
  <2> HIDE DEF S
  <2>2. f \in DOMAIN InOrder(S) /\ InOrder(S)[f] = f
    BY <1>1, <1>2, <2>1, OrderedFrom1
  <2> QED BY <2>2 DEF Answered, S
<1> QED BY <1>2, <1>3, <1>4

LEMMA AllAnswered ==
  /\ DOMAIN Answered({}) = 1..NbFeatures
  /\ \A f \in Features : Answered({})[f] = f
<1>1. Features \ {} = 1..NbFeatures /\ Cardinality(1..NbFeatures) = NbFeatures
  BY FS_Interval DEF Features
<1> QED BY <1>1, AnsweredInOrder

\* Each result of OpenTSDB is a binning of what is asked for.
OpenTSDBResults(refused, from, to) ==
  [i \in DOMAIN Answered(refused) |-> OpenTSDBResult(points, Answered(refused)[i], from, to)]

LEMMA OpenTSDBBins ==
  ASSUME NEW from, NEW to, IsRange(from, to), NEW refused
  PROVE  \E n \in 0..(After(to) - First(from)) :
           /\ n = (to \div Interval) - First(from)
           /\ BinsOf(OpenTSDBResults(refused, from, to), Cardinality(Features \ refused),
                     From(points, Floor(from), Floor(to)), Answered(refused), Floor(from), n)
<1> USE DEF IsRange
<1> DEFINE ps == From(points, Floor(from), Floor(to))
           n == (to \div Interval) - First(from)
           who == Answered(refused)
           m == Cardinality(Features \ refused)
           results == OpenTSDBResults(refused, from, to)
<1>2. /\ First(from) \in Int /\ to \div Interval \in Int /\ After(to) \in Int
      /\ Floor(from) = First(from) * Interval /\ Floor(to) = (to \div Interval) * Interval
  BY DEF First, After, Floor
<1>3. n \in 0..(After(to) - First(from))
  <2>1. First(from) <= to \div Interval
    BY DEF First
  <2>2. to \div Interval <= After(to)
    BY DEF After
  <2> QED BY <1>2, <2>1, <2>2
<1>5. /\ Floor(to) - Interval + Interval = Floor(to)
      /\ Buckets(Floor(from), Floor(to) - Interval) + 1 = n
  <2> DEFINE e == to \div Interval
  <2>1. (e - 1) * Interval = e * Interval - 1 * Interval
    BY <1>2, Product
  <2>2. Buckets(First(from) * Interval, (e - 1) * Interval) = e - 1 - First(from)
    <3>1. e - 1 \in Int
      BY <1>2
    <3> HIDE DEF e
    <3> QED BY <3>1, <1>2, BucketsIs
  <2>3. Floor(to) - Interval = (e - 1) * Interval /\ Floor(to) \in Int
    BY <2>1, <1>2, FloorIs
  <2> HIDE DEF e
  <2>4. Buckets(Floor(from), Floor(to) - Interval) = e - 1 - First(from)
    BY <2>2, <2>3, <1>2
  <2>5. e \in Int
    BY <1>2 DEF e
  <2>6. Buckets(Floor(from), Floor(to) - Interval) + 1 = e - First(from)
    BY <2>4, <2>5, <1>2
  <2> QED BY <2>3, <2>6 DEF e
<1>6. BinsOf(results, m, ps, who, Floor(from), n)
  <2> SUFFICES ASSUME NEW i \in 1..m
               PROVE  results[i] = IF Of(ps, who[i]) = {} THEN <<>>
                                   ELSE Binned(Of(ps, who[i]), Floor(from), n)
    BY DEF BinsOf
  <2>1. From(Of(points, who[i]), Floor(from), Floor(to)) = Of(ps, who[i])
    BY DEF From, Of
  <2>2. results[i] = OpenTSDBResult(points, who[i], from, to)
    BY AnsweredInOrder DEF OpenTSDBResults
  <2> HIDE DEF ps, n, results, who, m
  <2> QED BY <1>5, <2>1, <2>2 DEF OpenTSDBResult
<1> QED BY <1>3, <1>6

LEMMA OpenTSDBIsRight ==
  ASSUME points \subseteq Series, NEW from, NEW to, IsRange(from, to), adapter = "opentsdb"
  PROVE  Right(OpenTSDBAnswer(points, from, to, {}), Floor(from), from, to)
<1> DEFINE ps == From(points, Floor(from), Floor(to))
           who == Answered({})
           results == OpenTSDBResults({}, from, to)
<1>1. Asked(from, to) = ps /\ ps \subseteq points
  BY DEF Asked, From
<1>2. DOMAIN results = 1..NbFeatures /\ \A f \in Features : who[f] = f
  BY AllAnswered DEF OpenTSDBResults
<1>3. Cardinality(Features \ {}) = NbFeatures
  <2>1. Features \ {} = 1..NbFeatures /\ Cardinality(1..NbFeatures) = NbFeatures
    BY FS_Interval DEF Features
  <2> QED BY <2>1
<1>4. PICK n \in 0..(After(to) - First(from)) :
        /\ n = (to \div Interval) - First(from)
        /\ BinsOf(results, NbFeatures, ps, who, Floor(from), n)
  <2>1. \E n \in 0..(After(to) - First(from)) :
           /\ n = (to \div Interval) - First(from)
           /\ BinsOf(results, Cardinality(Features \ {}), ps, who, Floor(from), n)
    BY OpenTSDBBins
  <2> QED BY <2>1, <1>3
<1>5. ASSUME NEW p \in From(ps, from, to)
      PROVE  (p[2] \div Interval) - First(from) < n
  <2>1. \A q \in ps : q[2] < (to \div Interval) * Interval
    BY DEF From, Floor
  <2>2. to \div Interval \in Int
    BY DEF IsRange
  <2> HIDE DEF ps
  <2> QED BY <1>1, <1>4, <2>1, <2>2, BucketBefore
<1> HIDE DEF ps, results, who
<1>6. Right(Merge(results), Floor(from), from, to)
  BY <1>1, <1>2, <1>4, <1>5, MergeIsRight
<1> QED BY <1>6 DEF results, OpenTSDBAnswer, OpenTSDBResults

\* The bucket of a point of the range is one of them.
LEMMA BucketOfPoint ==
  ASSUME points \subseteq Series, NEW from, NEW to, IsRange(from, to),
         NEW p \in points, from <= p[2], p[2] < Ceil(to)
  PROVE  /\ p[2] \div Interval \in Int /\ First(from) \in Int /\ After(to) \in Int
         /\ First(from) <= p[2] \div Interval /\ p[2] \div Interval < After(to)
         /\ Floor(p[2]) = (p[2] \div Interval) * Interval
<1> DEFINE t == p[2]
<1>1. t \in Int
  BY PointIs
<1>2. First(from) \in Int /\ After(to) \in Int /\ t \div Interval \in Int
  BY <1>1 DEF First, After, IsRange
<1>3. from \in Int /\ to \in Int
  BY DEF IsRange
<1> HIDE DEF t
<1>4. t \div Interval \in First(from)..(After(to) - 1) /\ Floor(t) = (t \div Interval) * Interval
  BY <1>1, <1>3, BucketOf DEF t
<1>5. First(from) <= t \div Interval /\ t \div Interval < After(to)
  BY <1>2, <1>4
<1> QED BY <1>2, <1>4, <1>5 DEF t

\* No rows are right where no point is asked for.
LEMMA NoRowsAreRight ==
  ASSUME NEW from, NEW to, IsRange(from, to), From(Asked(from, to), from, to) = {}
  PROVE  \A start : Right(NoRows, start, from, to)
<1>1. 0 \in 0..Buckets(Floor(from), Ceil(to))
  <2>1. /\ First(from) \in Int /\ After(to) \in Int /\ First(from) < After(to)
        /\ Buckets(Floor(from), Ceil(to)) = After(to) - First(from)
    BY RangeIs DEF IsRange
  <2> QED BY <2>1
<1>2. DOMAIN NoRows = 1..0
  BY DEF NoRows
<1> QED BY <1>1, <1>2 DEF Right

LEMMA ElasticIsRight ==
  ASSUME points \subseteq Series, NEW from, NEW to, IsRange(from, to), adapter = "elastic"
  PROVE  Right(ElasticAnswer(points, from, to), Floor(from), from, to)
<1> USE DEF IsRange
<1> DEFINE ps == From(points, from, to)
           bounds == {Floor(from), Floor(to - Interval)} \cup {Floor(p[2]) : p \in ps}
           last == CHOOSE t \in bounds : \A u \in bounds : u <= t
           a == First(from)
           c == After(to)
           rows == ElasticAnswer(points, from, to)
<1>1. Asked(from, to) = ps /\ ps \subseteq points
  BY DEF Asked, From
<1>2. CASE ps = {}
  <2>1. From(Asked(from, to), from, to) = {}
    BY <1>1, <1>2 DEF From
  <2>2. rows = NoRows
    BY <1>2 DEF ElasticAnswer
  <2> HIDE DEF rows
  <2> QED BY <2>1, <2>2, NoRowsAreRight DEF rows
<1>3. CASE ps # {}
  <2>0. /\ a \in Int /\ c \in Int /\ a < c
        /\ Floor(from) = a * Interval /\ Ceil(to) = c * Interval
    BY RangeIs
  <2>1. \A t \in bounds : \E e \in Int : t = e * Interval /\ e < c
    <3>1. Floor(from) = a * Interval
      BY <2>0
    <3>2. \E e \in Int : Floor(to - Interval) = e * Interval /\ e < c
      <4> DEFINE e == (to - Interval) \div Interval
      <4>1. e \in Int /\ Floor(to - Interval) = e * Interval /\ e * Interval <= to - Interval
        BY DEF Floor
      <4>2. (e + 1) * Interval = e * Interval + 1 * Interval /\ e * Interval \in Int
        BY <4>1, Product
      <4>3. to <= c * Interval /\ c * Interval \in Int
        <5>1. to <= Ceil(to) /\ Ceil(to) \in Int
          BY FloorIs
        <5> QED BY <5>1, <2>0
      <4> HIDE DEF e, c
      <4>4. (e + 1) * Interval <= c * Interval
        BY <4>1, <4>2, <4>3
      <4>5. e + 1 <= c
        BY <4>1, <4>4, <2>0, Product
      <4> QED BY <4>1, <4>5, <2>0
    <3>3. ASSUME NEW p \in ps PROVE \E e \in Int : Floor(p[2]) = e * Interval /\ e < c
      <4>1. p \in points /\ from <= p[2] /\ p[2] < to
        BY <1>1 DEF From
      <4>2. p[2] < Ceil(to)
        <5>1. p[2] \in Int
          BY <4>1, PointIs
        <5>2. to <= Ceil(to) /\ Ceil(to) \in Int
          BY FloorIs
        <5> QED BY <4>1, <5>1, <5>2
      <4>3. /\ p[2] \div Interval \in Int /\ p[2] \div Interval < c
            /\ Floor(p[2]) = (p[2] \div Interval) * Interval
        BY <4>1, <4>2, BucketOfPoint
      <4> HIDE DEF a, c
      <4> QED BY <4>3
    <3> HIDE DEF ps
    <3> QED BY <3>1, <3>2, <3>3, <2>0
  <2>2. \E t \in bounds : \A u \in bounds : u <= t
    <3>1. bounds \subseteq Int /\ bounds # {} /\ c * Interval \in Int
      <4>1. ASSUME NEW t \in bounds PROVE t \in Int
        <5> HIDE DEF bounds, c
        <5>1. PICK e \in Int : t = e * Interval
          BY <2>1
        <5> QED BY <5>1, Product
      <4>2. c * Interval \in Int
        BY <2>0, Product
      <4>3. Floor(from) \in bounds
        OBVIOUS
      <4> HIDE DEF bounds
      <4> QED BY <4>1, <4>2, <4>3
    <3>2. ASSUME NEW t \in bounds PROVE t <= c * Interval
      <4> HIDE DEF bounds, c
      <4>1. PICK e \in Int : t = e * Interval /\ e < c
        BY <2>1
      <4> QED BY <4>1, <2>0, Product
    <3> HIDE DEF bounds
    <3> QED BY <3>1, <3>2, Greatest
  <2>3. last \in bounds /\ \A u \in bounds : u <= last
    <3> HIDE DEF bounds
    <3> QED BY <2>2
  <2>4. PICK e \in Int : last = e * Interval /\ e < c
    <3> HIDE DEF bounds, last, c
    <3> QED BY <2>1, <2>3
  <2>5. a <= e
    <3>1. Floor(from) <= last
      BY <2>3
    <3> HIDE DEF last, a
    <3> QED BY <3>1, <2>0, <2>4, Product
  <2>6. Buckets(Floor(from), last) + 1 = e - a + 1
    <3> HIDE DEF last, a
    <3>1. Buckets(Floor(from), last) = e - a
      BY <2>0, <2>4, BucketsIs
    <3> QED BY <3>1
  <2>7. e - a + 1 \in 0..(c - a)
    <3> HIDE DEF a, c
    <3> QED BY <2>0, <2>4, <2>5
  <2>8. rows = [k \in 1..(e - a + 1) |->
                  Row(Floor(from) + (k - 1) * Interval, Bin(ps, Floor(from) + (k - 1) * Interval))]
    <3>1. rows = ElasticHistogram(ps, from, to)
      BY <1>3 DEF ElasticAnswer
    <3>2. ElasticHistogram(ps, from, to) =
            [k \in 1..(Buckets(Floor(from), last) + 1) |->
              Row(Floor(from) + (k - 1) * Interval, Bin(ps, Floor(from) + (k - 1) * Interval))]
      BY DEF ElasticHistogram
    <3> HIDE DEF rows, last, a
    <3> QED BY <3>1, <3>2, <2>6
  <2>9. \A t : Bin(ps, t) = ps \cap Bin(points, t)
    <3>1. ps \subseteq points
      BY <1>1
    <3> HIDE DEF ps
    <3> QED BY <3>1 DEF Bin, From
  <2>10. ASSUME NEW p \in From(ps, from, to)
         PROVE  (p[2] \div Interval) - a < e - a + 1
    <3>1. p \in ps /\ p \in points
      BY <1>1 DEF From
    <3>2. p[2] \in Int
      BY <3>1, PointIs
    <3> DEFINE b == p[2] \div Interval
    <3>3. b \in Int /\ Floor(p[2]) = b * Interval
      BY <3>2 DEF Floor
    <3>4. Floor(p[2]) <= last
      <4>1. Floor(p[2]) \in bounds
        BY <3>1
      <4> HIDE DEF bounds, last
      <4> QED BY <4>1, <2>3
    <3> HIDE DEF last, a, b
    <3>5. b <= e
      BY <3>3, <3>4, <2>4, Product
    <3> QED BY <3>3, <3>5, <2>0 DEF b
  <2> HIDE DEF ps, last, bounds, rows
  <2> DEFINE n == e - a + 1
  <2> HIDE DEF n
  <2>11. DOMAIN rows = 1..n
    BY <2>8 DEF n
  <2>12. ASSUME NEW k \in 1..n
         PROVE  /\ rows[k].time = Floor(from) + (k - 1) * Interval
                /\ DOMAIN rows[k].val = Features
                /\ \A f \in Features :
                     rows[k].val[f] =
                       Of(Asked(from, to) \cap Bin(points, Floor(from) + (k - 1) * Interval), f)
    <3>1. rows[k] = Row(Floor(from) + (k - 1) * Interval,
                        Asked(from, to) \cap Bin(points, Floor(from) + (k - 1) * Interval))
      BY <2>8, <2>9, <1>1 DEF n
    <3> QED BY <3>1, RowIs
  <2>13. \A p \in From(Asked(from, to), from, to) : (p[2] \div Interval) - First(from) < n
    BY <2>10, <1>1 DEF n
  <2>14. Right(rows, Floor(from), from, to)
    BY <2>7, <2>11, <2>12, <2>13, <1>1, BinsAreRight DEF n
  <2> QED BY <2>14 DEF rows
<1> QED BY <1>2, <1>3

LEMMA MongoIsRight ==
  ASSUME points \subseteq Series, NEW from, NEW to, IsRange(from, to), adapter = "mongo"
  PROVE  Right(MongoAnswer(points, from, to), Floor(from), from, to)
<1> DEFINE ps == From(points, Floor(from), Ceil(to))
           groups == {Buckets(Floor(from), Floor(p[2])) : p \in ps}
           last == CHOOSE j \in groups : \A i \in groups : i <= j
           n == IF groups = {} THEN 0 ELSE 1 + last
           a == First(from)
           c == After(to)
           rows == MongoAnswer(points, from, to)
<1>1. Asked(from, to) = ps /\ ps \subseteq points
  BY DEF Asked, From
<1>2. /\ a \in Int /\ c \in Int /\ a < c
      /\ Floor(from) = a * Interval /\ Ceil(to) = c * Interval
  BY RangeIs DEF IsRange
<1>3. ASSUME NEW p \in ps
      PROVE  /\ p[2] \div Interval \in a..(c - 1)
             /\ Buckets(Floor(from), Floor(p[2])) = (p[2] \div Interval) - a
  <2>1. p \in points /\ Floor(from) <= p[2] /\ p[2] < Ceil(to)
    BY <1>1 DEF From
  <2>2. IsRange(Floor(from), to)
    BY FloorIs DEF IsRange
  <2>3. First(Floor(from)) = a
    BY <1>2, Product DEF First
  <2> DEFINE b == p[2] \div Interval
  <2>4. b \in Int /\ First(Floor(from)) <= b /\ b < c /\ Floor(p[2]) = b * Interval
    BY <2>1, <2>2, BucketOfPoint
  <2> HIDE DEF a, b, c
  <2>5. Buckets(a * Interval, b * Interval) = b - a
    <3>1. a \in Int /\ b \in Int
      BY <2>4, <1>2
    <3> QED BY <3>1, BucketsIs
  <2>6. b \in a..(c - 1)
    BY <2>3, <2>4, <1>2
  <2> QED BY <2>4, <2>5, <2>6, <1>2 DEF b
<1>4. groups # {} => last \in 0..(c - a - 1) /\ \A i \in groups : i <= last
  <2> SUFFICES ASSUME groups # {} PROVE last \in groups /\ \A i \in groups : i <= last
    <3>1. \A i \in groups : i \in 0..(c - a - 1)
      <4> SUFFICES ASSUME NEW p \in ps
                   PROVE  Buckets(Floor(from), Floor(p[2])) \in 0..(c - a - 1)
        OBVIOUS
      <4> HIDE DEF a, c
      <4> QED BY <1>2, <1>3
    <3> HIDE DEF groups, last
    <3> QED BY <3>1
  <2>1. \A i \in groups : i \in Int /\ i <= c - a
    <3> SUFFICES ASSUME NEW p \in ps
                 PROVE  /\ Buckets(Floor(from), Floor(p[2])) \in Int
                        /\ Buckets(Floor(from), Floor(p[2])) <= c - a
      OBVIOUS
    <3> HIDE DEF a, c
    <3> QED BY <1>2, <1>3
  <2>2. c - a \in Int
    BY <1>2
  <2> HIDE DEF groups, a, c
  <2>3. \E j \in groups : \A i \in groups : i <= j
    BY <2>1, <2>2, Greatest
  <2> QED BY <2>3
<1>5. n \in 0..(c - a)
  <2> HIDE DEF groups, last, a, c
  <2> QED BY <1>2, <1>4
<1>6. ASSUME NEW p \in From(ps, from, to) PROVE (p[2] \div Interval) - a < n
  <2>1. p \in ps
    BY DEF From
  <2>2. (p[2] \div Interval) - a \in groups /\ p[2] \div Interval \in a..(c - 1)
    BY <2>1, <1>3
  <2> HIDE DEF groups, last, a, c
  <2> QED BY <2>2, <1>2, <1>4
<1>7. \A t : Bin(ps, t) = ps \cap Bin(points, t)
  <2> HIDE DEF ps
  <2> QED BY <1>1 DEF Bin, From
<1>8. rows = [k \in 1..n |-> Row(Floor(from) + (k - 1) * Interval,
                                 Bin(ps, Floor(from) + (k - 1) * Interval))]
  BY DEF MongoAnswer
<1> HIDE DEF ps, n, rows
<1>9. DOMAIN rows = 1..n
  BY <1>8
<1>10. ASSUME NEW k \in 1..n
       PROVE  /\ rows[k].time = Floor(from) + (k - 1) * Interval
              /\ DOMAIN rows[k].val = Features
              /\ \A f \in Features :
                   rows[k].val[f] =
                     Of(Asked(from, to) \cap Bin(points, Floor(from) + (k - 1) * Interval), f)
  <2>1. rows[k] = Row(Floor(from) + (k - 1) * Interval,
                      Asked(from, to) \cap Bin(points, Floor(from) + (k - 1) * Interval))
    BY <1>1, <1>7, <1>8
  <2> QED BY <2>1, RowIs
<1>11. \A p \in From(Asked(from, to), from, to) : (p[2] \div Interval) - First(from) < n
  BY <1>1, <1>6
<1>12. Right(rows, Floor(from), from, to)
  BY <1>1, <1>5, <1>9, <1>10, <1>11, BinsAreRight
<1> QED BY <1>12 DEF rows

LEMMA Warp10IsRight ==
  ASSUME points \subseteq Series, NEW from, NEW to, IsRange(from, to), adapter = "warp10"
  PROVE  Right(Warp10Answer(points, from, to), Floor(from), from, to)
<1> DEFINE ps == {p \in points : Floor(from) < p[2] /\ p[2] <= Ceil(to)}
           a == First(from)
           c == After(to)
           n == c - a
           At(k) == Floor(from) + (k - 1) * Interval
           full == [k \in 1..n |-> Row(At(k), Warp10Bucket(points, At(k) + Interval, Floor(from), Ceil(to)))]
           rows == Warp10Answer(points, from, to)
<1>1. /\ Asked(from, to) = ps /\ ps \subseteq points
      /\ \A t : InRowOf(t) = {p \in points : t < p[2] /\ p[2] <= t + Interval}
  BY DEF Asked, InRowOf
<1>2. /\ a \in Int /\ c \in Int /\ a < c
      /\ Floor(from) = a * Interval /\ Ceil(to) = c * Interval
      /\ Buckets(Floor(from), Ceil(to)) = n
      /\ Floor(from) \in Int /\ Ceil(to) \in Int
  BY RangeIs, FloorIs DEF IsRange
<1>3. ASSUME NEW k \in 1..n
      PROVE  /\ At(k) \in Int /\ Floor(from) <= At(k)
             /\ At(k) + Interval \in Int
  <2>1. k \in Int /\ 0 <= k - 1 /\ k - 1 \in Int
    BY <1>2
  <2>2. 0 * Interval <= (k - 1) * Interval /\ (k - 1) * Interval \in Int
    BY <2>1, Product
  <2> QED BY <2>2, <1>2
<1>4. ASSUME NEW k \in 1..n
      PROVE  Warp10Bucket(points, At(k) + Interval, Floor(from), Ceil(to)) = ps \cap InRowOf(At(k))
  <2> DEFINE t == At(k)
  <2>1. t \in Int /\ Floor(from) <= t /\ t + Interval - Interval = t
    BY <1>3
  <2>2. \A p \in points :
          (/\ Floor(from) <= p[2] /\ p[2] <= Ceil(to)
           /\ t < p[2] /\ p[2] <= t + Interval)
          <=> (/\ Floor(from) < p[2] /\ p[2] <= Ceil(to)
               /\ t < p[2] /\ p[2] <= t + Interval)
    <3> TAKE p \in points
    <3>1. p[2] \in Int
      BY PointIs
    <3> HIDE DEF t
    <3> QED BY <3>1, <2>1, <1>2
  <2>3. Warp10Bucket(points, t + Interval, Floor(from), Ceil(to)) =
          {p \in points : /\ Floor(from) <= p[2] /\ p[2] <= Ceil(to)
                          /\ t < p[2] /\ p[2] <= t + Interval}
    BY <2>1 DEF Warp10Bucket
  <2> HIDE DEF t
  <2>4. ps \cap InRowOf(t) = {p \in points : /\ Floor(from) < p[2] /\ p[2] <= Ceil(to)
                                             /\ t < p[2] /\ p[2] <= t + Interval}
    BY <1>1
  <2>5. Warp10Bucket(points, t + Interval, Floor(from), Ceil(to)) = ps \cap InRowOf(t)
    BY <2>2, <2>3, <2>4
  <2> QED BY <2>5 DEF t
<1>5. ASSUME NEW p \in From(ps, from, to) PROVE \E k \in 1..n : p \in InRowOf(At(k))
  <2> DEFINE d == (p[2] + Interval - 1) \div Interval
  <2>1. p \in points /\ p[2] \in Int /\ Floor(from) < p[2] /\ p[2] < to
    <3>1. p \in points /\ Floor(from) < p[2] /\ p[2] < to
      BY DEF From
    <3> QED BY <3>1, PointIs
  <2>2. d \in Int /\ d * Interval \in Int /\ p[2] <= d * Interval /\ d * Interval < p[2] + Interval
    <3>1. d \in Int /\ p[2] <= d * Interval /\ d * Interval < p[2] + Interval
      BY <2>1
    <3> HIDE DEF d
    <3> QED BY <3>1, Product
  <2> HIDE DEF d, a, c
  <2>3. a < d
    <3>1. a * Interval < d * Interval
      BY <2>1, <2>2, <1>2
    <3> QED BY <3>1, <2>2, <1>2, Product
  <2>4. d < c + 1
    <3>1. to <= Ceil(to) /\ to \in Int
      BY FloorIs DEF IsRange
    <3>2. (c + 1) * Interval = c * Interval + 1 * Interval
      BY <1>2, Product
    <3>3. d * Interval < (c + 1) * Interval
      BY <3>1, <3>2, <2>1, <2>2, <1>2
    <3> QED BY <3>3, <2>2, <1>2, Product
  <2>5. d - a \in 1..n
    BY <2>2, <2>3, <2>4, <1>2
  <2>6. At(d - a) = d * Interval - Interval
    <3>1. /\ (d - a - 1) * Interval = (d - a) * Interval - 1 * Interval
          /\ (d - a) * Interval = d * Interval - a * Interval
          /\ a * Interval \in Int
      BY <2>2, <1>2, Product
    <3> QED BY <3>1, <2>2, <1>2
  <2>7. p \in InRowOf(At(d - a))
    <3>1. At(d - a) < p[2] /\ p[2] <= At(d - a) + Interval
      BY <2>6, <2>1, <2>2
    <3> QED BY <3>1, <2>1, <1>1
  <2> QED BY <2>5, <2>7
<1>6. ASSUME NEW k \in 1..n
      PROVE  /\ full[k].time = At(k) /\ DOMAIN full[k].val = Features
             /\ \A f \in Features : full[k].val[f] = Of(ps \cap InRowOf(At(k)), f)
  <2>1. full[k] = Row(At(k), ps \cap InRowOf(At(k)))
    BY <1>4
  <2> HIDE DEF full, At, n, ps
  <2> QED BY <2>1, RowIs
<1>7. DOMAIN full = 1..n
  OBVIOUS
<1>8. rows = IF \A k \in DOMAIN full, f \in Features : full[k].val[f] = {} THEN NoRows ELSE full
  BY <1>2 DEF Warp10Answer
<1>9. n \in 0..Buckets(Floor(from), Ceil(to))
  <2> HIDE DEF a, c
  <2> QED BY <1>2
<1> HIDE DEF full, rows, n, ps
<1>10. CASE \A k \in DOMAIN full, f \in Features : full[k].val[f] = {}
  <2>1. From(Asked(from, to), from, to) = {}
    <3> SUFFICES ASSUME NEW p \in From(ps, from, to) PROVE FALSE
      BY <1>1
    <3>1. PICK k \in 1..n : p \in InRowOf(At(k))
      BY <1>5
    <3>2. p \in ps /\ p \in points
      BY <1>1 DEF From
    <3>3. p[1] \in Features
      BY <3>2, PointIs
    <3>4. p \in Of(ps \cap InRowOf(At(k)), p[1])
      BY <3>1, <3>2 DEF Of
    <3>5. full[k].val[p[1]] = Of(ps \cap InRowOf(At(k)), p[1])
      BY <3>3, <1>6
    <3>6. full[k].val[p[1]] = {}
      BY <3>3, <1>7, <1>10
    <3> QED BY <3>4, <3>5, <3>6
  <2>2. rows = NoRows
    BY <1>8, <1>10
  <2> QED BY <2>1, <2>2, NoRowsAreRight DEF rows
<1>11. CASE ~ \A k \in DOMAIN full, f \in Features : full[k].val[f] = {}
  <2>1. rows = full
    BY <1>8, <1>11
  <2>2. Right(rows, Floor(from), from, to)
    <3>1. \A k \in 1..n :
            /\ full[k].time = Floor(from) + (k - 1) * Interval
            /\ DOMAIN full[k].val = Features
            /\ \A f \in Features :
                 full[k].val[f] =
                   Of(Asked(from, to) \cap InRowOf(Floor(from) + (k - 1) * Interval), f)
      BY <1>1, <1>6
    <3>2. \A p \in From(Asked(from, to), from, to) :
            \E k \in 1..n : p \in InRowOf(Floor(from) + (k - 1) * Interval)
      BY <1>1, <1>5
    <3> QED BY <3>1, <3>2, <2>1, <1>7, <1>9 DEF Right
  <2> QED BY <2>2 DEF rows
<1> QED BY <1>10, <1>11

-----------------------------------------------------------------------------
\* The answers with refused queries, and Prometheus.

\* The rows are the first ones of the grid.
Fits(rows, start, from, to) ==
  \E n \in 0..Buckets(Floor(from), Ceil(to)) :
    /\ DOMAIN rows = 1..n
    /\ \A k \in 1..n : rows[k].time = start + (k - 1) * Interval /\ DOMAIN rows[k].val = Features

\* The values of a feature are its own, as far as none is refused.
Under(rows, refused) ==
  \A k \in DOMAIN rows, f \in Features :
    refused \cap 1..f = {} => \A p \in rows[k].val[f] : p[1] = f

LEMMA RightFits ==
  ASSUME NEW rows, NEW start, NEW from, NEW to, Right(rows, start, from, to), NEW refused
  PROVE  Fits(rows, start, from, to) /\ Under(rows, refused)
BY DEF Right, Fits, Under, Of

LEMMA OpenTSDBFits ==
  ASSUME NEW from, NEW to, IsRange(from, to), NEW refused
  PROVE  /\ Fits(OpenTSDBAnswer(points, from, to, refused), Floor(from), from, to)
         /\ Under(OpenTSDBAnswer(points, from, to, refused), refused)
<1> DEFINE ps == From(points, Floor(from), Floor(to))
           who == Answered(refused)
           m == Cardinality(Features \ refused)
           results == OpenTSDBResults(refused, from, to)
           rows == Merge(results)
           long == Longest(results)
<1>1. rows = OpenTSDBAnswer(points, from, to, refused)
  BY DEF OpenTSDBAnswer, OpenTSDBResults
<1>2. m \in Nat /\ DOMAIN who = 1..m /\ DOMAIN results = 1..m
  BY AnsweredInOrder DEF OpenTSDBResults
<1>3. /\ After(to) \in Int /\ First(from) \in Int /\ Floor(from) \in Int
      /\ Buckets(Floor(from), Ceil(to)) = After(to) - First(from)
  <2>1. from \in Int /\ to \in Int /\ from < to
    BY DEF IsRange
  <2> QED BY <2>1, RangeIs, FloorIs
<1>4. PICK n \in 0..(After(to) - First(from)) : BinsOf(results, m, ps, who, Floor(from), n)
  BY OpenTSDBBins
<1>5. n \in Nat
  BY <1>3
<1> HIDE DEF ps, who, m, results
<1>6. MergeOfBins(results, m, ps, who, Floor(from), n)
  BY <1>2, <1>3, <1>4, <1>5, MergedBins
<1> HIDE DEF rows, long
<1>7. /\ long \in 0..n /\ DOMAIN rows = 1..long
      /\ \A j \in 1..long :
           /\ rows[j].time = Floor(from) + (j - 1) * Interval
           /\ DOMAIN rows[j].val = Features
           /\ \A f \in Features :
                rows[j].val[f] =
                  IF f \in 1..m THEN Bin(Of(ps, who[f]), Floor(from) + (j - 1) * Interval) ELSE {}
  BY <1>6 DEF MergeOfBins, rows, long
<1>8. long \in 0..Buckets(Floor(from), Ceil(to))
  BY <1>3, <1>5, <1>7
<1>9. Fits(rows, Floor(from), from, to)
  BY <1>7, <1>8 DEF Fits
<1>10. ASSUME NEW k \in DOMAIN rows, NEW f \in Features, refused \cap 1..f = {},
              NEW p \in rows[k].val[f]
       PROVE  p[1] = f
  <2>1. f \in 1..m /\ who[f] = f
    BY <1>2, <1>10, AnsweredInOrder DEF who
  <2>2. rows[k].val[f] = Bin(Of(ps, f), Floor(from) + (k - 1) * Interval)
    BY <1>7, <2>1
  <2> QED BY <2>2 DEF Bin, From, Of
<1>11. Under(rows, refused)
  BY <1>10 DEF Under
<1> QED BY <1>1, <1>9, <1>11

\* The steps of a range are at most one more than its buckets.
LEMMA Steps ==
  ASSUME NEW from, NEW to, IsRange(from, to), NEW S, S \subseteq PrometheusSteps(from, to)
  PROVE  /\ S \subseteq Int /\ IsFiniteSet(S)
         /\ Cardinality(S) \in 0..(Buckets(Floor(from), Ceil(to)) + 1)
<1> USE DEF IsRange
<1> DEFINE b == Buckets(from, to)
           all == PrometheusSteps(from, to)
           step == [k \in 1..(b + 1) |-> from + (k - 1) * Interval]
<1>1. b \in Nat /\ b * Interval <= to - from
  BY DEF Buckets
<1>2. b <= Buckets(Floor(from), Ceil(to)) /\ Buckets(Floor(from), Ceil(to)) \in Nat
  <2> DEFINE a == First(from)
             c == After(to)
  <2>1. /\ a \in Int /\ c \in Int /\ a < c
        /\ a * Interval = Floor(from) /\ c * Interval = Ceil(to)
        /\ Buckets(Floor(from), Ceil(to)) = c - a
    BY RangeIs
  <2>2. a * Interval \in Int /\ c * Interval \in Int
        /\ a * Interval <= from /\ to <= c * Interval
    BY <2>1, FloorIs
  <2> HIDE DEF a, b, c
  <2>3. (c - a) * Interval = c * Interval - a * Interval /\ b * Interval \in Int
    BY <1>1, <2>1, Product
  <2>4. b * Interval <= (c - a) * Interval
    BY <1>1, <2>2, <2>3
  <2>5. b <= c - a
    BY <1>1, <2>1, <2>4, Product
  <2> QED BY <2>1, <2>5
<1>3. \A k \in 1..(b + 1) : from + (k - 1) * Interval \in Int
  <2> HIDE DEF b
  <2> TAKE k \in 1..(b + 1)
  <2>1. k - 1 \in Int
    OBVIOUS
  <2>2. (k - 1) * Interval \in Int
    BY <2>1, Product
  <2> QED BY <2>2
<1>4. all = {from + (k - 1) * Interval : k \in 1..(b + 1)}
  BY DEF PrometheusSteps
<1> HIDE DEF b, all
<1>5. step \in Surjection(1..(b + 1), all)
  BY <1>4 DEF Surjection
<1>6. IsFiniteSet(1..(b + 1)) /\ Cardinality(1..(b + 1)) = b + 1
  BY <1>1, FS_Interval
<1> HIDE DEF step
<1>7. IsFiniteSet(all) /\ Cardinality(all) <= b + 1
  BY <1>5, <1>6, FS_Surjection
<1>8. S \in SUBSET all
  BY DEF all
<1>9. IsFiniteSet(S) /\ Cardinality(S) <= Cardinality(all)
  BY <1>7, <1>8, FS_Subset
<1>10. Cardinality(S) \in Nat /\ Cardinality(all) \in Nat
  BY <1>7, <1>9, FS_CardinalityType
<1>11. S \subseteq Int
  BY <1>3, <1>4, <1>8
<1> QED BY <1>1, <1>2, <1>7, <1>9, <1>10, <1>11

\* A result of Prometheus has some of the steps and the samples of its feature.
LEMMA PrometheusResultIs ==
  ASSUME NEW from, NEW to, IsRange(from, to), NEW f
  PROVE  /\ Len(PrometheusResult(points, f, from, to)) \in 0..(Buckets(Floor(from), Ceil(to)) + 1)
         /\ \A j \in 1..Len(PrometheusResult(points, f, from, to)) :
              /\ PrometheusResult(points, f, from, to)[j].time \in Int
              /\ \A p \in PrometheusResult(points, f, from, to)[j].val : p \in points /\ p[1] = f
<1> DEFINE Recent(t) == {p \in Of(points, f) : p[2] <= t /\ p[2] > t - Lookback}
           S == {t \in PrometheusSteps(from, to) : Recent(t) # {}}
           steps == InOrder(S)
           result == PrometheusResult(points, f, from, to)
           Last(t) == {p \in Recent(t) : \A q \in Recent(t) : q[2] <= p[2]}
<1>1. result = [j \in DOMAIN steps |-> [time |-> steps[j], val |-> Last(steps[j])]]
  BY DEF PrometheusResult
<1>2. \A t : \A p \in Last(t) : p \in points /\ p[1] = f
  BY DEF Of
<1>3. S \subseteq PrometheusSteps(from, to)
  OBVIOUS
<1> HIDE DEF S, result, Last, Recent
<1>4. /\ S \subseteq Int /\ IsFiniteSet(S)
      /\ Cardinality(S) \in 0..(Buckets(Floor(from), Ceil(to)) + 1)
  BY <1>3, Steps
<1>5. /\ DOMAIN steps = 1..Cardinality(S)
      /\ \A j \in 1..Cardinality(S) : steps[j] \in S
  BY <1>4, Ordered
<1>6. Cardinality(S) \in Nat
  BY <1>4, FS_CardinalityType
<1> HIDE DEF steps
<1>7. DOMAIN result = 1..Cardinality(S)
  BY <1>1, <1>5
<1>8. Len(result) = Cardinality(S)
  BY <1>6, <1>7, LenIs
<1>9. ASSUME NEW j \in 1..Cardinality(S)
      PROVE  result[j].time \in Int /\ \A p \in result[j].val : p \in points /\ p[1] = f
  <2>1. result[j] = [time |-> steps[j], val |-> Last(steps[j])]
    BY <1>1, <1>5
  <2>2. steps[j] \in Int
    BY <1>4, <1>5
  <2> QED BY <2>1, <2>2, <1>2
<1> QED BY <1>4, <1>8, <1>9 DEF result

LEMMA PrometheusFits ==
  ASSUME NEW from, NEW to, IsRange(from, to), NEW refused
  PROVE  /\ Len(PrometheusAnswer(points, from, to, refused)) <= Buckets(Floor(from), Ceil(to)) + 1
         /\ \A k \in DOMAIN PrometheusAnswer(points, from, to, refused) :
              /\ PrometheusAnswer(points, from, to, refused)[k].time \in Int
              /\ DOMAIN PrometheusAnswer(points, from, to, refused)[k].val = Features
         /\ \A k \in DOMAIN PrometheusAnswer(points, from, to, refused), f \in Features :
              PrometheusAnswer(points, from, to, refused)[k].val[f] \subseteq points
         /\ Under(PrometheusAnswer(points, from, to, refused), refused)
<1> DEFINE who == Answered(refused)
           m == Cardinality(Features \ refused)
           b == Buckets(Floor(from), Ceil(to)) + 1
           results == [i \in DOMAIN who |-> PrometheusResult(points, who[i], from, to)]
           rows == Merge(results)
           long == Longest(results)
<1>1. rows = PrometheusAnswer(points, from, to, refused)
  BY DEF PrometheusAnswer
<1>2. m \in Nat /\ DOMAIN who = 1..m
  BY AnsweredInOrder
<1>3. DOMAIN results = 1..m /\ \A i \in 1..m : results[i] = PrometheusResult(points, who[i], from, to)
  BY <1>2
<1>4. b \in Nat
  <2>1. from \in Int /\ to \in Int /\ from < to
    BY DEF IsRange
  <2>2. /\ After(to) \in Int /\ First(from) \in Int /\ First(from) < After(to)
        /\ Buckets(Floor(from), Ceil(to)) = After(to) - First(from)
    BY <2>1, RangeIs
  <2> QED BY <2>2
<1> HIDE DEF results, who, m
<1>5. ASSUME NEW i \in 1..m
      PROVE  /\ Len(results[i]) \in 0..b
             /\ \A j \in 1..Len(results[i]) :
                  /\ results[i][j].time \in Int
                  /\ \A p \in results[i][j].val : p \in points /\ p[1] = who[i]
  BY <1>3, PrometheusResultIs
<1> HIDE DEF b
<1>6. /\ long \in 0..b
      /\ DOMAIN rows = 1..long /\ Len(rows) = long
      /\ \A j \in 1..long :
           /\ \E i \in 1..m : j <= Len(results[i]) /\ rows[j].time = results[i][j].time
           /\ DOMAIN rows[j].val = Features
           /\ \A f \in Features :
                rows[j].val[f] =
                  IF f \in 1..m /\ j <= Len(results[f]) THEN results[f][j].val ELSE {}
  <2>1. \A i \in 1..m : Len(results[i]) \in 0..b
    BY <1>5
  <2> QED BY <1>2, <1>3, <1>4, <2>1, Merged
<1> HIDE DEF rows, long
<1>7. Len(rows) <= b
  BY <1>4, <1>6
<1>8. ASSUME NEW k \in DOMAIN rows PROVE rows[k].time \in Int /\ DOMAIN rows[k].val = Features
  <2>1. PICK i \in 1..m : k <= Len(results[i]) /\ rows[k].time = results[i][k].time
    BY <1>6
  <2>2. k \in 1..Len(results[i])
    <3>1. k \in Nat \ {0} /\ Len(results[i]) \in Nat
      BY <1>4, <1>5, <1>6
    <3> QED BY <2>1, <3>1
  <2> QED BY <2>1, <2>2, <1>5, <1>6
<1>9. ASSUME NEW k \in DOMAIN rows, NEW f \in Features, refused \cap 1..f = {},
             NEW p \in rows[k].val[f]
      PROVE  p[1] = f
  <2>1. f \in 1..m /\ who[f] = f
    BY <1>2, <1>9, AnsweredInOrder DEF who
  <2>2. k <= Len(results[f]) /\ p \in results[f][k].val
    BY <1>6, <2>1
  <2>3. k \in 1..Len(results[f])
    <3>1. k \in Nat \ {0} /\ Len(results[f]) \in Nat
      BY <1>4, <1>5, <1>6, <2>1
    <3> QED BY <2>2, <3>1
  <2> QED BY <2>1, <2>2, <2>3, <1>5
<1>10. Under(rows, refused)
  BY <1>9 DEF Under
<1>11. ASSUME NEW k \in DOMAIN rows, NEW f \in Features, NEW p \in rows[k].val[f]
       PROVE  p \in points
  <2>1. f \in 1..m /\ k <= Len(results[f]) /\ p \in results[f][k].val
    BY <1>6
  <2>2. k \in 1..Len(results[f])
    <3>1. k \in Nat \ {0} /\ Len(results[f]) \in Nat
      BY <1>4, <1>5, <1>6, <2>1
    <3> QED BY <2>1, <3>1
  <2> QED BY <2>1, <2>2, <1>5
<1> QED BY <1>1, <1>7, <1>8, <1>10, <1>11 DEF b

-----------------------------------------------------------------------------
\* The state: an answer is always that of the points the database holds.

IsAnswer(from, to, refused) ==
  /\ from \in Times /\ to \in Times /\ from < to
  /\ refused \subseteq Refusable
  /\ refused = {} \/ adapter \in {"opentsdb", "prometheus"}
  /\ answer.from = from /\ answer.to = to /\ answer.refused = refused
  /\ answer.rows = TimesDataOf(adapter, points, from, to, refused)
  /\ answer.error \in BOOLEAN

Current ==
  /\ adapter \in Stores
  /\ points \subseteq Points
  /\ answer = NoAnswer \/ \E from, to, refused : IsAnswer(from, to, refused)

LEMMA PointsTimed == Points \subseteq Series
BY ReadBounds DEF Points, Times, Series

LEMMA AlwaysCurrent == Spec => []Current
<1>1. Init => Current
  BY DEF Init, Current
<1>2. ASSUME Current, [Next]_vars PROVE Current'
  <2> USE <1>2
  <2>1. ASSUME NEW p \in Points, Arrive(p) PROVE Current'
    BY <2>1 DEF Current, Arrive, NoAnswer, Points, Times
  <2>2. ASSUME NEW ps \in SUBSET Points, Write(ps) PROVE Current'
    BY <2>2 DEF Current, Write, NoAnswer, Points, Times
  <2>3. ASSUME NEW from \in Times, NEW to \in Times, NEW refused \in SUBSET Refusable,
               from < to, Read(from, to, refused)
        PROVE  Current'
    <3> DEFINE rows == TimesDataOf(adapter, points, from, to, refused)
    <3>1. /\ answer' = [from |-> from, to |-> to, refused |-> refused, rows |-> rows,
                        error |-> RaisesNoData(adapter, rows)]
          /\ adapter' = adapter /\ points' = points
          /\ refused = {} \/ adapter \in {"opentsdb", "prometheus"}
      BY <2>3 DEF Read
    <3>2. rows = TimesDataOf(adapter', points', from, to, refused)
      BY <3>1
    <3> HIDE DEF rows
    <3>3. RaisesNoData(adapter, rows) \in BOOLEAN
      BY DEF RaisesNoData
    <3>4. /\ answer'.from = from /\ answer'.to = to /\ answer'.refused = refused
          /\ answer'.rows = rows /\ answer'.error \in BOOLEAN
      BY <3>1, <3>3
    <3>5. IsAnswer(from, to, refused)'
      BY <2>3, <3>1, <3>2, <3>4 DEF IsAnswer, Times
    <3> QED BY <3>1, <3>5 DEF Current, Points, Times
  <2>4. CASE UNCHANGED vars
    BY <2>4 DEF Current, IsAnswer, vars, Points, Times
  <2> QED BY <2>1, <2>2, <2>3, <2>4 DEF Next
<1> QED BY <1>1, <1>2, PTL DEF Spec

\* Every adapter but that of Prometheus answers the rows that the query asks for.
LEMMA GriddedIsRight ==
  ASSUME points \subseteq Series, adapter \in Gridded, NEW from, NEW to, IsRange(from, to)
  PROVE  Right(TimesDataOf(adapter, points, from, to, {}),
               IF adapter = "mem" THEN from ELSE Floor(from), from, to)
<1>1. CASE adapter = "mem"
  BY <1>1, MemIsRight DEF TimesDataOf
<1>2. CASE adapter = "influx"
  BY <1>2, InfluxIsRight DEF TimesDataOf
<1>3. CASE adapter = "elastic"
  BY <1>3, ElasticIsRight DEF TimesDataOf
<1>4. CASE adapter = "mongo"
  BY <1>4, MongoIsRight DEF TimesDataOf
<1>5. CASE adapter = "warp10"
  BY <1>5, Warp10IsRight DEF TimesDataOf
<1>6. CASE adapter = "opentsdb"
  BY <1>6, OpenTSDBIsRight DEF TimesDataOf
<1> QED BY <1>1, <1>2, <1>3, <1>4, <1>5, <1>6 DEF Gridded, Adapters

\* What a read answers, for each adapter.
LEMMA EveryAnswer ==
  ASSUME Current, NEW from, NEW to, NEW refused, IsAnswer(from, to, refused)
  PROVE  LET start == IF adapter = "mem" THEN from ELSE Floor(from)
         IN  /\ IsRange(from, to) /\ start \in Int
             /\ adapter \in Gridded /\ refused = {} => Right(answer.rows, start, from, to)
             /\ adapter \in Gridded => Fits(answer.rows, start, from, to)
             /\ adapter = "prometheus" =>
                  /\ Len(answer.rows) <= Buckets(Floor(from), Ceil(to)) + 1
                  /\ \A k \in DOMAIN answer.rows :
                       answer.rows[k].time \in Int /\ DOMAIN answer.rows[k].val = Features
             /\ Under(answer.rows, refused)
<1> DEFINE start == IF adapter = "mem" THEN from ELSE Floor(from)
           rows == TimesDataOf(adapter, points, from, to, refused)
<1>1. IsRange(from, to)
  BY ReadBounds DEF IsAnswer, IsRange, Times
<1>2. start \in Int
  BY <1>1, FloorIs DEF IsRange
<1>3. adapter \in Adapters /\ points \subseteq Series /\ answer.rows = rows
  BY StoresAssumption, PointsTimed DEF Current, IsAnswer
<1>4. CASE adapter \in Gridded /\ refused = {}
  <2>1. Right(rows, start, from, to)
    BY <1>1, <1>3, <1>4, GriddedIsRight
  <2> HIDE DEF rows
  <2> QED BY <2>1, <1>1, <1>2, <1>3, <1>4, RightFits DEF Gridded
<1>5. CASE adapter = "opentsdb" /\ refused # {}
  <2>1. rows = OpenTSDBAnswer(points, from, to, refused)
    BY <1>5 DEF TimesDataOf
  <2>2. Fits(rows, start, from, to) /\ Under(rows, refused)
    BY <2>1, <1>1, <1>5, OpenTSDBFits
  <2> HIDE DEF rows
  <2> QED BY <2>2, <1>1, <1>2, <1>3, <1>5
<1>6. CASE adapter = "prometheus"
  <2>1. rows = PrometheusAnswer(points, from, to, refused)
    BY <1>6 DEF TimesDataOf
  <2>2. /\ Len(rows) <= Buckets(Floor(from), Ceil(to)) + 1
        /\ \A k \in DOMAIN rows : rows[k].time \in Int /\ DOMAIN rows[k].val = Features
        /\ Under(rows, refused)
    BY <2>1, <1>1, PrometheusFits
  <2> HIDE DEF rows
  <2> QED BY <2>2, <1>1, <1>2, <1>3, <1>6 DEF Gridded
<1> QED BY <1>3, <1>4, <1>5, <1>6 DEF IsAnswer, Gridded

LEMMA Empty ==
  ASSUME answer = NoAnswer
  PROVE  /\ answer.from = 0 /\ answer.to = 0 /\ answer.refused = {} /\ answer.error = FALSE
         /\ answer.rows = <<>> /\ DOMAIN answer.rows = {} /\ Len(answer.rows) = 0
         /\ Buckets(Floor(answer.from), Ceil(answer.to)) = 0
<1>1. /\ answer.from = 0 /\ answer.to = 0 /\ answer.refused = {} /\ answer.error = FALSE
      /\ answer.rows = <<>>
  BY DEF NoAnswer, NoRows
<1>2. Floor(0) = 0 /\ Ceil(0) = 0
  BY DEF Floor, Ceil
<1>3. Buckets(0, 0) = 0
  BY DEF Buckets
<1> QED BY <1>1, <1>2, <1>3

\* Every row has a time and a value for every feature.
THEOREM TypeCorrect == Spec => []TypeOK
<1>1. Current => TypeOK
  <2> SUFFICES ASSUME Current PROVE TypeOK
    OBVIOUS
  <2>1. CASE answer = NoAnswer
    <3>1. 0 \in Times
      BY ReadBounds DEF Times
    <3> QED BY <2>1, <3>1, Empty DEF Current, TypeOK
  <2>2. CASE answer # NoAnswer
    <3>1. PICK from, to, refused : IsAnswer(from, to, refused)
      BY <2>2 DEF Current
    <3> DEFINE start == IF adapter = "mem" THEN from ELSE Floor(from)
    <3>2. /\ start \in Int
          /\ adapter \in Gridded => Fits(answer.rows, start, from, to)
          /\ adapter = "prometheus" =>
               \A k \in DOMAIN answer.rows :
                 answer.rows[k].time \in Int /\ DOMAIN answer.rows[k].val = Features
      BY <3>1, EveryAnswer
    <3> HIDE DEF start
    <3>3. \A k \in DOMAIN answer.rows :
            answer.rows[k].time \in Int /\ DOMAIN answer.rows[k].val = Features
      <4>1. CASE adapter = "prometheus"
        BY <4>1, <3>2
      <4>2. CASE adapter # "prometheus"
        <5>1. adapter \in Gridded
          BY <4>2, StoresAssumption DEF Current, Gridded
        <5>2. PICK n \in 0..Buckets(Floor(from), Ceil(to)) :
                /\ DOMAIN answer.rows = 1..n
                /\ \A k \in 1..n : /\ answer.rows[k].time = start + (k - 1) * Interval
                                   /\ DOMAIN answer.rows[k].val = Features
          BY <3>2, <5>1 DEF Fits
        <5>3. ASSUME NEW k \in 1..n PROVE start + (k - 1) * Interval \in Int
          <6>1. k - 1 \in Int
            OBVIOUS
          <6> QED BY <6>1, <3>2, Product
        <5> QED BY <5>2, <5>3
      <4> QED BY <4>1, <4>2
    <3> QED BY <3>1, <3>3 DEF Current, IsAnswer, TypeOK
  <2> QED BY <2>1, <2>2
<1> QED BY <1>1, AlwaysCurrent, PTL

\* There are no more rows than buckets in the range, and the row k is the bucket
\* k: DonutModel fills the cell k of an array of that size with it.
THEOREM RowsFit == Spec => []RowsFitTheRange
<1>1. Current => RowsFitTheRange
  <2> SUFFICES ASSUME Current PROVE RowsFitTheRange
    OBVIOUS
  <2>1. CASE answer = NoAnswer
    BY <2>1, Empty DEF RowsFitTheRange
  <2>2. CASE answer # NoAnswer
    <3>1. PICK from, to, refused : IsAnswer(from, to, refused)
      BY <2>2 DEF Current
    <3> DEFINE start == IF adapter = "mem" THEN from ELSE Floor(from)
               buckets == Buckets(Floor(from), Ceil(to))
    <3>2. /\ adapter \in Gridded => Fits(answer.rows, start, from, to)
          /\ adapter = "prometheus" => Len(answer.rows) <= buckets + 1
      BY <3>1, EveryAnswer
    <3>3. answer.from = from /\ answer.to = to
      BY <3>1 DEF IsAnswer
    <3>4. CASE adapter = "prometheus"
      BY <3>2, <3>3, <3>4 DEF RowsFitTheRange
    <3>5. CASE adapter # "prometheus"
      <4>1. adapter \in Gridded
        BY <3>5, StoresAssumption DEF Current, Gridded
      <4> HIDE DEF start, buckets
      <4>2. PICK n \in 0..buckets :
              /\ DOMAIN answer.rows = 1..n
              /\ \A k \in 1..n : answer.rows[k].time = start + (k - 1) * Interval
        BY <3>2, <4>1 DEF Fits, buckets
      <4>3. Len(answer.rows) = n /\ n <= buckets
        BY <4>2, LenIs
      <4> QED BY <3>3, <3>5, <4>2, <4>3 DEF RowsFitTheRange, start, buckets
    <3> QED BY <3>4, <3>5
  <2> QED BY <2>1, <2>2
<1> QED BY <1>1, AlwaysCurrent, PTL

\* The results of the features are put together by position, and a refused query
\* has none: the values of a feature are its own as far as none is refused.
THEOREM ValuesAreOwn == Spec => []ValuesUnderTheirFeature
<1>1. Current => ValuesUnderTheirFeature
  <2> SUFFICES ASSUME Current PROVE ValuesUnderTheirFeature
    OBVIOUS
  <2>1. CASE answer = NoAnswer
    BY <2>1, Empty DEF ValuesUnderTheirFeature
  <2>2. CASE answer # NoAnswer
    <3>1. PICK from, to, refused : IsAnswer(from, to, refused)
      BY <2>2 DEF Current
    <3>2. Under(answer.rows, refused) /\ answer.refused = refused
      BY <3>1, EveryAnswer DEF IsAnswer
    <3> QED BY <3>2 DEF Under, ValuesUnderTheirFeature
  <2> QED BY <2>1, <2>2
<1> QED BY <1>1, AlwaysCurrent, PTL

\* A row has the points of its bucket and no others, feature by feature, and no
\* point that is asked for is left out.
THEOREM RowsAreExact == Spec => []RowsExact
<1>1. Current => RowsExact
  <2> SUFFICES ASSUME Current, adapter \in Gridded, answer.refused = {} PROVE RowsExact
    BY DEF RowsExact
  <2>1. CASE answer = NoAnswer
    <3>1. answer.from = 0 /\ answer.to = 0 /\ DOMAIN answer.rows = {}
      BY <2>1, Empty
    <3>3. Asked(answer.from, answer.to) \subseteq points
      BY DEF Asked, From
    <3>4. From(Asked(answer.from, answer.to), answer.from, answer.to) = {}
      <4> SUFFICES ASSUME NEW p \in Asked(answer.from, answer.to), 0 <= p[2], p[2] < 0
                   PROVE  FALSE
        BY <3>1 DEF From
      <4>1. p[2] \in Nat
        BY <3>3, PointsTimed, PointIs DEF Current
      <4> QED BY <4>1
    <3> QED BY <3>1, <3>4 DEF RowsExact
  <2>2. CASE answer # NoAnswer
    <3>1. PICK from, to, refused : IsAnswer(from, to, refused)
      BY <2>2 DEF Current
    <3> DEFINE start == IF adapter = "mem" THEN from ELSE Floor(from)
               asked == Asked(from, to)
    <3>2. answer.from = from /\ answer.to = to /\ refused = {}
      BY <3>1 DEF IsAnswer
    <3>3. Right(answer.rows, start, from, to)
      BY <3>1, <3>2, EveryAnswer
    <3> HIDE DEF start
    <3>4. PICK n \in 0..Buckets(Floor(from), Ceil(to)) :
            /\ DOMAIN answer.rows = 1..n
            /\ \A k \in 1..n :
                 /\ answer.rows[k].time = start + (k - 1) * Interval
                 /\ DOMAIN answer.rows[k].val = Features
                 /\ \A f \in Features :
                      answer.rows[k].val[f] =
                        Of(asked \cap InRowOf(start + (k - 1) * Interval), f)
            /\ \A p \in From(asked, from, to) :
                 \E k \in 1..n : p \in InRowOf(start + (k - 1) * Interval)
      BY <3>3 DEF Right
    <3>5. asked \subseteq points
      BY DEF Asked, From
    <3> HIDE DEF asked
    <3>6. \A k \in DOMAIN answer.rows, f \in Features :
            answer.rows[k].val[f] = Of(asked \cap InRowOf(answer.rows[k].time), f)
      BY <3>4
    <3>7. ASSUME NEW p \in From(asked, from, to)
          PROVE  \E k \in DOMAIN answer.rows : p \in answer.rows[k].val[p[1]]
      <4>1. PICK k \in 1..n : p \in InRowOf(start + (k - 1) * Interval)
        BY <3>4
      <4>2. p \in asked /\ p[1] \in Features
        <5>1. p \in asked /\ p \in points
          BY <3>5 DEF From
        <5> QED BY <5>1, PointsTimed, PointIs DEF Current
      <4>3. p \in Of(asked \cap InRowOf(start + (k - 1) * Interval), p[1])
        BY <4>1, <4>2 DEF Of
      <4>4. p \in answer.rows[k].val[p[1]] /\ k \in DOMAIN answer.rows
        BY <4>2, <4>3, <3>4
      <4> QED BY <4>4
    <3> QED BY <3>2, <3>6, <3>7 DEF RowsExact, asked
  <2> QED BY <2>1, <2>2
<1> QED BY <1>1, AlwaysCurrent, PTL

-----------------------------------------------------------------------------
\* The series of a model: DonutSeries.

\* A range of whole buckets.
LEMMA OnGrid ==
  ASSUME NEW a \in Int, NEW c \in Int, a < c
  PROVE  /\ a * Interval \in Int /\ c * Interval \in Int /\ a * Interval < c * Interval
         /\ Floor(a * Interval) = a * Interval /\ Floor(c * Interval) = c * Interval
         /\ Ceil(c * Interval) = c * Interval
         /\ First(a * Interval) = a /\ After(c * Interval) = c
         /\ Buckets(a * Interval, c * Interval) = c - a
         /\ IsRange(a * Interval, c * Interval)
<1>1. a * Interval \in Int /\ c * Interval \in Int /\ a * Interval < c * Interval
  BY Product
<1>2. \A k \in Int : Floor(k * Interval) = k * Interval /\ First(k * Interval) = k
  BY Product DEF Floor, First
<1>3. Ceil(c * Interval) = c * Interval /\ After(c * Interval) = c
  <2>1. (c * Interval + Interval - 1) \div Interval = c
    <3> DEFINE t == c * Interval
               d == (t + Interval - 1) \div Interval
    <3>1. t \in Int
      BY <1>1
    <3>2. d \in Int /\ d * Interval <= t + Interval - 1 /\ t + Interval - 1 < d * Interval + Interval
      BY <3>1
    <3>3. (d + 1) * Interval = d * Interval + 1 * Interval /\ d * Interval \in Int
      BY <3>2, Product
    <3>4. (c + 1) * Interval = c * Interval + 1 * Interval
      BY Product
    <3> HIDE DEF d
    <3>5. c * Interval < (d + 1) * Interval /\ d * Interval < (c + 1) * Interval
      BY <3>1, <3>2, <3>3, <3>4
    <3>6. c < d + 1 /\ d < c + 1
      <4>1. d + 1 \in Int /\ c + 1 \in Int
        BY <3>2
      <4> QED BY <3>2, <3>5, <4>1, Product
    <3>7. d = c
      BY <3>2, <3>6
    <3> QED BY <3>7 DEF d
  <2> QED BY <2>1 DEF Ceil, After, Floor
<1>4. Buckets(a * Interval, c * Interval) = c - a
  BY BucketsIs
<1> QED BY <1>1, <1>2, <1>3, <1>4 DEF IsRange

\* All the rows or none: only MongoDB's adapter cuts rows off.
LEMMA WholeRows ==
  ASSUME points \subseteq Series, adapter \in Gridded \ {"mongo"},
         NEW a \in Int, NEW c \in Int, a < c
  PROVE  Len(TimesDataOf(adapter, points, a * Interval, c * Interval, {})) \in {0, c - a}
<1> DEFINE from == a * Interval
           to == c * Interval
           n == c - a
           rows == TimesDataOf(adapter, points, from, to, {})
<1>1. /\ from \in Int /\ to \in Int /\ from < to
      /\ Floor(from) = from /\ Floor(to) = to /\ Ceil(to) = to
      /\ First(from) = a /\ After(to) = c /\ Buckets(from, to) = n
      /\ IsRange(from, to) /\ n \in Nat
  <2>1. n \in Nat
    OBVIOUS
  <2>2. Buckets(from, to) = n
    BY OnGrid
  <2> HIDE DEF n
  <2> QED BY <2>1, <2>2, OnGrid
<1> HIDE DEF from, to
<1>2. CASE adapter = "mem"
  <2>1. rows = MemAnswer(points, from, to)
    BY <1>2 DEF TimesDataOf
  <2>2. Buckets(from, to + Interval - 1) = n
    <3> DEFINE e == Buckets(from, to + Interval - 1)
    <3>1. n * Interval = c * Interval - a * Interval
      BY Product
    <3>2. e \in Int /\ e * Interval <= to + Interval - 1 - from /\ to + Interval - 1 - from < e * Interval + Interval
      BY <1>1 DEF Buckets
    <3>3. (e + 1) * Interval = e * Interval + 1 * Interval /\ e * Interval \in Int
      BY <3>2, Product
    <3>4. (n + 1) * Interval = n * Interval + 1 * Interval /\ n * Interval \in Int
      BY <1>1, Product
    <3> HIDE DEF e, n
    <3>5. n * Interval < (e + 1) * Interval /\ e * Interval < (n + 1) * Interval
      BY <1>1, <3>1, <3>2, <3>3, <3>4 DEF from, to
    <3>6. n < e + 1 /\ e < n + 1
      <4>1. e + 1 \in Int /\ n + 1 \in Int
        BY <1>1, <3>2
      <4> QED BY <1>1, <3>2, <3>5, <4>1, Product
    <3>7. e = n
      BY <1>1, <3>2, <3>6
    <3> QED BY <3>7 DEF e
  <2>3. DOMAIN rows = 1..n
    BY <2>1, <2>2 DEF MemAnswer
  <2> HIDE DEF rows, n
  <2> QED BY <2>3, <1>1, LenIs DEF rows, n, from, to
<1>3. CASE adapter = "influx"
  <2> DEFINE results == [f \in Features |-> InfluxResult(points, f, from, to)]
             ps == From(points, from, to)
             who == [f \in Features |-> f]
  <2>1. rows = Merge(results)
    BY <1>3 DEF TimesDataOf, InfluxAnswer
  <2>2. BinsOf(results, NbFeatures, ps, who, from, n)
    <3> SUFFICES ASSUME NEW f \in Features
                 PROVE  results[f] = IF Of(ps, f) = {} THEN <<>> ELSE Binned(Of(ps, f), from, n)
      BY DEF BinsOf, Features
    <3>1. From(Of(points, f), from, to) = Of(ps, f)
      BY DEF From, Of
    <3> HIDE DEF ps, n
    <3> QED BY <1>1, <3>1 DEF InfluxResult
  <2>3. DOMAIN results = 1..NbFeatures
    BY DEF Features
  <2> HIDE DEF rows, results, ps, who, n
  <2>4. MergeOfBins(results, NbFeatures, ps, who, from, n)
    BY <1>1, <2>2, <2>3, MergedBins
  <2>5. Len(rows) \in {0, n}
    BY <2>1, <2>4 DEF MergeOfBins
  <2> QED BY <2>5 DEF rows, n, from, to
<1>4. CASE adapter = "elastic"
  <2> DEFINE ps == From(points, from, to)
  <2>1. rows = IF ps = {} THEN NoRows ELSE ElasticHistogram(ps, from, to)
    BY <1>4 DEF TimesDataOf, ElasticAnswer
  <2>2. CASE ps = {}
    <3>1. rows = <<>>
      BY <2>1, <2>2 DEF NoRows
    <3>2. Len(<<>>) = 0
      OBVIOUS
    <3> HIDE DEF rows, n
    <3> QED BY <3>1, <3>2 DEF rows, n, from, to
  <2>3. CASE ps # {}
    <3> DEFINE bounds == {from, (c - 1) * Interval} \cup {Floor(p[2]) : p \in ps}
               last == CHOOSE t \in bounds : \A u \in bounds : u <= t
    <3>1. Floor(to - Interval) = (c - 1) * Interval /\ (c - 1) * Interval \in Int
      <4>1. (c - 1) * Interval = c * Interval - 1 * Interval /\ c - 1 \in Int
        BY Product
      <4>3. to - Interval = (c - 1) * Interval
        BY <4>1, <1>1 DEF to
      <4>2. \A k \in Int : Floor(k * Interval) = k * Interval /\ k * Interval \in Int
        BY Product DEF Floor
      <4> QED BY <4>1, <4>2, <4>3
    <3>2. ASSUME NEW t \in bounds PROVE t \in Int /\ t <= (c - 1) * Interval
      <4>1. CASE t = from
        <5>1. a <= c - 1 /\ c - 1 \in Int
          OBVIOUS
        <5>2. a * Interval <= (c - 1) * Interval
          BY <5>1, Product
        <5> QED BY <4>1, <5>2, <1>1 DEF from
      <4>2. CASE t = (c - 1) * Interval
        BY <4>2, <3>1
      <4>3. ASSUME NEW p \in ps, t = Floor(p[2]) PROVE t \in Int /\ t <= (c - 1) * Interval
        <5>1. p \in points /\ from <= p[2] /\ p[2] < to
          BY DEF From
        <5> DEFINE b == p[2] \div Interval
        <5>2. b \in Int /\ b < c /\ Floor(p[2]) = b * Interval
          BY <1>1, <5>1, BucketOfPoint
        <5> HIDE DEF b
        <5>3. b <= c - 1 /\ c - 1 \in Int
          BY <5>2
        <5>4. b * Interval <= (c - 1) * Interval /\ b * Interval \in Int
          BY <5>2, <5>3, Product
        <5> QED BY <4>3, <5>2, <5>4
      <4> QED BY <4>1, <4>2, <4>3
    <3>3. (c - 1) * Interval \in bounds
      OBVIOUS
    <3>4. last \in bounds /\ \A u \in bounds : u <= last
      <4> HIDE DEF bounds
      <4>1. \A u \in bounds : u <= (c - 1) * Interval
        BY <3>2
      <4> QED BY <3>3, <4>1
    <3>5. last = (c - 1) * Interval
      <4> HIDE DEF bounds, last
      <4>1. last \in Int /\ last <= (c - 1) * Interval
        BY <3>2, <3>4
      <4>2. (c - 1) * Interval <= last
        BY <3>3, <3>4
      <4> QED BY <3>1, <4>1, <4>2
    <3>6. Buckets(from, last) + 1 = n
      <4>1. c - 1 \in Int
        OBVIOUS
      <4>2. Buckets(a * Interval, (c - 1) * Interval) = c - 1 - a
        BY <4>1, BucketsIs
      <4> HIDE DEF last
      <4> QED BY <3>5, <4>2 DEF from
    <3>7. DOMAIN ElasticHistogram(ps, from, to) = 1..(Buckets(from, last) + 1)
      <4> HIDE DEF ps
      <4> QED BY <1>1, <3>1 DEF ElasticHistogram
    <3> HIDE DEF rows, ps, n, last, bounds
    <3>8. DOMAIN rows = 1..n
      BY <2>1, <2>3, <3>6, <3>7
    <3> QED BY <3>8, <1>1, LenIs DEF rows, n, from, to
  <2> QED BY <2>2, <2>3
<1>5. CASE adapter = "opentsdb"
  <2> DEFINE results == OpenTSDBResults({}, from, to)
             ps == From(points, from, to)
             m == Cardinality(Features \ {})
             who == Answered({})
  <2>1. rows = Merge(results)
    BY <1>5 DEF TimesDataOf, OpenTSDBAnswer, OpenTSDBResults
  <2>2. to \div Interval = c
    BY Product DEF to
  <2>3. BinsOf(results, m, ps, who, from, n)
    BY <1>1, <2>2, OpenTSDBBins
  <2>4. DOMAIN results = 1..m /\ m \in Nat
    BY AnsweredInOrder DEF OpenTSDBResults
  <2> HIDE DEF rows, results, ps, who, m, n
  <2>5. MergeOfBins(results, m, ps, who, from, n)
    BY <1>1, <2>3, <2>4, MergedBins
  <2>6. Len(rows) \in {0, n}
    BY <2>1, <2>5 DEF MergeOfBins
  <2> QED BY <2>6 DEF rows, n, from, to
<1>6. CASE adapter = "warp10"
  <2>1. rows = Warp10Answer(points, from, to)
    BY <1>6 DEF TimesDataOf
  <2>2. rows = NoRows \/ DOMAIN rows = 1..n
    BY <1>1, <2>1 DEF Warp10Answer
  <2> HIDE DEF rows, n
  <2>3. Len(rows) \in {0, n}
    BY <2>2, <1>1, LenIs DEF NoRows
  <2> QED BY <2>3 DEF rows, n, from, to
<1> QED BY <1>2, <1>3, <1>4, <1>5, <1>6 DEF Gridded, Adapters

\* The query asks for all that is in the buckets of the range.
LEMMA AskedInRow ==
  ASSUME points \subseteq Series, adapter \in Gridded, NEW a \in Int, NEW c \in Int, a < c,
         NEW k \in 1..(c - a)
  PROVE  InRowOf((a + k - 1) * Interval) \subseteq Asked(a * Interval, c * Interval)
<1> DEFINE t == (a + k - 1) * Interval
           from == a * Interval
           to == c * Interval
<1>1. from \in Int /\ to \in Int /\ Floor(from) = from /\ Floor(to) = to /\ Ceil(to) = to
  BY OnGrid
<1>2. t \in Int /\ from <= t /\ t + Interval <= to
  <2>1. a <= a + k - 1 /\ a + k <= c /\ a + k - 1 \in Int /\ a + k \in Int
    OBVIOUS
  <2>2. (a + k - 1) * Interval + Interval = (a + k) * Interval
    <3>1. ((a + k - 1) + 1) * Interval = (a + k - 1) * Interval + 1 * Interval
      BY <2>1, Product
    <3>2. (a + k - 1) + 1 = a + k
      OBVIOUS
    <3> QED BY <3>1, <3>2
  <2> QED BY <2>1, <2>2, Product
<1> HIDE DEF t, from, to
<1>3. ASSUME NEW p \in InRowOf(t) PROVE p \in Asked(from, to)
  <2>1. p \in points /\ t <= p[2] /\ p[2] <= t + Interval
        /\ (adapter = "warp10" => t < p[2])
        /\ (adapter # "warp10" => p[2] < t + Interval)
    <3>1. p \in points
      BY DEF InRowOf, Bin, From
    <3>2. p[2] \in Int
      BY <3>1, PointIs
    <3> QED BY <3>1, <3>2, <1>2 DEF InRowOf, Bin, From
  <2>2. p[2] \in Int
    BY <2>1, PointIs
  <2>3. /\ from <= p[2] /\ p[2] <= to
        /\ adapter = "warp10" => from < p[2]
        /\ adapter # "warp10" => p[2] < to
    BY <2>1, <2>2, <1>1, <1>2
  <2> QED BY <2>1, <2>3, <1>1 DEF Asked, From
<1> QED BY <1>3 DEF t, from, to

\* The rows of a history: the bucket k, with all that is in it.
IsHistory(rows, a, n) ==
  /\ DOMAIN rows = 1..n
  /\ \A k \in 1..n : /\ rows[k].time = (a + k - 1) * Interval
                     /\ rows[k].val = InRowOf((a + k - 1) * Interval)

LEMMA FoundIs ==
  ASSUME NbFeatures = 1, points \subseteq Series, adapter \in Gridded,
         NEW a \in Int, NEW c \in Int, a < c
  PROVE  \E n \in 0..(c - a) : /\ adapter # "mongo" => n \in {0, c - a}
                               /\ IsHistory(Found(a * Interval, c * Interval), a, n)
<1> DEFINE from == a * Interval
           to == c * Interval
           rows == TimesDataOf(adapter, points, from, to, {})
           asked == Asked(from, to)
<1>1. /\ from \in Int /\ to \in Int /\ IsRange(from, to)
      /\ Floor(from) = from /\ Ceil(to) = to /\ Buckets(from, to) = c - a
  BY OnGrid
<1>2. Right(rows, from, from, to)
  <2> HIDE DEF rows, from, to
  <2>1. (IF adapter = "mem" THEN from ELSE Floor(from)) = from
    BY <1>1
  <2> QED BY <1>1, <2>1, GriddedIsRight DEF rows
<1>3. PICK n \in 0..(c - a) :
        /\ DOMAIN rows = 1..n
        /\ \A k \in 1..n :
             /\ rows[k].time = from + (k - 1) * Interval
             /\ \A f \in Features :
                  rows[k].val[f] = Of(asked \cap InRowOf(from + (k - 1) * Interval), f)
  <2> HIDE DEF rows, from, to, asked
  <2> QED BY <1>1, <1>2 DEF Right, asked
<1>4. adapter # "mongo" => n \in {0, c - a}
  <2>1. adapter # "mongo" => Len(rows) \in {0, c - a}
    BY WholeRows
  <2> HIDE DEF rows
  <2>2. Len(rows) = n
    BY <1>3, LenIs
  <2> QED BY <2>1, <2>2
<1>5. Found(from, to) = [k \in DOMAIN rows |-> [time |-> rows[k].time, val |-> rows[k].val[1]]]
  <2>1. TimesDataOf(adapter, points, from, to, {}) = rows
    BY DEF Gridded
  <2> HIDE DEF rows, from, to
  <2> QED BY <2>1 DEF Found
<1>6. ASSUME NEW k \in 1..n
      PROVE  /\ rows[k].time = (a + k - 1) * Interval
             /\ rows[k].val[1] = InRowOf((a + k - 1) * Interval)
  <2>1. from + (k - 1) * Interval = (a + k - 1) * Interval
    <3>1. k - 1 \in Int /\ a + (k - 1) = a + k - 1
      OBVIOUS
    <3>2. (a + (k - 1)) * Interval = a * Interval + (k - 1) * Interval
      BY <3>1, Product
    <3> QED BY <3>1, <3>2
  <2>2. InRowOf((a + k - 1) * Interval) \subseteq asked
    <3>1. k \in 1..(c - a)
      BY <1>3
    <3> QED BY <3>1, AskedInRow
  <2>3. \A S : S \subseteq points => Of(S, 1) = S
    BY PointIs DEF Of, Features
  <2>4. InRowOf((a + k - 1) * Interval) \subseteq points
    BY DEF InRowOf, Bin, From
  <2> HIDE DEF from, to, rows, asked
  <2>5. 1 \in Features
    BY DEF Features
  <2>6. rows[k].val[1] = Of(asked \cap InRowOf((a + k - 1) * Interval), 1)
    BY <1>3, <2>1, <2>5
  <2>7. asked \cap InRowOf((a + k - 1) * Interval) = InRowOf((a + k - 1) * Interval)
    BY <2>2
  <2> QED BY <1>3, <2>1, <2>3, <2>4, <2>6, <2>7
<1> HIDE DEF rows
<1>7. IsHistory(Found(from, to), a, n)
  <2> HIDE DEF from, to
  <2>1. DOMAIN Found(from, to) = 1..n
    BY <1>3, <1>5
  <2>2. ASSUME NEW k \in 1..n
        PROVE  /\ Found(from, to)[k].time = (a + k - 1) * Interval
               /\ Found(from, to)[k].val = InRowOf((a + k - 1) * Interval)
    <3>1. Found(from, to)[k] = [time |-> rows[k].time, val |-> rows[k].val[1]]
      BY <1>3, <1>5
    <3> QED BY <3>1, <1>6
  <2> QED BY <2>1, <2>2 DEF IsHistory
<1> QED BY <1>4, <1>7

\* The last value before a missing one.
LEMMA LastBeforeIs ==
  ASSUME NEW v, NEW k \in Nat, \E j \in 1..(k - 1) : v[j] # {}
  PROVE  LET l == LastBefore(v, k)
         IN  l \in 1..(k - 1) /\ v[l] # {} /\ \A i \in (l + 1)..(k - 1) : v[i] = {}
<1> DEFINE some == {j \in 1..(k - 1) : v[j] # {}}
<1>1. PICK j \in some : \A i \in some : i <= j
  <2>1. some \subseteq Int /\ some # {} /\ k \in Int /\ \A i \in some : i <= k
    OBVIOUS
  <2> HIDE DEF some
  <2> QED BY <2>1, Greatest
<1>2. j \in 1..(k - 1) /\ v[j] # {} /\ \A i \in (j + 1)..(k - 1) : v[i] = {}
  <2>1. ASSUME NEW i \in (j + 1)..(k - 1), v[i] # {} PROVE FALSE
    <3>1. i \in some /\ i > j
      BY <2>1
    <3> QED BY <3>1, <1>1
  <2> QED BY <2>1
<1> QED BY <1>2 DEF LastBefore, Missing

\* The series of a history: what a bucket holds, or its default.
LEMMA DefaultsAre ==
  ASSUME NEW rows, NEW a \in Int, NEW n \in Nat, IsHistory(rows, a, n)
  PROVE  /\ DOMAIN ApplyDefaults(Values(rows)) = 1..n
         /\ \A k \in 1..n :
              ApplyDefaults(Values(rows))[k] = ValueAt((a + k - 1) * Interval, a * Interval)
<1> DEFINE v == Values(rows)
           x == ApplyDefaults(v)
           Start(k) == (a + k - 1) * Interval
<1>1. DOMAIN v = 1..n /\ \A k \in 1..n : v[k] = InRowOf(Start(k))
  BY DEF Values, IsHistory
<1>2. \A k \in Int : Start(k) \in Int
  <2> TAKE k \in Int
  <2>1. a + k - 1 \in Int
    OBVIOUS
  <2> QED BY <2>1, Product
<1>3. \A j \in Int, k \in Int : Start(j) <= Start(k) <=> j <= k
  <2> TAKE j \in Int, k \in Int
  <2>1. a + j - 1 \in Int /\ a + k - 1 \in Int /\ (a + j - 1 <= a + k - 1 <=> j <= k)
    OBVIOUS
  <2> QED BY <2>1, Product
<1>4. \A j \in Int : a * Interval + j * Interval = Start(j + 1)
  <2> TAKE j \in Int
  <2>1. (a + j) * Interval = a * Interval + j * Interval /\ a + (j + 1) - 1 = a + j
    BY Product
  <2> QED BY <2>1
<1>5. ASSUME NEW k \in 1..n PROVE Buckets(a * Interval, Start(k)) = k - 1
  <2>1. a + k - 1 \in Int /\ (a + k - 1) - a = k - 1
    OBVIOUS
  <2>2. Buckets(a * Interval, (a + k - 1) * Interval) = k - 1
    BY <2>1, BucketsIs
  <2> QED BY <2>2
<1>6. DOMAIN x = 1..n
  BY <1>1 DEF ApplyDefaults
<1> HIDE DEF v, Start
<1>7. ASSUME NEW k \in 1..n PROVE x[k] = ValueAt(Start(k), a * Interval)
  <2> DEFINE full == {u \in {a * Interval + j * Interval : j \in 0..(k - 1)} : InRowOf(u) # {}}
             last == CHOOSE u \in full : \A w \in full : w <= u
  <2>1. /\ v[k] # {} => x[k] = v[k]
        /\ v[k] = {} /\ default = "value" => x[k] = DefaultValue
        /\ v[k] = {} /\ default = "previous" =>
             IF \E j \in 1..(k - 1) : v[j] # {} THEN x[k] = v[LastBefore(v, k)] ELSE x[k] = {}
        /\ v[k] = {} /\ default \notin {"value", "previous"} => x[k] = {}
    <3>1. k \in DOMAIN v
      BY <1>1
    <3> QED BY <3>1 DEF ApplyDefaults, DefaultOf, Missing
  <2>2. LET y == ValueAt(Start(k), a * Interval)
        IN  /\ v[k] # {} => y = v[k]
            /\ v[k] = {} /\ default = "value" => y = DefaultValue
            /\ v[k] = {} /\ default = "previous" => IF full # {} THEN y = InRowOf(last) ELSE y = {}
            /\ v[k] = {} /\ default \notin {"value", "previous"} => y = {}
    <3>1. v[k] = InRowOf(Start(k)) /\ Buckets(a * Interval, Start(k)) = k - 1
      BY <1>1, <1>5
    <3> QED BY <3>1 DEF ValueAt, Missing
  <2>3. ASSUME NEW u \in full, v[k] = {}
        PROVE  \E j \in 1..(k - 1) : u = Start(j) /\ v[j] # {}
    <3>1. PICK j \in 0..(k - 1) : u = a * Interval + j * Interval
      OBVIOUS
    <3>2. u = Start(j + 1) /\ j + 1 \in 1..n /\ j + 1 \in 1..k
      BY <3>1, <1>4
    <3>3. v[j + 1] # {}
      BY <3>2, <1>1
    <3>4. j + 1 \in 1..(k - 1)
      BY <3>2, <3>3, <2>3
    <3> QED BY <3>2, <3>3, <3>4
  <2>4. ASSUME NEW j \in 1..(k - 1), v[j] # {} PROVE Start(j) \in full
    <3>1. j - 1 \in 0..(k - 1) /\ j - 1 \in Int /\ (j - 1) + 1 = j /\ j \in 1..n
      OBVIOUS
    <3>2. a * Interval + (j - 1) * Interval = Start(j)
      BY <3>1, <1>4
    <3>3. InRowOf(Start(j)) # {}
      BY <3>1, <2>4, <1>1
    <3> QED BY <3>1, <3>2, <3>3
  <2> HIDE DEF full
  <2>5. CASE v[k] = {} /\ \E j \in 1..(k - 1) : v[j] # {}
    <3> DEFINE l == LastBefore(v, k)
    <3>2. l \in 1..(k - 1) /\ v[l] # {} /\ \A i \in (l + 1)..(k - 1) : v[i] = {}
      <4>1. k \in Nat
        OBVIOUS
      <4> QED BY <2>5, <4>1, LastBeforeIs
    <3> HIDE DEF l
    <3>3. Start(l) \in full /\ \A w \in full : w <= Start(l)
      <4>1. Start(l) \in full
        BY <3>2, <2>4
      <4>2. ASSUME NEW w \in full PROVE w <= Start(l)
        <5>1. PICK j \in 1..(k - 1) : w = Start(j) /\ v[j] # {}
          BY <2>3, <2>5
        <5>2. j <= l
          BY <5>1, <3>2
        <5> QED BY <5>1, <5>2, <3>2, <1>3
      <4> QED BY <4>1, <4>2
    <3>4. last \in full /\ Start(l) <= last /\ last <= Start(l)
      <4>1. last \in full /\ \A w \in full : w <= last
        BY <3>3
      <4> HIDE DEF last
      <4> QED BY <4>1, <3>3
    <3>5. last = Start(l)
      <4> HIDE DEF last
      <4>1. last \in Int /\ Start(l) \in Int
        BY <2>3, <2>5, <3>2, <3>4, <1>2
      <4> QED BY <4>1, <3>4
    <3>6. InRowOf(last) = v[l] /\ full # {}
      <4>1. l \in 1..n
        BY <3>2
      <4> QED BY <4>1, <3>5, <3>3, <1>1
    <3> HIDE DEF last, x
    <3> QED BY <2>1, <2>2, <2>5, <3>6 DEF l
  <2>6. CASE ~(v[k] = {} /\ \E j \in 1..(k - 1) : v[j] # {})
    <3>1. v[k] = {} => full = {}
      BY <2>3, <2>6
    <3> HIDE DEF last, x
    <3> QED BY <2>1, <2>2, <2>6, <3>1
  <2> QED BY <2>5, <2>6
<1> QED BY <1>6, <1>7 DEF v, Start

LEMMA SubSeqIs ==
  ASSUME NEW x, NEW n \in Nat, DOMAIN x = 1..n, NEW i \in 1..n, NEW j \in i..n
  PROVE  /\ SubSeq(x, i, j) = [k \in 1..(j - i + 1) |-> x[k + i - 1]]
         /\ DOMAIN SubSeq(x, i, j) = 1..(j - i + 1)
OBVIOUS

\* The estimate of the entry k: the network sees the span of buckets that ends
\* there, or the first one and the estimates since then.
EstimateOf(kind, x, k) ==
  IF kind = "predict" THEN <<"window", [i \in 1..net.width |-> x[k + i - 1]]>>
  ELSE <<"rolled", k - 1, [i \in 1..net.width |-> x[i]]>>

\* What a job returns of n rows, the series x of them included: an entry for each
\* row but those before the range, with the estimate of the span that ends there.
IsSeries(r, kind, s, c, x, n) ==
  /\ r.kind = kind /\ r.from = s * Interval /\ r.to = c * Interval
  /\ DOMAIN r.times = 1..(n - net.width + 1) /\ DOMAIN r.observed = 1..(n - net.width + 1)
  /\ \A k \in 1..(n - net.width + 1) :
       /\ r.times[k] = (s + k - 1) * Interval
       /\ r.observed[k] = x[k + net.width - 1]
       /\ r.predicted[k] = EstimateOf(kind, x, k)

\* The estimates of n rows.
LEMMA EstimatesAre ==
  ASSUME NEW x, NEW n \in Nat, DOMAIN x = 1..n, net.width \in 1..n, span = net.width,
         NEW kind, NEW size \in Nat, n - net.width + 1 <= size,
         NEW k \in 1..(n - net.width + 1)
  PROVE  Padded(Estimates(kind, x), size)[k] = EstimateOf(kind, x, k)
<1> DEFINE m == n - net.width + 1
           data == FormatDataset(x, net.width)
           y == Estimates(kind, x)
<1>1. m \in Nat /\ k \in 1..m /\ k \in 1..size /\ 1 \in 1..m
  OBVIOUS
<1>2. DOMAIN data = 1..m /\ \A j \in 1..m : data[j] = [i \in 1..net.width |-> x[j + i - 1]]
  <2>1. Len(x) = n
    BY LenIs
  <2>2. data = [j \in 1..m |-> SubSeq(x, j, j + net.width - 1)]
    BY <2>1 DEF FormatDataset
  <2>3. ASSUME NEW j \in 1..m
        PROVE  SubSeq(x, j, j + net.width - 1) = [i \in 1..net.width |-> x[j + i - 1]]
    <3>1. j \in 1..n /\ j + net.width - 1 \in j..n /\ j + net.width - 1 - j + 1 = net.width
      OBVIOUS
    <3>2. SubSeq(x, j, j + net.width - 1) =
            [i \in 1..(j + net.width - 1 - j + 1) |-> x[i + j - 1]]
      BY <3>1, SubSeqIs
    <3>3. \A i \in 1..net.width : i + j - 1 = j + i - 1
      OBVIOUS
    <3> QED BY <3>1, <3>2, <3>3
  <2> HIDE DEF m
  <2> QED BY <2>2, <2>3
<1>3. data[1] = [i \in 1..net.width |-> x[i]]
  <2>1. data[1] = [i \in 1..net.width |-> x[1 + i - 1]]
    BY <1>1, <1>2
  <2>2. \A i \in 1..net.width : 1 + i - 1 = i
    OBVIOUS
  <2> QED BY <2>1, <2>2
<1> HIDE DEF data
<1>4. DOMAIN y = 1..m /\ y[k] = IF kind = "predict" THEN <<"window", data[k]>>
                                ELSE <<"rolled", k - 1, data[1]>>
  BY <1>1, <1>2 DEF Estimates, PredictWindows, ForecastWindows, W, data
<1> HIDE DEF y
<1>5. Len(y) = m /\ k <= m
  BY <1>1, <1>4, LenIs
<1>6. Padded(y, size)[k] = y[k]
  BY <1>1, <1>5 DEF Padded
<1> QED BY <1>1, <1>2, <1>3, <1>4, <1>6 DEF y, EstimateOf

LEMMA CutIs ==
  ASSUME NEW z, NEW n \in Nat, DOMAIN z = 1..n, net.width \in 1..n
  PROVE  Cut(z) = [k \in 1..(n - net.width + 1) |-> z[k + net.width - 1]]
<1>1. Len(z) = n
  BY LenIs
<1>2. n \in net.width..n
  OBVIOUS
<1>3. SubSeq(z, net.width, n) = [k \in 1..(n - net.width + 1) |-> z[k + net.width - 1]]
  BY <1>2, SubSeqIs
<1> QED BY <1>1, <1>3 DEF Cut

LEMMA AllBefore ==
  ASSUME NEW rows, NEW n \in Nat, DOMAIN rows = 1..n, NEW end,
         \A k \in 1..n : rows[k].time < end
  PROVE  Before(rows, end) = n
<1>1. {k \in DOMAIN rows : rows[k].time < end} = 1..n
  OBVIOUS
<1>2. Cardinality(1..n) = n
  BY FS_Interval
<1> QED BY <1>1, <1>2 DEF Before

\* The job has failed, or it returns the series of its rows.
LEMMA ResultIs ==
  ASSUME NbFeatures = 1, points \subseteq Series, adapter \in Gridded, net.width \in Nat,
         NEW s \in Int, NEW c \in Int, s < c, NEW kind
  PROVE  LET a == s - (net.width - 1)
             r == Result(kind, s * Interval, c * Interval)
         IN  \/ /\ r \in {NoSeries(k) : k \in {"not_trained", "no_data", "width", "not_enough"}}
                /\ adapter # "mongo" /\ r = NoSeries("not_enough") => span # net.width
             \/ \E rows, n : /\ n \in net.width..(c - a) /\ net.width \in 1..n
                             /\ adapter # "mongo" => n = c - a
                             /\ IsHistory(rows, a, n)
                             /\ IsSeries(r, kind, s, c, ApplyDefaults(Values(rows)), n)
<1> DEFINE a == s - (net.width - 1)
           end == c * Interval
           hist == HistFrom(s * Interval)
           r == Result(kind, s * Interval, end)
           rows == Found(hist, end)
           x == ApplyDefaults(Values(rows))
           failure == Failure(rows, Buckets(hist, end), end)
<1>1. hist = a * Interval
  <2>1. net.width - 1 \in Int
    OBVIOUS
  <2>2. (s - (net.width - 1)) * Interval = s * Interval - (net.width - 1) * Interval
    BY <2>1, Product
  <2> QED BY <2>2 DEF HistFrom, Window
<1>2. r = IF failure # "none" THEN NoSeries(failure)
          ELSE [kind |-> kind, from |-> s * Interval, to |-> end,
                times |-> [k \in DOMAIN Cut(SubSeq(rows, 1, Before(rows, end))) |->
                             Cut(SubSeq(rows, 1, Before(rows, end)))[k].time],
                observed |-> Cut(x),
                predicted |-> Padded(Estimates(kind, SubSeq(x, 1, Until(rows, end))),
                                       Buckets(s * Interval, end))]
  BY DEF Result, Dataset
<1>3. CASE net.width = 0
  <2>1. failure = "not_trained"
    BY <1>3 DEF Failure
  <2>2. r = NoSeries("not_trained")
    <3> HIDE DEF r, failure
    <3> QED BY <1>2, <2>1
  <2>3. NoSeries("not_trained") # NoSeries("not_enough")
    BY DEF NoSeries, NoResult
  <2> HIDE DEF r
  <2> QED BY <2>2, <2>3 DEF r
<1>4. CASE net.width # 0
  <2>0. a \in Int /\ a < c /\ net.width \in Nat \ {0} /\ c - a \in Nat /\ net.width <= c - a
        /\ c - s \in Nat /\ c - a = c - s + net.width - 1
    BY <1>4
  <2>1. PICK n \in 0..(c - a) : /\ adapter # "mongo" => n \in {0, c - a}
                                /\ IsHistory(rows, a, n)
    <3> HIDE DEF a, rows, hist
    <3> QED BY <1>1, <2>0, FoundIs DEF rows
  <2>2. Buckets(hist, end) = c - a /\ Buckets(s * Interval, end) = c - s
    <3>1. Buckets(a * Interval, end) = c - a /\ Buckets(s * Interval, end) = c - s
      BY <2>0, BucketsIs
    <3> HIDE DEF hist, end, a
    <3> QED BY <3>1, <1>1
  <2> HIDE DEF rows, hist
  <2>3. DOMAIN rows = 1..n /\ Len(rows) = n /\ n \in Nat /\ n <= c - a
    BY <2>0, <2>1, LenIs DEF IsHistory
  <2>4. (rows = <<>>) => n = 0
    BY <2>3
  <2>5. (n = 0) => rows = <<>>
    BY <2>3
  <2>6. Before(rows, end) = n
    <3>1. ASSUME NEW k \in DOMAIN rows PROVE rows[k].time < end
      <4>1. rows[k].time = (a + k - 1) * Interval
        BY <2>1, <2>3 DEF IsHistory
      <4>2. a + k - 1 \in Int /\ a + k - 1 < c
        BY <2>0, <2>3
      <4>3. (a + k - 1) * Interval < c * Interval
        BY <4>2, Product
      <4> QED BY <4>1, <4>3
    <3> HIDE DEF end
    <3> QED BY <2>3, <3>1, AllBefore
  <2>7. Until(rows, end) = n
    BY <2>3, <2>6 DEF Until
  <2>8. failure = IF n = 0 THEN "no_data" ELSE IF span = 0 THEN "width"
                  ELSE IF n < span THEN "not_enough"
                  ELSE IF span # net.width THEN "width" ELSE "none"
    <3>1. ~(Len(rows) > c - a)
      BY <2>3, <2>0
    <3>2. failure = IF rows = <<>> THEN "no_data" ELSE IF span = 0 THEN "width"
                    ELSE IF n < span THEN "not_enough"
                    ELSE IF span # net.width THEN "width" ELSE "none"
      <4> HIDE DEF a, end
      <4> QED BY <1>4, <2>2, <2>7, <3>1 DEF Failure, W, AutoSpan
    <3> HIDE DEF failure
    <3> QED BY <3>2, <2>4, <2>5
  <2> HIDE DEF failure, r, x
  <2>9. CASE failure # "none"
    <3>1. r = NoSeries(failure) /\ failure \in {"no_data", "width", "not_enough"}
      BY <1>2, <2>8, <2>9
    <3>2. ASSUME adapter # "mongo", failure = "not_enough" PROVE span # net.width
      <4>1. n = c - a /\ n < span
        BY <2>1, <2>8, <3>2
      <4> HIDE DEF a
      <4> QED BY <4>1, <2>0
    <3>3. ASSUME NoSeries(failure) = NoSeries("not_enough") PROVE failure = "not_enough"
      <4>1. \A k : NoSeries(k).kind = k
        BY DEF NoSeries, NoResult
      <4> QED BY <4>1, <3>3
    <3> HIDE DEF a, end
    <3> QED BY <3>1, <3>2, <3>3 DEF r, end
  <2>10. CASE failure = "none"
    <3>1. n # 0 /\ span = net.width /\ ~(n < span)
      BY <2>8, <2>10
    <3>2. net.width \in 1..n /\ n \in net.width..(c - a) /\ (adapter # "mongo" => n = c - a)
      BY <2>0, <2>1, <2>3, <3>1
    <3>3. DOMAIN x = 1..n
      BY <2>0, <2>1, <2>3, DefaultsAre DEF x
    <3>4. /\ Cut(x) = [k \in 1..(n - net.width + 1) |-> x[k + net.width - 1]]
          /\ Cut(SubSeq(rows, 1, n)) =
               [k \in 1..(n - net.width + 1) |-> rows[k + net.width - 1]]
      <4>1. 1 \in 1..n /\ n \in 1..n /\ n - 1 + 1 = n
        BY <2>3, <3>2
      <4>3. Cut(x) = [k \in 1..(n - net.width + 1) |-> x[k + net.width - 1]]
        BY <2>3, <3>2, <3>3, CutIs
      <4> DEFINE z == SubSeq(rows, 1, n)
      <4>4. z = [k \in 1..n |-> rows[k + 1 - 1]]
        BY <2>3, <4>1, SubSeqIs
      <4>5. DOMAIN z = 1..n /\ \A k \in 1..n : z[k] = rows[k]
        <5>1. \A k \in 1..n : k + 1 - 1 = k
          BY <2>3
        <5> HIDE DEF z
        <5> QED BY <4>4, <5>1
      <4> HIDE DEF z
      <4>7. Cut(z) = [k \in 1..(n - net.width + 1) |-> z[k + net.width - 1]]
        BY <2>3, <3>2, <4>5, CutIs
      <4>8. \A k \in 1..(n - net.width + 1) : k + net.width - 1 \in 1..n
        BY <2>3, <3>2
      <4>9. Cut(z) = [k \in 1..(n - net.width + 1) |-> rows[k + net.width - 1]]
        BY <4>5, <4>7, <4>8
      <4> QED BY <4>3, <4>9 DEF z
    <3>5. DOMAIN SubSeq(x, 1, n) = 1..n /\ \A k \in 1..n : SubSeq(x, 1, n)[k] = x[k]
      <4>1. 1 \in 1..n /\ n \in 1..n /\ n - 1 + 1 = n /\ \A k \in 1..n : k + 1 - 1 = k
        BY <2>3, <3>2
      <4>2. SubSeq(x, 1, n) = [k \in 1..n |-> x[k + 1 - 1]]
        BY <2>3, <3>3, <4>1, SubSeqIs
      <4> QED BY <4>1, <4>2
    <3>6. /\ r.kind = kind /\ r.from = s * Interval /\ r.to = end
          /\ r.times = [k \in 1..(n - net.width + 1) |-> rows[k + net.width - 1].time]
          /\ r.observed = [k \in 1..(n - net.width + 1) |-> x[k + net.width - 1]]
          /\ r.predicted = Padded(Estimates(kind, SubSeq(x, 1, n)), c - s)
      <4> DEFINE cut == Cut(SubSeq(rows, 1, n))
      <4>1. r = [kind |-> kind, from |-> s * Interval, to |-> end,
                 times |-> [k \in DOMAIN cut |-> cut[k].time],
                 observed |-> Cut(x),
                 predicted |-> Padded(Estimates(kind, SubSeq(x, 1, n)), c - s)]
        BY <1>2, <2>2, <2>6, <2>7, <2>10
      <4> HIDE DEF cut, end
      <4>2. [k \in DOMAIN cut |-> cut[k].time] =
              [k \in 1..(n - net.width + 1) |-> rows[k + net.width - 1].time]
        BY <3>4 DEF cut
      <4> QED BY <4>1, <4>2, <3>4
    <3>7. ASSUME NEW k \in 1..(n - net.width + 1)
          PROVE  /\ r.times[k] = (s + k - 1) * Interval
                 /\ r.observed[k] = x[k + net.width - 1]
                 /\ r.predicted[k] = EstimateOf(kind, x, k)
      <4>1. k + net.width - 1 \in 1..n /\ a + (k + net.width - 1) - 1 = s + k - 1
        BY <2>3, <3>2
      <4>2. rows[k + net.width - 1].time = (s + k - 1) * Interval
        <5> HIDE DEF a
        <5> QED BY <2>1, <4>1 DEF IsHistory
      <4> DEFINE z == SubSeq(x, 1, n)
      <4>3. \A i \in 1..net.width : k + i - 1 \in 1..n /\ i \in 1..n
        BY <2>3, <3>2
      <4>4. DOMAIN z = 1..n /\ \A i \in 1..n : z[i] = x[i]
        BY <3>5
      <4>5. c - s \in Nat /\ n - net.width + 1 <= c - s
        BY <2>0, <2>3
      <4> HIDE DEF z, a, end
      <4>6. Padded(Estimates(kind, z), c - s)[k] = EstimateOf(kind, z, k)
        <5>1. net.width \in 1..n /\ span = net.width /\ n \in Nat
          BY <2>3, <3>1, <3>2
        <5> QED BY <5>1, <4>4, <4>5, EstimatesAre
      <4>7. EstimateOf(kind, z, k) = EstimateOf(kind, x, k)
        <5>1. /\ [i \in 1..net.width |-> z[k + i - 1]] = [i \in 1..net.width |-> x[k + i - 1]]
              /\ [i \in 1..net.width |-> z[i]] = [i \in 1..net.width |-> x[i]]
          BY <4>3, <4>4
        <5> QED BY <5>1 DEF EstimateOf
      <4> QED BY <3>6, <4>2, <4>6, <4>7 DEF z
    <3>8. IsSeries(r, kind, s, c, x, n)
      <4>1. /\ DOMAIN r.times = 1..(n - net.width + 1)
            /\ DOMAIN r.observed = 1..(n - net.width + 1)
        BY <3>6
      <4> QED BY <3>6, <3>7, <4>1 DEF IsSeries
    <3> QED BY <2>1, <3>2, <3>8 DEF r, x
  <2> QED BY <2>9, <2>10
<1> QED BY <1>3, <1>4

-----------------------------------------------------------------------------
\* The state of a model: the network is that of a training, and the last result
\* is that of the settings, the network and the points there are.

IsTraining(from, to, w) ==
  /\ from \in RangeTimes /\ to \in RangeTimes /\ from < to
  /\ w \in Nat \ {0} /\ w \in Spans \cup (MinSpan..(MaxSpan - 1))
  /\ Trainable(Len(Dataset(Floor(from), Ceil(to))), w)
  /\ net = Trained(w, from, to)

IsResult(kind, from, to) ==
  /\ kind \in {"predict", "forecast"}
  /\ from \in RangeTimes /\ to \in RangeTimes /\ from < to
  /\ out = Result(kind, Floor(from), Ceil(to))

DataInv ==
  /\ NbFeatures = 1
  /\ adapter \in Stores /\ default \in {"none", "previous", "value"}
  /\ points \subseteq Features \X PointTimes
  /\ windows \subseteq WindowTimes \X WindowTimes /\ span \in Spans

NetInv == net = Untrained \/ \E from, to, w : IsTraining(from, to, w)

OutInv ==
  \/ out \in {NoResult, NoSeries("no_data"), NoSeries("trained")}
  \/ \E kind, from, to : IsResult(kind, from, to)

LEMMA BoundsAre ==
  /\ PointTimes \subseteq Nat /\ RangeTimes \subseteq Nat
  /\ WindowTimes \subseteq Nat /\ Spans \subseteq Nat
  /\ MinSpan \in Nat \ {0} /\ MaxSpan \in Nat
BY SeriesAssumption DEF SeriesAssumption

\* What a step that leaves the data alone leaves alone too.
LEMMA SameDataset ==
  ASSUME adapter' = adapter, points' = points, default' = default, NEW from, NEW to
  PROVE  /\ Found(from, to)' = Found(from, to)
         /\ Dataset(from, to)' = Dataset(from, to)
<1>1. Found(from, to)' = Found(from, to)
  BY DEF Found
<1>2. \A x, k : DefaultOf(x, k)' = DefaultOf(x, k)
  BY DEF DefaultOf, LastBefore, Missing, DefaultValue
<1>3. \A x : ApplyDefaults(x)' = ApplyDefaults(x)
  BY <1>2 DEF ApplyDefaults, Missing
<1> QED BY <1>1, <1>3 DEF Dataset, Values

LEMMA SameTrained ==
  ASSUME adapter' = adapter, points' = points, default' = default, windows' = windows,
         NEW w, NEW from, NEW to
  PROVE  Trained(w, from, to)' = Trained(w, from, to)
<1>1. \A s, e : Dataset(s, e)' = Dataset(s, e)
  BY SameDataset
<1>2. \A s, e : ListAnomalies(s, e)' = ListAnomalies(s, e)
  BY DEF ListAnomalies
<1> QED BY <1>1, <1>2 DEF Trained

LEMMA SameResult ==
  ASSUME adapter' = adapter, points' = points, default' = default, span' = span, net' = net,
         NEW kind, NEW start, NEW end
  PROVE  Result(kind, start, end)' = Result(kind, start, end)
<1>1. \A s, e : Found(s, e)' = Found(s, e) /\ Dataset(s, e)' = Dataset(s, e)
  BY SameDataset
<1>2. \A s : HistFrom(s)' = HistFrom(s)
  BY DEF HistFrom, Window
<1>3. \A rows, cells, e : Failure(rows, cells, e)' = Failure(rows, cells, e)
  BY DEF Failure, W
<1>4. \A x : Cut(x)' = Cut(x)
  BY DEF Cut
<1>5. \A x : Estimates(kind, x)' = Estimates(kind, x)
  BY DEF Estimates, PredictWindows, ForecastWindows, W
<1>6. \A y, size : Padded(y, size)' = Padded(y, size)
  BY DEF Padded
<1> QED BY <1>1, <1>2, <1>3, <1>4, <1>5, <1>6 DEF Result

\* The steps that leave the network alone.
LEMMA NetKept ==
  ASSUME NetInv, adapter' = adapter, points' = points, default' = default,
         windows' = windows, net' = net
  PROVE  NetInv'
<1>1. CASE net = Untrained
  BY <1>1 DEF NetInv, Untrained
<1>2. ASSUME NEW from, NEW to, NEW w, IsTraining(from, to, w) PROVE NetInv'
  <2>1. \A s, e : Dataset(s, e)' = Dataset(s, e)
    BY SameDataset
  <2>2. Trained(w, from, to)' = Trained(w, from, to)
    BY SameTrained
  <2>3. IsTraining(from, to, w)'
    BY <1>2, <2>1, <2>2 DEF IsTraining
  <2> QED BY <2>3 DEF NetInv
<1> QED BY <1>1, <1>2 DEF NetInv

LEMMA AlwaysSeries == SeriesSpec => [](DataInv /\ NetInv /\ OutInv)
<1>1. SeriesInit => DataInv /\ NetInv /\ OutInv
  <2> SUFFICES ASSUME SeriesInit PROVE DataInv /\ NetInv /\ OutInv
    OBVIOUS
  <2>1. /\ NbFeatures = 1
        /\ adapter \in Stores /\ default \in {"none", "previous", "value"}
        /\ span \in Spans /\ net = Untrained /\ out = NoResult
    BY DEF SeriesInit
  <2>2. points \subseteq Features \X PointTimes
    <3>1. PICK ts \in SUBSET PointTimes : points = Features \X ts
      BY DEF SeriesInit
    <3> QED BY <3>1 DEF Features
  <2>3. windows \subseteq WindowTimes \X WindowTimes
    BY DEF SeriesInit
  <2> QED BY <2>1, <2>2, <2>3 DEF DataInv, NetInv, OutInv
<1>2. ASSUME DataInv, NetInv, OutInv, [SeriesNext]_(seriesVars)
      PROVE  DataInv' /\ NetInv' /\ OutInv'
  <2> USE <1>2
  <2>1. ASSUME NEW from \in RangeTimes, NEW to \in RangeTimes, from < to, Train(from, to)
        PROVE  DataInv' /\ NetInv' /\ OutInv'
    <3>1. UNCHANGED <<adapter, points, windows, default, span>>
      BY <2>1 DEF Train
    <3>2. DataInv'
      BY <3>1 DEF DataInv
    <3>3. CASE out' = NoSeries("no_data") /\ net' = net
      <4>1. NetInv'
        BY <3>1, <3>3, NetKept
      <4> QED BY <3>2, <3>3, <4>1 DEF OutInv, NoSeries, NoResult
    <3>4. ASSUME NEW w \in HpSpans, Trainable(Len(Dataset(Floor(from), Ceil(to))), w),
                 net' = Trained(w, from, to), out' = NoSeries("trained")
          PROVE  NetInv' /\ OutInv'
      <4>1. w \in Nat \ {0} /\ w \in Spans \cup (MinSpan..(MaxSpan - 1))
        BY BoundsAre DEF HpSpans, AutoSpan, DataInv
      <4>2. Dataset(Floor(from), Ceil(to))' = Dataset(Floor(from), Ceil(to))
        BY <3>1, SameDataset
      <4>3. Trained(w, from, to)' = Trained(w, from, to)
        BY <3>1, SameTrained
      <4>4. IsTraining(from, to, w)'
        BY <2>1, <3>4, <4>1, <4>2, <4>3 DEF IsTraining, Trainable, TrainSize
      <4>5. OutInv'
        BY <3>4 DEF OutInv, NoSeries, NoResult
      <4> QED BY <4>4, <4>5 DEF NetInv
    <3>5. \/ out' = NoSeries("no_data") /\ net' = net
          \/ \E w \in HpSpans : /\ Trainable(Len(Dataset(Floor(from), Ceil(to))), w)
                                  /\ net' = Trained(w, from, to)
                                  /\ out' = NoSeries("trained")
      BY <2>1 DEF Train
    <3> QED BY <3>2, <3>3, <3>4, <3>5
  <2>2. ASSUME NEW from \in RangeTimes, NEW to \in RangeTimes, from < to,
               NEW kind \in {"predict", "forecast"}, Infer(kind, from, to)
        PROVE  DataInv' /\ NetInv' /\ OutInv'
    <3>1. /\ UNCHANGED <<adapter, points, windows, default, span, net>>
          /\ out' = Result(kind, Floor(from), Ceil(to))
      BY <2>2 DEF Infer
    <3>2. DataInv' /\ NetInv'
      BY <3>1, NetKept DEF DataInv
    <3>3. Result(kind, Floor(from), Ceil(to))' = Result(kind, Floor(from), Ceil(to))
      BY <3>1, SameResult
    <3>4. IsResult(kind, from, to)'
      BY <2>2, <3>1, <3>3 DEF IsResult
    <3> QED BY <3>2, <3>4 DEF OutInv
  <2>3. ASSUME NEW s \in Spans, PatchSpan(s) PROVE DataInv' /\ NetInv' /\ OutInv'
    <3>1. /\ UNCHANGED <<adapter, points, windows, default, net>>
          /\ span' = s /\ out' = NoResult
      BY <2>3 DEF PatchSpan
    <3>2. DataInv' /\ NetInv'
      BY <3>1, NetKept DEF DataInv
    <3> QED BY <3>1, <3>2 DEF OutInv, NoResult
  <2>4. CASE UNCHANGED seriesVars
    <3>1. UNCHANGED <<adapter, points, windows, default, span, net, out>>
      BY <2>4 DEF seriesVars
    <3>2. DataInv' /\ NetInv'
      BY <3>1, NetKept DEF DataInv
    <3>3. OutInv'
      <4>1. CASE out \in {NoResult, NoSeries("no_data"), NoSeries("trained")}
        BY <3>1, <4>1 DEF OutInv, NoSeries, NoResult
      <4>2. ASSUME NEW kind, NEW from, NEW to, IsResult(kind, from, to) PROVE OutInv'
        <5>1. Result(kind, Floor(from), Ceil(to))' = Result(kind, Floor(from), Ceil(to))
          BY <3>1, SameResult
        <5>2. IsResult(kind, from, to)'
          BY <3>1, <4>2, <5>1 DEF IsResult
        <5> QED BY <5>2 DEF OutInv
      <4> QED BY <4>1, <4>2 DEF OutInv
    <3> QED BY <3>2, <3>3
  <2> QED BY <2>1, <2>2, <2>3, <2>4 DEF SeriesNext, Predict, Forecast
<1> QED BY <1>1, <1>2, PTL DEF SeriesSpec

LEMMA WindowIs ==
  ASSUME DataInv, NEW w \in windows
  PROVE  w[1] \in Int /\ w[2] \in Int
<1>1. w \in WindowTimes \X WindowTimes
  BY DEF DataInv
<1>2. WindowTimes \subseteq Int
  BY BoundsAre
<1> QED BY <1>1, <1>2

\* The time that a bucket of a range begins at.
LEMMA GridTimes ==
  ASSUME NEW s \in Int, NEW k \in Int
  PROVE  /\ (s + k) * Interval = s * Interval + k * Interval
         /\ s * Interval \in Int /\ k * Interval \in Int
BY Product

\* What is known of a result: see ResultIs.
LEMMA OutIs ==
  ASSUME DataInv, NetInv, NEW kind, NEW from, NEW to,
         IsResult(kind, from, to), adapter \in Gridded
  PROVE  \E s \in Int, c \in Int :
           LET a == s - (net.width - 1)
           IN  /\ s < c /\ net.width \in Nat
               /\ \/ /\ out \in {NoSeries(k) : k \in {"not_trained", "no_data", "width", "not_enough"}}
                     /\ adapter # "mongo" /\ out = NoSeries("not_enough") => span # net.width
                  \/ \E rows, n :
                       /\ n \in net.width..(c - a) /\ net.width \in 1..n
                       /\ adapter # "mongo" => n = c - a
                       /\ IsHistory(rows, a, n)
                       /\ IsSeries(out, kind, s, c, ApplyDefaults(Values(rows)), n)
<1> DEFINE s == First(from)
           c == After(to)
<1>1. s \in Int /\ c \in Int /\ s < c /\ Floor(from) = s * Interval /\ Ceil(to) = c * Interval
  BY BoundsAre, RangeIs DEF IsResult
<1>2. out = Result(kind, s * Interval, c * Interval)
  <2> HIDE DEF s, c
  <2> QED BY <1>1 DEF IsResult
<1>3. net.width \in Nat
  BY DEF NetInv, IsTraining, Untrained, Trained
<1>4. NbFeatures = 1 /\ points \subseteq Series
  BY BoundsAre DEF DataInv, Series
<1> HIDE DEF s, c
<1> QED BY <1>1, <1>2, <1>3, <1>4, ResultIs

\* A result that is not a series is not a prediction.
LEMMA NoSeriesIs ==
  ASSUME NEW k
  PROVE  NoSeries(k).kind = k
BY DEF NoSeries, NoResult

LEMMA SeriesIsAligned ==
  ASSUME adapter \in Gridded, net.width \in Nat, NEW kind, NEW s \in Int, NEW c \in Int,
         NEW a, a = s - (net.width - 1), NEW rows, NEW n \in Nat, net.width \in 1..n,
         IsHistory(rows, a, n), IsSeries(out, kind, s, c, ApplyDefaults(Values(rows)), n)
  PROVE  PredictionAligned
<1> DEFINE w == net.width
           x == ApplyDefaults(Values(rows))
           hist == HistFrom(out.from)
           SpanAt(m, t) == [i \in 1..m |-> ValueAt(t - (m - i) * Interval, hist)]
<1>1. a \in Int /\ w \in Nat \ {0} /\ out.from = s * Interval /\ out.kind = kind
      /\ DOMAIN out.times = 1..(n - w + 1)
  BY DEF IsSeries
<1>2. hist = a * Interval
  <2>1. w - 1 \in Int
    OBVIOUS
  <2>2. (s - (w - 1)) * Interval = s * Interval - (w - 1) * Interval
    BY <2>1, Product
  <2> QED BY <1>1, <2>2 DEF HistFrom, Window
<1>3. \A j \in 1..n : x[j] = ValueAt((a + j - 1) * Interval, hist)
  <2> HIDE DEF hist, x
  <2> QED BY <1>1, <1>2, DefaultsAre DEF x
<1> HIDE DEF x, hist
<1>4. ASSUME NEW k \in 1..(n - w + 1)
      PROVE  /\ out.times[k] = out.from + (k - 1) * Interval
             /\ out.observed[k] = ValueAt(out.times[k], hist)
             /\ [i \in 1..w |-> x[k + i - 1]] = SpanAt(w, out.times[k])
  <2>1. out.times[k] = (s + k - 1) * Interval /\ out.observed[k] = x[k + w - 1]
    BY DEF IsSeries, x
  <2>2. (s + k - 1) * Interval = s * Interval + (k - 1) * Interval
    <3>1. k - 1 \in Int /\ s + (k - 1) = s + k - 1
      OBVIOUS
    <3>2. (s + (k - 1)) * Interval = s * Interval + (k - 1) * Interval
      BY <3>1, GridTimes
    <3> QED BY <3>1, <3>2
  <2>3. x[k + w - 1] = ValueAt(out.times[k], hist)
    <3>1. k + w - 1 \in 1..n /\ a + (k + w - 1) - 1 = s + k - 1
      <4>1. a = s - (w - 1) /\ w \in Nat \ {0} /\ k \in Int /\ 1 <= k /\ k <= n - w + 1
        BY <1>1
      <4> HIDE DEF w
      <4> QED BY <4>1
    <3>2. x[k + w - 1] = ValueAt((a + (k + w - 1) - 1) * Interval, hist)
      BY <3>1, <1>3
    <3> QED BY <2>1, <3>1, <3>2
  <2>4. ASSUME NEW i \in 1..w
        PROVE  x[k + i - 1] = ValueAt(out.times[k] - (w - i) * Interval, hist)
    <3>1. k + i - 1 \in 1..n /\ a + (k + i - 1) - 1 = (s + k - 1) - (w - i)
          /\ s + k - 1 \in Int /\ w - i \in Int
      BY <1>1
    <3>2. ((s + k - 1) - (w - i)) * Interval = (s + k - 1) * Interval - (w - i) * Interval
      BY <3>1, Product
    <3>3. x[k + i - 1] = ValueAt(((s + k - 1) - (w - i)) * Interval, hist)
      BY <1>3, <3>1
    <3> QED BY <2>1, <3>2, <3>3
  <2> QED BY <1>1, <2>1, <2>2, <2>3, <2>4
<1>5. [i \in 1..w |-> x[i]] = SpanAt(w, out.from)
  <2>1. 1 \in 1..(n - w + 1)
    BY <1>1
  <2>2. out.times[1] = out.from
    <3>1. (1 - 1) * Interval = 0 /\ out.from \in Int
      BY <1>1, Product
    <3>2. out.times[1] = out.from + (1 - 1) * Interval
      BY <2>1, <1>4
    <3> QED BY <3>1, <3>2
  <2>3. [i \in 1..w |-> x[1 + i - 1]] = SpanAt(w, out.times[1])
    BY <2>1, <1>4
  <2>4. \A i \in 1..w : 1 + i - 1 = i
    OBVIOUS
  <2> QED BY <2>2, <2>3, <2>4
<1>6. ASSUME NEW k \in 1..(n - w + 1)
      PROVE  out.predicted[k] = IF out.kind = "predict" THEN <<"window", SpanAt(w, out.times[k])>>
                                ELSE <<"rolled", k - 1, SpanAt(w, out.from)>>
  <2>1. out.predicted[k] = EstimateOf(kind, x, k)
    BY DEF IsSeries, x
  <2> HIDE DEF SpanAt
  <2> QED BY <2>1, <1>1, <1>4, <1>5 DEF EstimateOf
<1> QED BY <1>1, <1>4, <1>6 DEF PredictionAligned, hist

LEMMA SeriesIsWhole ==
  ASSUME adapter \in Gridded \ {"mongo"}, net.width \in Nat, NEW kind \in {"predict", "forecast"},
         NEW s \in Int, NEW c \in Int, s < c,
         NEW a, a = s - (net.width - 1), NEW x, NEW n \in Nat, net.width \in 1..n, n = c - a,
         IsSeries(out, kind, s, c, x, n)
  PROVE  WholeRange
<1>1. /\ out.kind = kind /\ out.from = s * Interval /\ out.to = c * Interval
      /\ n - net.width + 1 = c - s /\ c - s \in Nat
      /\ DOMAIN out.times = 1..(c - s) /\ DOMAIN out.observed = 1..(c - s)
  BY DEF IsSeries
<1>2. Len(out.times) = c - s /\ Len(out.observed) = c - s
  <2> DEFINE m == c - s
  <2>1. m \in Nat /\ DOMAIN out.times = 1..m /\ DOMAIN out.observed = 1..m
    BY <1>1
  <2> HIDE DEF m
  <2>2. Len(out.times) = m /\ Len(out.observed) = m
    BY <2>1, LenIs
  <2> QED BY <2>2 DEF m
<1>3. Buckets(out.from, out.to) = c - s
  BY <1>1, BucketsIs
<1>4. ASSUME NEW k \in DOMAIN out.times PROVE out.predicted[k][1] \in {"window", "rolled"}
  <2>1. out.predicted[k] = EstimateOf(kind, x, k)
    BY <1>1 DEF IsSeries
  <2> QED BY <2>1 DEF EstimateOf
<1> QED BY <1>1, <1>2, <1>3, <1>4 DEF WholeRange

\* A job that returned no series promises nothing of one.
LEMMA NoSeriesKeeps ==
  ASSUME NEW k, out = NoSeries(k), k \notin {"predict", "forecast", "overrun"},
         adapter # "mongo" /\ k = "not_enough" => span # net.width
  PROVE  PredictionAligned /\ WholeRange
<1>1. out.kind = k
  BY NoSeriesIs
<1>2. PredictionAligned
  BY <1>1 DEF PredictionAligned
<1>3. WholeRange
  BY <1>1 DEF WholeRange, Gridded
<1> QED BY <1>2, <1>3

\* The promises of a prediction follow from what is known of a result.
LEMMA PromisesOfResults ==
  ASSUME DataInv, NetInv, OutInv
  PROVE  PredictionAligned /\ WholeRange
<1>1. CASE out \in {NoResult, NoSeries("no_data"), NoSeries("trained")}
  <2>1. NoResult = NoSeries("none")
    BY DEF NoSeries, NoResult
  <2>2. PICK k \in {"none", "no_data", "trained"} : out = NoSeries(k)
    BY <1>1, <2>1
  <2> QED BY <2>2, NoSeriesKeeps
<1>2. ASSUME NEW kind, NEW from, NEW to, IsResult(kind, from, to)
      PROVE  PredictionAligned /\ WholeRange
  <2>1. CASE adapter \notin Gridded
    BY <2>1 DEF PredictionAligned, WholeRange, Gridded, Adapters
  <2>2. CASE adapter \in Gridded
    <3>1. PICK s \in Int, c \in Int :
            LET a == s - (net.width - 1)
            IN  /\ s < c /\ net.width \in Nat
                /\ \/ /\ out \in {NoSeries(k) : k \in {"not_trained", "no_data", "width", "not_enough"}}
                      /\ adapter # "mongo" /\ out = NoSeries("not_enough") => span # net.width
                   \/ \E rows, n :
                        /\ n \in net.width..(c - a) /\ net.width \in 1..n
                        /\ adapter # "mongo" => n = c - a
                        /\ IsHistory(rows, a, n)
                        /\ IsSeries(out, kind, s, c, ApplyDefaults(Values(rows)), n)
      BY <1>2, <2>2, OutIs
    <3> DEFINE a == s - (net.width - 1)
    <3>2. ASSUME out \in {NoSeries(k) : k \in {"not_trained", "no_data", "width", "not_enough"}},
                 adapter # "mongo" /\ out = NoSeries("not_enough") => span # net.width
          PROVE  PredictionAligned /\ WholeRange
      <4>1. PICK k \in {"not_trained", "no_data", "width", "not_enough"} : out = NoSeries(k)
        BY <3>2
      <4>2. k \notin {"predict", "forecast", "overrun"}
        OBVIOUS
      <4> QED BY <3>2, <4>1, <4>2, NoSeriesKeeps
    <3>3. ASSUME NEW rows, NEW n \in net.width..(c - a), net.width \in 1..n,
                 adapter # "mongo" => n = c - a, IsHistory(rows, a, n),
                 IsSeries(out, kind, s, c, ApplyDefaults(Values(rows)), n)
          PROVE  PredictionAligned /\ WholeRange
      <4>1. s < c /\ net.width \in Nat
        BY <3>1
      <4>2. a = s - (net.width - 1) /\ n \in Nat
        BY <3>3, <4>1
      <4> HIDE DEF a
      <4>3. PredictionAligned
        BY <2>2, <3>3, <4>1, <4>2, SeriesIsAligned
      <4>4. WholeRange
        <5>1. CASE adapter = "mongo"
          BY <5>1 DEF WholeRange
        <5>2. CASE adapter # "mongo"
          <6>1. kind \in {"predict", "forecast"}
            BY <1>2 DEF IsResult
          <6>2. adapter \in Gridded \ {"mongo"} /\ n = c - a
            BY <2>2, <3>3, <5>2
          <6> QED BY <3>3, <4>1, <4>2, <6>1, <6>2, SeriesIsWhole
        <5> QED BY <5>1, <5>2
      <4> QED BY <4>3, <4>4
    <3> QED BY <3>1, <3>2, <3>3 DEF a
  <2> QED BY <2>1, <2>2
<1> QED BY <1>1, <1>2 DEF OutInv

\* Whatever the adapter on the grid, the range, the span and the missing values,
\* the entry k of a prediction is the bucket k of the range, next to the value
\* observed there and the estimate made from the span of buckets that ends there:
\* predict and forecast of loudml/donut.py cut the history and the estimates of
\* their series at the same bucket.
THEOREM PredictionsAligned == SeriesSpec => []PredictionAligned
<1>1. DataInv /\ NetInv /\ OutInv => PredictionAligned
  BY PromisesOfResults
<1>2. SeriesSpec => [](DataInv /\ NetInv /\ OutInv)
  BY AlwaysSeries
<1> QED BY <1>1, <1>2, PTL

\* One entry per bucket of the range, each with an estimate, and no job fails for
\* the number of the rows but one whose span was changed after the training: the
\* rows of a history are the buckets from HistFrom on, or there are none.
THEOREM RangesAreWhole == SeriesSpec => []WholeRange
<1>1. DataInv /\ NetInv /\ OutInv => WholeRange
  BY PromisesOfResults
<1>2. SeriesSpec => [](DataInv /\ NetInv /\ OutInv)
  BY AlwaysSeries
<1> QED BY <1>1, <1>2, PTL

-----------------------------------------------------------------------------
\* The windows that are hidden from the network.

\* The index of a time, truncated towards zero, next to the bucket j of a range
\* that begins with the bucket a.
LEMMA IndexIs ==
  ASSUME NEW a \in Int, NEW j \in Nat, NEW t \in Int
  PROVE  LET i == GetIndex(t, a * Interval)
         IN  /\ i \in Int
             /\ t >= (a + j) * Interval => i >= j
             /\ t <= (a + j) * Interval => i <= j
<1> DEFINE start == a * Interval
           i == GetIndex(t, start)
           d == (t - start) \div Interval
           e == (start - t) \div Interval
<1>1. start \in Int /\ j * Interval \in Int /\ (a + j) * Interval = start + j * Interval
  BY Product
<1>2. 0 <= j * Interval
  <2>1. 0 \in Int /\ j \in Int /\ 0 <= j /\ 0 * Interval = 0
    OBVIOUS
  <2> QED BY <2>1, Product
<1> HIDE DEF start
<1>3. CASE t >= start
  <2>1. i = d
    BY <1>3 DEF GetIndex
  <2>2. d \in Int /\ d * Interval <= t - start /\ t - start < d * Interval + Interval
    BY <1>1
  <2>3. d * Interval \in Int /\ (d + 1) * Interval = d * Interval + 1 * Interval /\ d + 1 \in Int
    BY <2>2, Product
  <2> HIDE DEF d, i
  <2>4. ASSUME t >= (a + j) * Interval PROVE j <= d
    <3>1. j * Interval < (d + 1) * Interval
      BY <1>1, <2>2, <2>3, <2>4
    <3>2. j < d + 1
      BY <2>3, <3>1, Product
    <3> QED BY <2>2, <3>2
  <2>5. ASSUME t <= (a + j) * Interval PROVE d <= j
    <3>1. d * Interval <= j * Interval
      BY <1>1, <2>2, <2>3, <2>5
    <3> QED BY <2>2, <3>1, Product
  <2> QED BY <2>1, <2>2, <2>4, <2>5 DEF i, start
<1>4. CASE ~(t >= start)
  <2>1. i = -e
    BY <1>4 DEF GetIndex
  <2>2. e \in Nat
    BY <1>1, <1>4
  <2> HIDE DEF e, i
  <2>3. i \in Int /\ i <= j
    BY <2>1, <2>2
  <2>4. ~(t >= (a + j) * Interval)
    BY <1>1, <1>2, <1>4
  <2> QED BY <2>3, <2>4 DEF i, start
<1> QED BY <1>3, <1>4

\* A time at the start of the bucket k or before it is no later than its cell;
\* one at its end or after it is.
LEMMA ClippedIs ==
  ASSUME NEW a \in Int, NEW size \in Nat, NEW k \in 1..size, NEW t \in Int
  PROVE  LET i == Clip(GetIndex(t, a * Interval), size)
         IN  /\ t <= (a + k - 1) * Interval => i < k
             /\ t >= (a + k) * Interval => k <= i
<1> DEFINE i == GetIndex(t, a * Interval)
<1>1. k \in Nat /\ k - 1 \in Nat /\ a + (k - 1) = a + k - 1
  OBVIOUS
<1>2. i \in Int /\ (t >= (a + k) * Interval => i >= k)
  BY <1>1, IndexIs
<1>3. t <= (a + k - 1) * Interval => i <= k - 1
  <2>1. t <= (a + (k - 1)) * Interval => i <= k - 1
    <3> DEFINE j == k - 1
    <3>1. j \in Nat
      BY <1>1
    <3> HIDE DEF j
    <3>2. t <= (a + j) * Interval => i <= j
      BY <3>1, IndexIs
    <3> QED BY <3>2 DEF j
  <2> QED BY <1>1, <2>1
<1> HIDE DEF i
<1>4. ASSUME i <= k - 1 PROVE Clip(i, size) < k
  BY <1>2, <1>4 DEF Clip
<1>5. ASSUME i >= k PROVE k <= Clip(i, size)
  BY <1>2, <1>5 DEF Clip
<1> QED BY <1>2, <1>3, <1>4, <1>5 DEF i

\* A part of the dataset is trained on.
LEMMA TrainSizeIs ==
  ASSUME NEW n \in Nat
  PROVE  TrainSize(n) \in 0..n
BY DEF TrainSize

\* The windows of the training part cover it: what the network sees are the cells
\* that are not abnormal.
LEMMA LearnedIs ==
  ASSUME NEW x, NEW n \in Nat, DOMAIN x = 1..n, NEW abnormal,
         NEW w \in Nat \ {0}, w <= TrainSize(n)
  PROVE  Learned(x, abnormal, w) = UNION {x[k] : k \in (1..TrainSize(n)) \ abnormal}
<1> DEFINE m == TrainSize(n)
           part == SubSeq(x, 1, m)
           windowed == UNION {UNION {part[k] : k \in (i..(i + w - 1)) \ abnormal} :
                                i \in 1..(m - w + 1)}
<1>1. m \in 0..n /\ w \in 1..m /\ m \in Nat
  BY TrainSizeIs
<1>2. Len(x) = n
  BY LenIs
<1> HIDE DEF m
<1>3. DOMAIN part = 1..m /\ \A k \in 1..m : part[k] = x[k]
  <2>1. 1 \in 1..n /\ m \in 1..n /\ m - 1 + 1 = m /\ \A k \in 1..m : k + 1 - 1 = k
    BY <1>1
  <2>2. part = [k \in 1..m |-> x[k + 1 - 1]]
    BY <2>1, SubSeqIs
  <2> HIDE DEF part
  <2> QED BY <2>1, <2>2
<1> HIDE DEF part
<1>4. Len(part) = m
  BY <1>1, <1>3, LenIs
<1>5. Learned(x, abnormal, w) = windowed
  <2> DEFINE cut == SubSeq(x, 1, TrainSize(Len(x)))
  <2>1. Learned(x, abnormal, w) =
          UNION {UNION {cut[k] : k \in (i..(i + w - 1)) \ abnormal} : i \in 1..(Len(cut) - w + 1)}
    BY DEF Learned
  <2>2. cut = part
    BY <1>2 DEF m, part
  <2> HIDE DEF cut
  <2> QED BY <2>1, <2>2, <1>4
<1>6. ASSUME NEW p \in windowed PROVE \E k \in (1..m) \ abnormal : p \in x[k]
  <2>1. PICK i \in 1..(m - w + 1) : \E k \in (i..(i + w - 1)) \ abnormal : p \in part[k]
    OBVIOUS
  <2>2. PICK k \in (i..(i + w - 1)) \ abnormal : p \in part[k]
    BY <2>1
  <2>3. k \in 1..m
    BY <1>1, <2>2
  <2> QED BY <1>3, <2>2, <2>3
<1>7. ASSUME NEW k \in (1..m) \ abnormal, NEW p \in x[k] PROVE p \in windowed
  <2> DEFINE i == IF k >= w THEN k - w + 1 ELSE 1
  <2>1. i \in 1..(m - w + 1) /\ k \in i..(i + w - 1)
    BY <1>1
  <2>2. p \in part[k]
    BY <1>3
  <2> HIDE DEF i
  <2>3. p \in UNION {part[h] : h \in (i..(i + w - 1)) \ abnormal}
    BY <2>1, <2>2
  <2> QED BY <2>1, <2>3
<1> HIDE DEF windowed
<1>8. windowed = UNION {x[k] : k \in (1..m) \ abnormal}
  BY <1>6, <1>7
<1> QED BY <1>5, <1>8 DEF m

\* A bucket that no window touches is not abnormal.
LEMMA UntouchedIsSeen ==
  ASSUME DataInv, NEW a \in Int, NEW c \in Int, NEW k \in 1..(c - a),
         NEW listed \in SUBSET windows,
         \A w \in windows : ~Touches((a + k - 1) * Interval, w)
  PROVE  k \notin FormatWindows(a * Interval, c * Interval, listed)
<1> DEFINE size == c - a
           Cell(t) == Clip(GetIndex(t, a * Interval), size)
<1>1. size \in Nat /\ k \in 1..size /\ k \in Int
  OBVIOUS
<1>2. (a + k - 1) * Interval + Interval = (a + k) * Interval /\ (a + k - 1) * Interval \in Int
  <2>1. a + k - 1 \in Int /\ (a + k - 1) + 1 = a + k
    OBVIOUS
  <2>2. ((a + k - 1) + 1) * Interval = (a + k - 1) * Interval + 1 * Interval
    BY <2>1, Product
  <2> QED BY <2>1, <2>2, Product
<1>3. ASSUME NEW w \in listed PROVE ~(Cell(w[1]) < k /\ k <= Cell(w[2]))
  <2>1. w \in windows /\ w[1] \in Int /\ w[2] \in Int
    BY WindowIs
  <2>2. w[1] >= (a + k) * Interval \/ w[2] <= (a + k - 1) * Interval
    <3>1. ~Touches((a + k - 1) * Interval, w)
      BY <2>1
    <3>2. (a + k) * Interval \in Int
      BY <1>2
    <3> QED BY <1>2, <2>1, <3>1, <3>2 DEF Touches
  <2>3. Cell(w[1]) \in Int /\ Cell(w[2]) \in Int
    <3>1. GetIndex(w[1], a * Interval) \in Int /\ GetIndex(w[2], a * Interval) \in Int
      BY <2>1, IndexIs
    <3> QED BY <1>1, <3>1 DEF Clip
  <2>4. /\ w[1] >= (a + k) * Interval => k <= Cell(w[1])
        /\ w[2] <= (a + k - 1) * Interval => Cell(w[2]) < k
    <3> HIDE DEF size
    <3> QED BY <1>1, <2>1, ClippedIs
  <2> HIDE DEF Cell
  <2> QED BY <1>1, <2>2, <2>3, <2>4
<1>4. GetIndex(c * Interval, a * Interval) = size
  <2>1. a <= c /\ c - a \in Int
    OBVIOUS
  <2>2. a * Interval <= c * Interval /\ (c - a) * Interval = c * Interval - a * Interval
        /\ ((c - a) * Interval) \div Interval = c - a
    BY <2>1, Product
  <2> QED BY <2>2 DEF GetIndex
<1> HIDE DEF size
<1> QED BY <1>3, <1>4 DEF FormatWindows

\* A bucket that lies in a listed window is.
LEMMA WithinIsHidden ==
  ASSUME DataInv, NEW a \in Int, NEW c \in Int, NEW k \in 1..(c - a),
         NEW listed \in SUBSET windows, NEW w \in listed,
         Within((a + k - 1) * Interval, w)
  PROVE  k \in FormatWindows(a * Interval, c * Interval, listed)
<1> DEFINE size == c - a
           Cell(t) == Clip(GetIndex(t, a * Interval), size)
<1>1. size \in Nat /\ k \in 1..size /\ k \in Int
  OBVIOUS
<1>2. (a + k - 1) * Interval + Interval = (a + k) * Interval
  <2>1. a + k - 1 \in Int /\ (a + k - 1) + 1 = a + k
    OBVIOUS
  <2>2. ((a + k - 1) + 1) * Interval = (a + k - 1) * Interval + 1 * Interval
    BY <2>1, Product
  <2> QED BY <2>1, <2>2
<1>3. w[1] \in Int /\ w[2] \in Int
  BY WindowIs
<1>4. w[1] <= (a + k - 1) * Interval /\ w[2] >= (a + k) * Interval
  <2>1. (a + k) * Interval \in Int
    BY Product
  <2> QED BY <1>2, <1>3, <2>1 DEF Within
<1>5. Cell(w[1]) < k /\ k <= Cell(w[2])
  <2> HIDE DEF size
  <2> QED BY <1>1, <1>3, <1>4, ClippedIs
<1>6. GetIndex(c * Interval, a * Interval) = size
  <2>1. a <= c /\ c - a \in Int
    OBVIOUS
  <2>2. a * Interval <= c * Interval /\ (c - a) * Interval = c * Interval - a * Interval
        /\ ((c - a) * Interval) \div Interval = c - a
    BY <2>1, Product
  <2> QED BY <2>2 DEF GetIndex
<1> HIDE DEF size
<1> QED BY <1>1, <1>5, <1>6 DEF FormatWindows

\* The points of another bucket are others, and a default is no point.
LEMMA OnlyItsBucket ==
  ASSUME DataInv, adapter \in Gridded, default # "previous",
         NEW j \in Int, NEW k \in Int, NEW hist, NEW p \in ValueAt(j * Interval, hist),
         p \in InRowOf(k * Interval)
  PROVE  j = k
<1>1. points \subseteq Series
  BY BoundsAre DEF DataInv, Series
<1>2. p \in points /\ p[2] \in Nat
  <2>1. p \in points
    BY DEF InRowOf, Bin, From
  <2> QED BY <1>1, <2>1 DEF Series
<1>3. p \in InRowOf(j * Interval)
  <2>1. p \notin DefaultValue
    BY <1>2 DEF DefaultValue
  <2>2. ValueAt(j * Interval, hist) \in {InRowOf(j * Interval), DefaultValue, Missing}
    BY DEF ValueAt
  <2> QED BY <2>1, <2>2 DEF Missing
<1>4. /\ j * Interval \in Int /\ k * Interval \in Int
      /\ (j + 1) * Interval = j * Interval + Interval
      /\ (k + 1) * Interval = k * Interval + Interval
  BY Product
<1>5. j * Interval < (k + 1) * Interval /\ k * Interval < (j + 1) * Interval
  BY <1>2, <1>3, <1>4 DEF InRowOf, Bin, From
<1>6. j < k + 1 /\ k < j + 1
  <2>1. j + 1 \in Int /\ k + 1 \in Int
    OBVIOUS
  <2> QED BY <1>5, <2>1, Product
<1> QED BY <1>6

LEMMA MaskOfTraining ==
  ASSUME DataInv, adapter \in Gridded,
         NEW from, NEW to, NEW w, IsTraining(from, to, w)
  PROVE  MaskIsTheWindows
<1> DEFINE a == First(from)
           c == After(to)
           rows == Found(a * Interval, c * Interval)
           x == ApplyDefaults(Values(rows))
           listed == ListAnomalies(from, to)
           abnormal == FormatWindows(a * Interval, c * Interval, listed)
           m == TrainSize(Len(x))
           Start(k) == (a + k - 1) * Interval
<1>1. /\ a \in Int /\ c \in Int /\ a < c /\ c - a \in Nat /\ from \in Int /\ to \in Int
      /\ Floor(from) = a * Interval /\ Ceil(to) = c * Interval
      /\ Floor(from) = a * Interval /\ Ceil(to) = c * Interval
  <2>1. from \in Int /\ to \in Int /\ from < to
    BY BoundsAre DEF IsTraining
  <2>2. /\ a \in Int /\ c \in Int /\ a < c
        /\ Floor(from) = a * Interval /\ Ceil(to) = c * Interval
    BY <2>1, RangeIs
  <2> HIDE DEF a, c
  <2> QED BY <2>1, <2>2
<1>2. /\ net.from = from /\ net.to = to /\ net.cells = Len(x)
      /\ net.learned = Learned(x, abnormal, w)
      /\ w \in Nat \ {0} /\ w <= m
  <2> HIDE DEF a, c
  <2>1. net = [width |-> w, from |-> from, to |-> to, cells |-> Len(x),
               learned |-> Learned(x, abnormal, w)]
    BY <1>1 DEF IsTraining, Trained, Dataset
  <2>2. w \in Nat \ {0} /\ Trainable(Len(x), w)
    BY <1>1 DEF IsTraining, Dataset
  <2>3. m >= w /\ w \in Nat \ {0}
    BY <2>2 DEF Trainable
  <2>4. Len(x) \in Nat => m \in Int
    BY DEF TrainSize
  <2> HIDE DEF x, m, abnormal
  <2> QED BY <2>1, <2>3, <2>4
<1> HIDE DEF a, c
<1>3. PICK n \in 0..(c - a) : IsHistory(rows, a, n)
  <2>1. NbFeatures = 1 /\ points \subseteq Series
    BY BoundsAre DEF DataInv, Series
  <2> QED BY <1>1, <2>1, FoundIs
<1> HIDE DEF rows
<1>4. /\ n \in Nat /\ n <= c - a /\ DOMAIN x = 1..n
      /\ \A k \in 1..n : x[k] = ValueAt(Start(k), a * Interval)
  BY <1>1, <1>3, DefaultsAre
<1>5. Len(x) = n
  BY <1>4, LenIs
<1>6. m = TrainSize(n) /\ m \in 0..n
  BY <1>4, <1>5, TrainSizeIs
<1> HIDE DEF x, abnormal, m
<1>7. net.learned = UNION {x[k] : k \in (1..m) \ abnormal}
  BY <1>2, <1>4, <1>6, LearnedIs
<1>8. listed \in SUBSET windows
  BY DEF ListAnomalies
<1>9. ASSUME NEW k \in 1..m
      PROVE  /\ k \in 1..n /\ k \in 1..(c - a) /\ a + k - 1 \in Int
             /\ InRowOf(Start(k)) = InRowOf(Start(k))
             /\ Floor(net.from) + (k - 1) * Interval = Start(k)
  <2>1. k \in 1..n /\ k \in 1..(c - a) /\ a + k - 1 \in Int /\ k - 1 \in Int
        /\ a + (k - 1) = a + k - 1
    BY <1>1, <1>4, <1>6
  <2>2. (a + (k - 1)) * Interval = a * Interval + (k - 1) * Interval
    BY <1>1, <2>1, Product
  <2> QED BY <1>1, <1>2, <2>1, <2>2
<1>10. ASSUME NEW k \in 1..m, \A v \in windows : ~Touches(Start(k), v)
       PROVE  InRowOf(Start(k)) \subseteq net.learned
  <2>1. k \notin abnormal
    BY <1>1, <1>8, <1>9, <1>10, UntouchedIsSeen DEF abnormal
  <2>2. CASE InRowOf(Start(k)) = {}
    BY <2>2
  <2>3. CASE InRowOf(Start(k)) # {}
    <3>1. x[k] = InRowOf(Start(k))
      BY <1>4, <1>9, <2>3 DEF ValueAt, Missing
    <3> QED BY <1>7, <2>1, <3>1
  <2> QED BY <2>2, <2>3
<1>11. ASSUME NEW k \in 1..m, default # "previous", NEW v \in windows,
              Within(Start(k), v), v[2] < net.to
       PROVE  InRowOf(Start(k)) \cap net.learned = {}
  <2>1. v \in listed
    <3>1. v[2] \in Int
      BY WindowIs
    <3>2. a * Interval <= Start(k) /\ Start(k) \in Int /\ a * Interval \in Int
      <4>1. a <= a + k - 1 /\ a + k - 1 \in Int
        BY <1>1, <1>9
      <4> QED BY <1>1, <4>1, Product
    <3>3. from < a * Interval + Interval
      BY <1>1, FloorIs
    <3>4. Start(k) + Interval <= v[2]
      BY <1>11 DEF Within
    <3> HIDE DEF Start
    <3>5. from <= v[2] /\ v[2] < to
      BY <1>1, <1>2, <1>11, <3>1, <3>2, <3>3, <3>4
    <3> QED BY <3>5 DEF ListAnomalies, Annotated
  <2> HIDE DEF listed
  <2>2. k \in abnormal
    BY <1>1, <1>8, <1>9, <1>11, <2>1, WithinIsHidden DEF abnormal
  <2>3. ASSUME NEW p \in InRowOf(Start(k)), p \in net.learned PROVE FALSE
    <3>1. PICK h \in (1..m) \ abnormal : p \in x[h]
      BY <1>7, <2>3
    <3>2. x[h] = ValueAt(Start(h), a * Interval) /\ a + h - 1 \in Int
      BY <1>4, <1>9, <3>1
    <3>3. a + h - 1 = a + k - 1
      <4>1. p \in ValueAt((a + h - 1) * Interval, a * Interval)
        BY <3>1, <3>2
      <4> QED BY <1>9, <1>11, <2>3, <3>2, <4>1, OnlyItsBucket
    <3>4. h = k
      BY <1>1, <1>6, <3>3
    <3> QED BY <2>2, <3>1, <3>4
  <2> QED BY <2>3
<1>12. ASSUME NEW t \in TrainedBuckets
       PROVE  /\ (\A v \in windows : ~Touches(t, v)) => InRowOf(t) \subseteq net.learned
              /\ default # "previous" /\ (\E v \in windows : Within(t, v) /\ v[2] < net.to)
                   => InRowOf(t) \cap net.learned = {}
  <2>1. PICK k \in 1..m : t = Floor(net.from) + (k - 1) * Interval
    <3>1. TrainSize(net.cells) = m
      BY <1>2, <1>5, <1>6
    <3> QED BY <3>1 DEF TrainedBuckets
  <2>2. t = Start(k) /\ InRowOf(t) = InRowOf(Start(k))
    BY <1>9, <2>1
  <2> HIDE DEF Start
  <2> QED BY <1>10, <1>11, <2>2
<1> QED BY <1>12 DEF MaskIsTheWindows

\* Of the training part, the network sees the points of every bucket that no
\* abnormal window touches and, without a default that copies values, none of a
\* bucket that lies in a window which ends in the range: the indexes that
\* _format_windows of loudml/donut.py computes for the ends of a window, truncated
\* and clipped, are the cells of its buckets, and the sliding windows that are
\* trained on cover the training part.
THEOREM MaskIsRight == SeriesSpec => []MaskIsTheWindows
<1>1. DataInv /\ NetInv => MaskIsTheWindows
  <2> SUFFICES ASSUME DataInv, NetInv PROVE MaskIsTheWindows
    OBVIOUS
  <2>1. CASE adapter \notin Gridded
    BY <2>1 DEF MaskIsTheWindows
  <2>2. CASE adapter \in Gridded /\ net = Untrained
    <3>1. net.cells = 0
      BY <2>2 DEF Untrained
    <3>2. TrainSize(0) = 0
      BY DEF TrainSize
    <3>3. TrainedBuckets = {}
      BY <3>1, <3>2 DEF TrainedBuckets
    <3> QED BY <3>3 DEF MaskIsTheWindows
  <2>3. ASSUME adapter \in Gridded, NEW from, NEW to, NEW w, IsTraining(from, to, w)
        PROVE  MaskIsTheWindows
    BY <2>3, MaskOfTraining
  <2> QED BY <2>1, <2>2, <2>3 DEF NetInv
<1>2. SeriesSpec => [](DataInv /\ NetInv /\ OutInv)
  BY AlwaysSeries
<1> QED BY <1>1, <1>2, PTL

-----------------------------------------------------------------------------
\* Types: what a job knows comes from the points of the bucket, or from the
\* default, whatever the adapter.

Known(v) == v \subseteq points \cup DefaultValue

FromPoints(rows, n) ==
  /\ DOMAIN rows = 1..n
  /\ \A k \in 1..n : rows[k].time \in Int /\ rows[k].val \subseteq points

LEMMA FoundInPoints ==
  ASSUME NbFeatures = 1, points \subseteq Series, adapter \in Adapters,
         NEW a \in Int, NEW c \in Int, a < c
  PROVE  \E n \in Nat : FromPoints(Found(a * Interval, c * Interval), n)
<1> DEFINE from == a * Interval
           to == c * Interval
           found == Found(from, to)
<1>1. CASE adapter \in Gridded
  <2>1. PICK n \in 0..(c - a) : IsHistory(found, a, n)
    BY <1>1, FoundIs
  <2> HIDE DEF found
  <2>2. ASSUME NEW k \in 1..n PROVE found[k].time \in Int /\ found[k].val \subseteq points
    <3>1. a + k - 1 \in Int
      OBVIOUS
    <3>2. (a + k - 1) * Interval \in Int
      BY <3>1, Product
    <3>3. InRowOf((a + k - 1) * Interval) \subseteq points
      BY DEF InRowOf, Bin, From
    <3> QED BY <2>1, <3>2, <3>3 DEF IsHistory
  <2> QED BY <2>1, <2>2 DEF IsHistory, FromPoints, found
<1>2. CASE adapter = "prometheus"
  <2> DEFINE rows == PrometheusAnswer(points, from, to, {})
  <2>1. IsRange(from, to)
    BY OnGrid
  <2>2. /\ \A k \in DOMAIN rows : rows[k].time \in Int
        /\ \A k \in DOMAIN rows, f \in Features : rows[k].val[f] \subseteq points
    <3> HIDE DEF from, to
    <3> QED BY <2>1, PrometheusFits
  <2>3. \E n \in Nat : DOMAIN rows = 1..n
    <3> DEFINE results == [i \in DOMAIN Answered({}) |->
                            PrometheusResult(points, Answered({})[i], from, to)]
               m == Cardinality(Features \ {})
               b == Buckets(Floor(from), Ceil(to)) + 1
    <3>1. rows = Merge(results)
      BY DEF PrometheusAnswer
    <3>2. m \in Nat /\ DOMAIN results = 1..m
      BY AnsweredInOrder
    <3>3. b \in Nat
      <4>1. Floor(from) = from /\ Ceil(to) = to /\ Buckets(from, to) = c - a
        BY OnGrid
      <4>2. c - a + 1 \in Nat
        OBVIOUS
      <4> HIDE DEF from, to
      <4> QED BY <4>1, <4>2
    <3>4. \A i \in 1..m : Len(results[i]) \in 0..b
      <4> TAKE i \in 1..m
      <4>1. results[i] = PrometheusResult(points, Answered({})[i], from, to)
        BY <3>2
      <4> HIDE DEF from, to, results
      <4> QED BY <2>1, <4>1, PrometheusResultIs
    <3> HIDE DEF results, m, b, rows
    <3>5. DOMAIN Merge(results) = 1..Longest(results) /\ Longest(results) \in 0..b
      BY <3>2, <3>3, <3>4, Merged
    <3> QED BY <3>1, <3>3, <3>5
  <2>4. found = [k \in DOMAIN rows |-> [time |-> rows[k].time, val |-> rows[k].val[1]]]
    <3>1. TimesDataOf(adapter, points, from, to, {}) = rows
      BY <1>2 DEF TimesDataOf
    <3>2. TimesDataOf(adapter, points, from, to, {}) = rows
      <4> HIDE DEF rows, from, to
      <4> QED BY <3>1
    <3> HIDE DEF rows, from, to
    <3> QED BY <3>2 DEF Found
  <2> HIDE DEF rows, found
  <2>5. 1 \in Features
    BY DEF Features
  <2> QED BY <2>2, <2>3, <2>4, <2>5 DEF FromPoints, found
<1> QED BY <1>1, <1>2 DEF Gridded

LEMMA KnownSeries ==
  ASSUME NEW rows, NEW n \in Nat, FromPoints(rows, n)
  PROVE  /\ DOMAIN ApplyDefaults(Values(rows)) = 1..n
         /\ \A k \in 1..n : Known(ApplyDefaults(Values(rows))[k])
<1> DEFINE v == Values(rows)
           x == ApplyDefaults(v)
<1>1. DOMAIN v = 1..n /\ \A k \in 1..n : v[k] \subseteq points
  BY DEF FromPoints, Values
<1> HIDE DEF v
<1>2. DOMAIN x = 1..n
  BY <1>1 DEF ApplyDefaults
<1>3. ASSUME NEW k \in 1..n PROVE Known(x[k])
  <2>1. x[k] = IF v[k] # {} THEN v[k] ELSE DefaultOf(v, k)
    BY <1>1 DEF ApplyDefaults, Missing
  <2> HIDE DEF x
  <2>2. CASE v[k] # {}
    BY <2>1, <2>2, <1>1 DEF Known
  <2>3. CASE v[k] = {} /\ default = "value"
    BY <2>1, <2>3 DEF Known, DefaultOf
  <2>4. CASE v[k] = {} /\ default # "value" /\ default = "previous" /\ \E j \in 1..(k - 1) : v[j] # {}
    <3>1. LastBefore(v, k) \in 1..(k - 1)
      <4>1. k \in Nat
        OBVIOUS
      <4> QED BY <2>4, <4>1, LastBeforeIs
    <3>2. LastBefore(v, k) \in 1..n
      BY <3>1
    <3>3. x[k] = v[LastBefore(v, k)]
      BY <2>1, <2>4 DEF DefaultOf, Missing
    <3> QED BY <3>2, <3>3, <1>1 DEF Known
  <2>5. CASE v[k] = {} /\ default # "value" /\ ~(default = "previous" /\ \E j \in 1..(k - 1) : v[j] # {})
    <3>1. x[k] = {}
      BY <2>1, <2>5 DEF DefaultOf, Missing
    <3> QED BY <3>1 DEF Known
  <2> QED BY <2>2, <2>3, <2>4, <2>5
<1> QED BY <1>2, <1>3 DEF v, x

\* What is left of a series after its part before m is cut.
LEMMA CutIn ==
  ASSUME NEW z, NEW n \in Nat, DOMAIN z = 1..n, NEW m \in Nat \ {0}
  PROVE  \A k \in DOMAIN SubSeq(z, m, n) : \E j \in 1..n : SubSeq(z, m, n)[k] = z[j]
<1>1. SubSeq(z, m, n) = [k \in 1..(n - m + 1) |-> z[m + k - 1]]
  OBVIOUS
<1>2. \A k \in 1..(n - m + 1) : m + k - 1 \in 1..n
  OBVIOUS
<1> QED BY <1>1, <1>2

\* The series that a job returns.
LEMMA ResultInPoints ==
  ASSUME NbFeatures = 1, points \subseteq Series, adapter \in Adapters, net.width \in Nat,
         NEW s \in Int, NEW c \in Int, s < c, NEW kind
  PROVE  LET r == Result(kind, s * Interval, c * Interval)
         IN  /\ \A k \in DOMAIN r.observed : Known(r.observed[k])
             /\ \A k \in DOMAIN r.times : r.times[k] \in Int
<1> DEFINE a == s - (net.width - 1)
           end == c * Interval
           hist == HistFrom(s * Interval)
           r == Result(kind, s * Interval, end)
           rows == Found(hist, end)
           x == ApplyDefaults(Values(rows))
           b == Before(rows, end)
           cut == Cut(SubSeq(rows, 1, b))
           failure == Failure(rows, Buckets(hist, end), end)
           Ok(q) == /\ \A k \in DOMAIN q.observed : Known(q.observed[k])
                    /\ \A k \in DOMAIN q.times : q.times[k] \in Int
<1>1. r = IF failure # "none" THEN NoSeries(failure)
          ELSE [kind |-> kind, from |-> s * Interval, to |-> end,
                times |-> [k \in DOMAIN cut |-> cut[k].time],
                observed |-> Cut(x),
                predicted |-> Padded(Estimates(kind, SubSeq(x, 1, Until(rows, end))),
                                       Buckets(s * Interval, end))]
  BY DEF Result, Dataset
<1>2. CASE failure # "none"
  <2>1. r = NoSeries(failure)
    BY <1>1, <1>2
  <2>2. \A k : DOMAIN NoSeries(k).observed = {} /\ DOMAIN NoSeries(k).times = {}
    BY DEF NoSeries, NoResult
  <2> HIDE DEF r, failure
  <2> QED BY <2>1, <2>2 DEF r
<1>3. CASE failure = "none"
  <2>1. net.width \in Nat \ {0}
    BY <1>3 DEF Failure
  <2>2. PICK n \in Nat : FromPoints(rows, n)
    <3>1. a \in Int /\ a < c
      BY <2>1
    <3>2. hist = a * Interval
      <4>1. net.width - 1 \in Int
        OBVIOUS
      <4>2. (s - (net.width - 1)) * Interval = s * Interval - (net.width - 1) * Interval
        BY <4>1, Product
      <4> QED BY <4>2 DEF HistFrom, Window
    <3> HIDE DEF a, hist
    <3> QED BY <3>1, <3>2, FoundInPoints
  <2> HIDE DEF rows
  <2>3. DOMAIN rows = 1..n /\ \A k \in 1..n : rows[k].time \in Int
    BY <2>2 DEF FromPoints
  <2>4. DOMAIN x = 1..n /\ \A k \in 1..n : Known(x[k])
    BY <2>2, KnownSeries
  <2>5. b \in 0..n
    <3> DEFINE S == {k \in DOMAIN rows : rows[k].time < end}
    <3>1. S \in SUBSET (1..n)
      BY <2>3
    <3>2. IsFiniteSet(1..n) /\ Cardinality(1..n) = n
      BY FS_Interval
    <3> HIDE DEF S
    <3>3. IsFiniteSet(S) /\ Cardinality(S) <= n
      BY <3>1, <3>2, FS_Subset
    <3>4. Cardinality(S) \in Nat
      BY <3>3, FS_CardinalityType
    <3>5. b = Cardinality(S)
      BY DEF Before, S
    <3> QED BY <3>3, <3>4, <3>5
  <2> HIDE DEF x, b, failure, r, end, hist
  <2>6. \A k \in DOMAIN Cut(x) : Known(Cut(x)[k])
    <3>1. Cut(x) = SubSeq(x, net.width, n)
      <4>1. Len(x) = n
        BY <2>4, LenIs
      <4> QED BY <4>1 DEF Cut
    <3> QED BY <2>1, <2>4, <3>1, CutIn
  <2>7. \A k \in DOMAIN cut : cut[k].time \in Int
    <3> DEFINE z == SubSeq(rows, 1, b)
    <3>1. z = [k \in 1..b |-> rows[k]]
      <4>1. z = [k \in 1..b |-> rows[1 + k - 1]]
        BY <2>3, <2>5
      <4>2. \A k \in 1..b : 1 + k - 1 = k
        BY <2>5
      <4> HIDE DEF z
      <4> QED BY <4>1, <4>2
    <3>2. DOMAIN z = 1..b /\ \A k \in 1..b : z[k].time \in Int
      BY <2>3, <2>5, <3>1
    <3> HIDE DEF z
    <3>3. Cut(z) = SubSeq(z, net.width, b)
      <4>1. Len(z) = b
        BY <2>5, <3>2, LenIs
      <4> QED BY <4>1 DEF Cut
    <3>4. \A k \in DOMAIN SubSeq(z, net.width, b) : \E j \in 1..b : SubSeq(z, net.width, b)[k] = z[j]
      <4>1. b \in Nat /\ DOMAIN z = 1..b /\ net.width \in Nat \ {0}
        BY <2>1, <2>5, <3>2
      <4> QED BY <4>1, CutIn
    <3>5. \A k \in DOMAIN Cut(z) : Cut(z)[k].time \in Int
      BY <3>2, <3>3, <3>4
    <3> QED BY <3>5 DEF z
  <2> HIDE DEF cut
  <2>8. r.observed = Cut(x) /\ r.times = [k \in DOMAIN cut |-> cut[k].time]
    BY <1>1, <1>3
  <2>9. Ok(r)
    BY <2>6, <2>7, <2>8
  <2> QED BY <2>9 DEF r, end
<1> QED BY <1>2, <1>3

\* What a training keeps.
LEMMA LearnedInPoints ==
  ASSUME DataInv, NEW from, NEW to, NEW w, IsTraining(from, to, w)
  PROVE  /\ net.width = w /\ net.cells \in Nat /\ Known(net.learned)
<1> DEFINE a == First(from)
           c == After(to)
           rows == Found(a * Interval, c * Interval)
           x == ApplyDefaults(Values(rows))
           abnormal == FormatWindows(a * Interval, c * Interval, ListAnomalies(from, to))
           m == TrainSize(Len(x))
<1>1. /\ a \in Int /\ c \in Int /\ a < c
      /\ Floor(from) = a * Interval /\ Ceil(to) = c * Interval
  <2>1. from \in Int /\ to \in Int /\ from < to
    BY BoundsAre DEF IsTraining
  <2>2. /\ a \in Int /\ c \in Int /\ a < c
        /\ Floor(from) = a * Interval /\ Ceil(to) = c * Interval
    BY <2>1, RangeIs
  <2> HIDE DEF a, c
  <2> QED BY <2>1, <2>2
<1> HIDE DEF a, c
<1>2. net = [width |-> w, from |-> from, to |-> to, cells |-> Len(x),
             learned |-> Learned(x, abnormal, w)]
  BY <1>1 DEF IsTraining, Trained, Dataset
<1>3. w \in Nat \ {0} /\ m >= w
  BY <1>1 DEF IsTraining, Dataset, Trainable
<1>4. PICK n \in Nat : FromPoints(rows, n)
  <2>1. NbFeatures = 1 /\ points \subseteq Series
    BY BoundsAre DEF DataInv, Series
  <2>2. adapter \in Adapters
    BY StoresAssumption DEF DataInv, StoresAssumption
  <2> QED BY <1>1, <2>1, <2>2, FoundInPoints
<1> HIDE DEF rows
<1>5. DOMAIN x = 1..n /\ \A k \in 1..n : Known(x[k])
  BY <1>4, KnownSeries
<1>6. Len(x) = n
  BY <1>5, LenIs
<1>7. m = TrainSize(n) /\ m \in 0..n
  BY <1>6, TrainSizeIs
<1> HIDE DEF x, abnormal, m
<1>8. Learned(x, abnormal, w) = UNION {x[k] : k \in (1..m) \ abnormal}
  <2>1. w <= TrainSize(n)
    BY <1>3, <1>7
  <2> QED BY <1>3, <1>5, <1>7, <2>1, LearnedIs
<1>9. Known(Learned(x, abnormal, w))
  <2>1. \A k \in 1..m : Known(x[k])
    BY <1>5, <1>7
  <2> QED BY <1>8, <2>1 DEF Known
<1> QED BY <1>2, <1>6, <1>9

\* What the settings, the network and the results hold, whatever the jobs: the
\* width is one that the settings had or a training chose, and what is learned or
\* returned are points of the bucket or defaults.
THEOREM SeriesTypeCorrect == SeriesSpec => []SeriesTypeOK
<1>1. DataInv /\ NetInv /\ OutInv => SeriesTypeOK
  <2> SUFFICES ASSUME DataInv, NetInv, OutInv PROVE SeriesTypeOK
    OBVIOUS
  <2>1. /\ net.width \in {0} \cup Spans \cup (MinSpan..(MaxSpan - 1))
        /\ net.width \in Nat /\ net.cells \in Nat /\ Known(net.learned)
    <3>1. CASE net = Untrained
      BY <3>1 DEF Untrained, Known
    <3>2. ASSUME NEW from, NEW to, NEW w, IsTraining(from, to, w)
          PROVE  /\ net.width \in {0} \cup Spans \cup (MinSpan..(MaxSpan - 1))
                 /\ net.width \in Nat /\ net.cells \in Nat /\ Known(net.learned)
      <4>1. net.width = w /\ net.cells \in Nat /\ Known(net.learned)
        BY <3>2, LearnedInPoints
      <4>2. w \in Nat /\ w \in Spans \cup (MinSpan..(MaxSpan - 1))
        BY <3>2 DEF IsTraining
      <4> QED BY <4>1, <4>2
    <3> QED BY <3>1, <3>2 DEF NetInv
  <2>2. /\ \A k \in DOMAIN out.observed : Known(out.observed[k])
        /\ \A k \in DOMAIN out.times : out.times[k] \in Int
    <3>1. CASE out \in {NoResult, NoSeries("no_data"), NoSeries("trained")}
      BY <3>1 DEF NoResult, NoSeries
    <3>2. ASSUME NEW kind, NEW from, NEW to, IsResult(kind, from, to)
          PROVE  /\ \A k \in DOMAIN out.observed : Known(out.observed[k])
                 /\ \A k \in DOMAIN out.times : out.times[k] \in Int
      <4> DEFINE s == First(from)
                 c == After(to)
      <4>1. /\ s \in Int /\ c \in Int /\ s < c
            /\ Floor(from) = s * Interval /\ Ceil(to) = c * Interval
        BY <3>2, BoundsAre, RangeIs DEF IsResult
      <4> HIDE DEF s, c
      <4>2. out = Result(kind, s * Interval, c * Interval)
        BY <3>2, <4>1 DEF IsResult
      <4>3. NbFeatures = 1 /\ points \subseteq Series
        BY BoundsAre DEF DataInv, Series
      <4>4. adapter \in Adapters
        BY StoresAssumption DEF DataInv, StoresAssumption
      <4> QED BY <2>1, <4>1, <4>2, <4>3, <4>4, ResultInPoints
    <3> QED BY <3>1, <3>2 DEF OutInv
  <2>3. points \subseteq Features \X PointTimes
    BY DEF DataInv, Features
  <2> QED BY <2>1, <2>2, <2>3 DEF DataInv, SeriesTypeOK, Known
<1>2. SeriesSpec => [](DataInv /\ NetInv /\ OutInv)
  BY AlwaysSeries
<1> QED BY <1>1, <1>2, PTL

=============================================================================
