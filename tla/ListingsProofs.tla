---------------------------- MODULE ListingsProofs ----------------------------
(* Theorems about Listings: what the walks answer and what a request has     *)
(* promised, for any number of resources, requests, walks and crashes. The   *)
(* first part says what the operations on the table do to its entries.       *)
EXTENDS Listings, FiniteSetTheorems, SequenceTheorems, TLAPS

Resources == [name: Names, value: Values, is: Stored]

\* A table has one entry for a name.
IsTable(t) ==
  /\ t \in Seq(Resources)
  /\ \A i, j \in DOMAIN t : t[i].name = t[j].name => i = j

Entries(t) == {t[i] : i \in DOMAIN t}

-----------------------------------------------------------------------------
\* The operations on a table.

LEMMA TableIs ==
  ASSUME NEW t, IsTable(t)
  PROVE  /\ Len(t) \in Nat /\ DOMAIN t = 1..Len(t)
         /\ \A i \in DOMAIN t : t[i] \in Resources /\ t[i].name \in Names
         /\ Entries(t) \subseteq Resources
         /\ NamesOf(t) = {e.name : e \in Entries(t)}
         /\ NamesOf(t) \subseteq Names
<1>1. t \in Seq(Resources)
  BY DEF IsTable
<1>2. Len(t) \in Nat /\ DOMAIN t = 1..Len(t)
  BY <1>1
<1>3. \A i \in DOMAIN t : t[i] \in Resources
  BY <1>1, <1>2, ElementOfSeq
<1>4. \A e \in Resources : e.name \in Names
  BY DEF Resources
<1>5. Entries(t) \subseteq Resources
  BY <1>3 DEF Entries
<1>6. NamesOf(t) = {e.name : e \in Entries(t)}
  <2>1. ASSUME NEW n \in NamesOf(t) PROVE \E e \in Entries(t) : e.name = n
    BY DEF NamesOf, Entries
  <2>2. ASSUME NEW e \in Entries(t) PROVE e.name \in NamesOf(t)
    BY DEF NamesOf, Entries
  <2> QED BY <2>1, <2>2
<1>7. NamesOf(t) \subseteq Names
  BY <1>4, <1>5, <1>6
<1> QED BY <1>2, <1>3, <1>4, <1>5, <1>6, <1>7

LEMMA AtIs ==
  ASSUME NEW t, IsTable(t), NEW n \in NamesOf(t)
  PROVE  /\ At(t, n) \in DOMAIN t /\ t[At(t, n)].name = n
         /\ t[At(t, n)] \in Entries(t) /\ t[At(t, n)] \in Resources
         /\ \A i \in DOMAIN t : t[i].name = n => i = At(t, n)
<1>1. \E i \in DOMAIN t : t[i].name = n
  BY DEF NamesOf
<1>2. At(t, n) \in DOMAIN t /\ t[At(t, n)].name = n
  BY <1>1 DEF At
<1>3. t[At(t, n)] \in Resources
  BY <1>2, TableIs
<1> QED BY <1>2, <1>3 DEF IsTable, Entries

\* The entry of a name is the only one.
LEMMA EntryIs ==
  ASSUME NEW t, IsTable(t), NEW e \in Entries(t)
  PROVE  e.name \in NamesOf(t) /\ t[At(t, e.name)] = e
<1>1. PICK i \in DOMAIN t : t[i] = e
  BY DEF Entries
<1>2. e.name \in NamesOf(t)
  BY <1>1 DEF NamesOf
<1>3. i = At(t, e.name)
  BY <1>1, <1>2, AtIs
<1> QED BY <1>1, <1>2, <1>3

LEMMA EmptyTable == IsTable(<<>>) /\ Entries(<<>>) = {} /\ NamesOf(<<>>) = {}
BY DEF IsTable, Entries, NamesOf

LEMMA Appended ==
  ASSUME NEW t, IsTable(t), NEW e \in Resources, e.name \notin NamesOf(t)
  PROVE  IsTable(Append(t, e)) /\ Entries(Append(t, e)) = Entries(t) \cup {e}
<1> DEFINE u == Append(t, e)
           n == Len(t)
<1>1. t \in Seq(Resources) /\ n \in Nat /\ DOMAIN t = 1..n
  BY DEF IsTable
<1>2. /\ u \in Seq(Resources) /\ Len(u) = n + 1 /\ DOMAIN u = 1..(n + 1)
      /\ \A i \in 1..n : u[i] = t[i]
      /\ u[n + 1] = e
  BY <1>1
<1> HIDE DEF u, n
<1>3. \A i \in 1..n : t[i].name # e.name
  BY <1>1 DEF NamesOf
<1>4. \A i \in 1..(n + 1) : i \in 1..n \/ i = n + 1
  BY <1>1
<1>5. IsTable(u)
  BY <1>1, <1>2, <1>3, <1>4 DEF IsTable
<1>6. Entries(u) = Entries(t) \cup {e}
  <2>1. \A i \in 1..n : i \in 1..(n + 1)
    BY <1>1
  <2>2. n + 1 \in 1..(n + 1)
    BY <1>1
  <2> QED BY <1>1, <1>2, <1>4, <2>1, <2>2 DEF Entries
<1> QED BY <1>5, <1>6 DEF u

LEMMA InsertedAt ==
  ASSUME NEW t, IsTable(t), NEW e \in Resources, e.name \notin NamesOf(t),
         NEW k \in 1..(Len(t) + 1)
  PROVE  /\ IsTable(InsertAt(t, k, e)) /\ Entries(InsertAt(t, k, e)) = Entries(t) \cup {e}
         /\ Len(InsertAt(t, k, e)) = Len(t) + 1
         /\ \A i \in 1..(Len(t) + 1) :
              InsertAt(t, k, e)[i] = IF i < k THEN t[i] ELSE IF i = k THEN e ELSE t[i - 1]
<1> DEFINE u == InsertAt(t, k, e)
           n == Len(t)
<1>1. t \in Seq(Resources) /\ n \in Nat /\ DOMAIN t = 1..n /\ k \in 1..(n + 1)
  BY DEF IsTable
<1>2. /\ u \in Seq(Resources) /\ Len(u) = n + 1 /\ DOMAIN u = 1..(n + 1)
      /\ \A i \in 1..(n + 1) : u[i] = IF i < k THEN t[i] ELSE IF i = k THEN e ELSE t[i - 1]
  <2> DEFINE p == SubSeq(t, 1, k - 1)
             q == SubSeq(t, k, n)
             r == p \o <<e>>
  <2> k \in Int /\ n \in Int /\ k - 1 \in Int
    BY <1>1
  <2>1. \A i \in 1..n : t[i] \in Resources
    BY <1>1, ElementOfSeq
  <2>2. \A i \in 1..(k - 1) : t[i] \in Resources
    BY <2>1, <1>1
  <2>3. \A i \in k..n : t[i] \in Resources
    BY <2>1, <1>1
  <2>4. /\ p \in Seq(Resources) /\ Len(p) = k - 1
        /\ \A i \in 1..(k - 1) : p[i] = t[i]
    <3>1. /\ p \in Seq(Resources)
          /\ Len(p) = IF 1 <= k - 1 THEN (k - 1) - 1 + 1 ELSE 0
          /\ \A i \in 1..((k - 1) - 1 + 1) : p[i] = t[1 + i - 1]
      BY <2>2, SubSeqProperties
    <3> HIDE DEF p
    <3>2. Len(p) = k - 1
      BY <3>1, <1>1
    <3>3. \A i \in 1..(k - 1) : p[i] = t[i]
      BY <3>1
    <3> QED BY <3>1, <3>2, <3>3
  <2>5. /\ q \in Seq(Resources) /\ Len(q) = n - k + 1
        /\ \A i \in 1..(n - k + 1) : q[i] = t[k + i - 1]
    <3>1. /\ q \in Seq(Resources)
          /\ Len(q) = IF k <= n THEN n - k + 1 ELSE 0
          /\ \A i \in 1..(n - k + 1) : q[i] = t[k + i - 1]
      BY <2>3, SubSeqProperties
    <3> HIDE DEF q
    <3>2. Len(q) = n - k + 1
      BY <3>1, <1>1
    <3> QED BY <3>1, <3>2
  <2> HIDE DEF p, q
  <2>6. <<e>> \in Seq(Resources) /\ Len(<<e>>) = 1 /\ <<e>>[1] = e
    OBVIOUS
  <2>7. /\ r \in Seq(Resources) /\ Len(r) = k
        /\ \A i \in 1..k : r[i] = IF i < k THEN t[i] ELSE e
    <3>1. /\ r \in Seq(Resources) /\ Len(r) = Len(p) + Len(<<e>>)
          /\ \A i \in 1..(Len(p) + Len(<<e>>)) :
               r[i] = IF i <= Len(p) THEN p[i] ELSE <<e>>[i - Len(p)]
      BY <2>4, <2>6, ConcatProperties
    <3> HIDE DEF r
    <3> QED BY <3>1, <2>4, <2>6, <1>1
  <2>8. u = r \o q
    BY DEF InsertAt, p, q
  <2> HIDE DEF r, u, n
  <2>9. /\ u \in Seq(Resources) /\ Len(u) = Len(r) + Len(q)
        /\ \A i \in 1..(Len(r) + Len(q)) :
             u[i] = IF i <= Len(r) THEN r[i] ELSE q[i - Len(r)]
    BY <2>5, <2>7, <2>8, ConcatProperties
  <2>10. Len(u) = n + 1
    BY <2>5, <2>7, <2>9, <1>1
  <2>11. DOMAIN u = 1..(n + 1)
    BY <2>9, <2>10
  <2>12. ASSUME NEW i \in 1..(n + 1)
         PROVE  u[i] = IF i < k THEN t[i] ELSE IF i = k THEN e ELSE t[i - 1]
    <3>1. u[i] = IF i <= k THEN r[i] ELSE q[i - k]
      BY <2>5, <2>7, <2>9, <1>1
    <3>2. CASE i <= k
      BY <3>1, <3>2, <2>7, <1>1
    <3>3. CASE i > k
      <4>1. i - k \in 1..(n - k + 1) /\ k + (i - k) - 1 = i - 1
        BY <3>3, <1>1
      <4>2. q[i - k] = t[i - 1]
        BY <4>1, <2>5
      <4> QED BY <3>1, <3>3, <4>2, <1>1
    <3> QED BY <3>2, <3>3, <1>1
  <2> QED BY <2>9, <2>10, <2>11, <2>12
<1> HIDE DEF u, n
<1>3. \A i \in 1..n : t[i].name # e.name
  BY <1>1 DEF NamesOf
<1>5. IsTable(u)
  <2> SUFFICES ASSUME NEW i \in 1..(n + 1), NEW j \in 1..(n + 1), u[i].name = u[j].name
               PROVE  i = j
    BY <1>2 DEF IsTable
  <2>1. \A a, b \in 1..n : t[a].name = t[b].name => a = b
    BY <1>1 DEF IsTable
  <2> QED BY <1>1, <1>2, <1>3, <2>1
<1>6. Entries(u) = Entries(t) \cup {e}
  <2>1. ASSUME NEW i \in 1..(n + 1) PROVE u[i] \in Entries(t) \cup {e}
    BY <1>1, <1>2 DEF Entries
  <2>2. ASSUME NEW i \in 1..n PROVE t[i] \in Entries(u)
    <3>1. CASE i < k
      <4>1. i \in DOMAIN u /\ u[i] = t[i]
        BY <1>1, <1>2, <3>1
      <4> QED BY <4>1 DEF Entries
    <3>2. CASE ~(i < k)
      <4>1. i + 1 \in DOMAIN u /\ u[i + 1] = t[i]
        BY <1>1, <1>2, <3>2
      <4> QED BY <4>1 DEF Entries
    <3> QED BY <3>1, <3>2
  <2>3. k \in DOMAIN u /\ u[k] = e
    BY <1>1, <1>2
  <2> QED BY <1>1, <1>2, <2>1, <2>2, <2>3 DEF Entries
<1> QED BY <1>2, <1>5, <1>6 DEF u, n

LEMMA Inserted ==
  ASSUME NEW t, IsTable(t), NEW e \in Resources, e.name \notin NamesOf(t)
  PROVE  IsTable(Insert(t, e)) /\ Entries(Insert(t, e)) = Entries(t) \cup {e}
<1> DEFINE before == {i \in DOMAIN t : t[i].name < e.name}
<1>1. Cardinality(before) \in 0..Len(t)
  <2> DEFINE n == Len(t)
  <2>1. n \in Nat /\ n \in Int /\ DOMAIN t = 1..n
    BY TableIs
  <2>2. before \subseteq 1..n
    BY <2>1
  <2> HIDE DEF n, before
  <2>3. IsFiniteSet(1..n) /\ Cardinality(1..n) = n
    BY <2>1, FS_Interval
  <2>4. IsFiniteSet(before) /\ Cardinality(before) <= n
    BY <2>2, <2>3, FS_Subset
  <2>5. Cardinality(before) \in Nat
    BY <2>4, FS_CardinalityType
  <2> QED BY <2>1, <2>4, <2>5 DEF n
<1> HIDE DEF before
<1>2. Cardinality(before) + 1 \in 1..(Len(t) + 1)
  BY <1>1, TableIs
<1> QED BY <1>2, Appended, InsertedAt DEF Insert, before

LEMMA Replaced ==
  ASSUME NEW t, IsTable(t), NEW e \in Resources, e.name \in NamesOf(t)
  PROVE  /\ IsTable([t EXCEPT ![At(t, e.name)] = e])
         /\ Entries([t EXCEPT ![At(t, e.name)] = e]) = {f \in Entries(t) : f.name # e.name} \cup {e}
         /\ Len([t EXCEPT ![At(t, e.name)] = e]) = Len(t)
<1> DEFINE a == At(t, e.name)
           u == [t EXCEPT ![a] = e]
           n == Len(t)
<1>1. t \in Seq(Resources) /\ n \in Nat /\ DOMAIN t = 1..n
  BY DEF IsTable
<1>2. /\ a \in 1..n /\ t[a].name = e.name
      /\ \A i \in 1..n : t[i].name = e.name => i = a
  BY <1>1, AtIs
<1> HIDE DEF a
<1>3. /\ u \in Seq(Resources) /\ Len(u) = n /\ DOMAIN u = 1..n
      /\ \A i \in 1..n : u[i] = IF i = a THEN e ELSE t[i]
  BY <1>1, <1>2
<1> HIDE DEF u, n
<1>4. \A i, j \in 1..n : u[i].name = u[j].name => i = j
  <2>1. \A i, j \in 1..n : t[i].name = t[j].name => i = j
    BY <1>1 DEF IsTable
  <2> QED BY <1>2, <1>3, <2>1
<1>5. IsTable(u)
  BY <1>3, <1>4 DEF IsTable
<1>6. Entries(u) = {f \in Entries(t) : f.name # e.name} \cup {e}
  <2>1. ASSUME NEW i \in 1..n PROVE u[i] \in {f \in Entries(t) : f.name # e.name} \cup {e}
    BY <1>1, <1>2, <1>3 DEF Entries
  <2>2. ASSUME NEW i \in 1..n, t[i].name # e.name PROVE t[i] \in Entries(u)
    <3>1. u[i] = t[i]
      BY <1>2, <1>3, <2>2
    <3> QED BY <1>3, <3>1 DEF Entries
  <2>3. e \in Entries(u)
    BY <1>2, <1>3 DEF Entries
  <2> QED BY <1>1, <1>3, <2>1, <2>2, <2>3 DEF Entries
<1> QED BY <1>3, <1>5, <1>6 DEF u, a, n

LEMMA PutIs ==
  ASSUME NEW t, IsTable(t), NEW e \in Resources
  PROVE  IsTable(Put(t, e)) /\ Entries(Put(t, e)) = {f \in Entries(t) : f.name # e.name} \cup {e}
<1>1. CASE e.name \in NamesOf(t)
  BY <1>1, Replaced DEF Put
<1>2. CASE e.name \notin NamesOf(t)
  <2>1. Put(t, e) = Insert(t, e)
    BY <1>2 DEF Put
  <2>2. \A f \in Entries(t) : f.name # e.name
    BY <1>2, TableIs
  <2>3. Entries(t) = {f \in Entries(t) : f.name # e.name}
    BY <2>2
  <2> QED BY <1>2, <2>1, <2>3, Inserted
<1> QED BY <1>1, <1>2

LEMMA WithoutIs ==
  ASSUME NEW t, IsTable(t), NEW n \in NamesOf(t)
  PROVE  /\ IsTable(Without(t, n)) /\ Len(Without(t, n)) = Len(t) - 1
         /\ Entries(Without(t, n)) = {f \in Entries(t) : f.name # n}
<1> DEFINE a == At(t, n)
           u == Without(t, n)
           m == Len(t)
<1>1. t \in Seq(Resources) /\ m \in Nat /\ DOMAIN t = 1..m
  BY DEF IsTable
<1>2. /\ a \in 1..m /\ t[a].name = n
      /\ \A i \in 1..m : t[i].name = n => i = a
  BY <1>1, AtIs
<1>3. u = SubSeq(t, 1, a - 1) \o SubSeq(t, a + 1, m)
  BY DEF Without, RemoveAt
<1> HIDE DEF a, u, m
<1>4. /\ u \in Seq(Resources) /\ Len(u) = m - 1 /\ DOMAIN u = 1..(m - 1)
      /\ \A i \in 1..(m - 1) : u[i] = IF i < a THEN t[i] ELSE t[i + 1]
  <2> DEFINE p == SubSeq(t, 1, a - 1)
             q == SubSeq(t, a + 1, m)
  <2> a \in Int /\ m \in Int /\ a - 1 \in Int /\ a + 1 \in Int
    BY <1>1, <1>2
  <2>1. \A i \in 1..m : t[i] \in Resources
    BY <1>1, TableIs
  <2>2. \A i \in 1..(a - 1) : t[i] \in Resources
    BY <2>1, <1>1, <1>2
  <2>3. \A i \in (a + 1)..m : t[i] \in Resources
    BY <2>1, <1>1, <1>2
  <2>4. /\ p \in Seq(Resources) /\ Len(p) = a - 1
        /\ \A i \in 1..(a - 1) : p[i] = t[i]
    <3>1. /\ p \in Seq(Resources)
          /\ Len(p) = IF 1 <= a - 1 THEN (a - 1) - 1 + 1 ELSE 0
          /\ \A i \in 1..((a - 1) - 1 + 1) : p[i] = t[1 + i - 1]
      BY <2>2, SubSeqProperties
    <3> HIDE DEF p
    <3>2. Len(p) = a - 1
      BY <3>1, <1>1, <1>2
    <3>3. \A i \in 1..(a - 1) : p[i] = t[i]
      BY <3>1
    <3> QED BY <3>1, <3>2, <3>3
  <2>5. /\ q \in Seq(Resources) /\ Len(q) = m - a
        /\ \A i \in 1..(m - a) : q[i] = t[a + i]
    <3>1. /\ q \in Seq(Resources)
          /\ Len(q) = IF a + 1 <= m THEN m - (a + 1) + 1 ELSE 0
          /\ \A i \in 1..(m - (a + 1) + 1) : q[i] = t[(a + 1) + i - 1]
      BY <2>3, SubSeqProperties
    <3> HIDE DEF q
    <3>2. Len(q) = m - a
      BY <3>1, <1>1, <1>2
    <3>3. ASSUME NEW i \in 1..(m - a) PROVE q[i] = t[a + i]
      <4>1. i \in 1..(m - (a + 1) + 1) /\ (a + 1) + i - 1 = a + i
        OBVIOUS
      <4> QED BY <3>1, <4>1
    <3> QED BY <3>1, <3>2, <3>3
  <2>6. u = p \o q
    BY <1>3
  <2> HIDE DEF p, q
  <2>7. /\ u \in Seq(Resources) /\ Len(u) = Len(p) + Len(q)
        /\ \A i \in 1..(Len(p) + Len(q)) :
             u[i] = IF i <= Len(p) THEN p[i] ELSE q[i - Len(p)]
    BY <2>4, <2>5, <2>6, ConcatProperties
  <2>8. Len(u) = m - 1
    BY <2>4, <2>5, <2>7
  <2>9. DOMAIN u = 1..(m - 1)
    BY <2>7, <2>8
  <2>10. ASSUME NEW i \in 1..(m - 1) PROVE u[i] = IF i < a THEN t[i] ELSE t[i + 1]
    <3>1. u[i] = IF i <= a - 1 THEN p[i] ELSE q[i - (a - 1)]
      BY <2>4, <2>5, <2>7, <1>1, <1>2
    <3>2. CASE i < a
      BY <3>1, <3>2, <2>4, <1>1, <1>2
    <3>3. CASE ~(i < a)
      <4>1. i - (a - 1) \in 1..(m - a) /\ a + (i - (a - 1)) = i + 1
        BY <3>3, <1>1, <1>2
      <4>2. q[i - (a - 1)] = t[i + 1]
        BY <4>1, <2>5
      <4> QED BY <3>1, <3>3, <4>2, <1>1, <1>2
    <3> QED BY <3>2, <3>3
  <2> QED BY <2>7, <2>8, <2>9, <2>10
<1>5. IsTable(u)
  <2> SUFFICES ASSUME NEW i \in 1..(m - 1), NEW j \in 1..(m - 1), u[i].name = u[j].name
               PROVE  i = j
    BY <1>4 DEF IsTable
  <2>1. \A b, c \in 1..m : t[b].name = t[c].name => b = c
    BY <1>1 DEF IsTable
  <2> QED BY <1>1, <1>2, <1>4, <2>1
<1>6. Entries(u) = {f \in Entries(t) : f.name # n}
  <2>1. ASSUME NEW i \in 1..(m - 1) PROVE u[i] \in {f \in Entries(t) : f.name # n}
    <3>1. CASE i < a
      <4>1. i \in 1..m /\ i # a /\ u[i] = t[i]
        BY <1>1, <1>2, <1>4, <3>1
      <4> QED BY <4>1, <1>1, <1>2 DEF Entries
    <3>2. CASE ~(i < a)
      <4>1. i + 1 \in 1..m /\ i + 1 # a /\ u[i] = t[i + 1]
        BY <1>1, <1>2, <1>4, <3>2
      <4> QED BY <4>1, <1>1, <1>2 DEF Entries
    <3> QED BY <3>1, <3>2
  <2>2. ASSUME NEW i \in 1..m, t[i].name # n PROVE t[i] \in Entries(u)
    <3>1. CASE i < a
      <4>1. i \in DOMAIN u /\ u[i] = t[i]
        BY <1>1, <1>2, <1>4, <3>1
      <4> QED BY <4>1 DEF Entries
    <3>2. CASE ~(i < a)
      <4>1. i # a
        BY <1>2, <2>2
      <4>2. i - 1 \in DOMAIN u /\ u[i - 1] = t[i]
        BY <1>1, <1>2, <1>4, <3>2, <4>1
      <4> QED BY <4>2 DEF Entries
    <3> QED BY <3>1, <3>2
  <2> QED BY <1>1, <1>4, <2>1, <2>2 DEF Entries
<1> QED BY <1>4, <1>5, <1>6 DEF u, m

\* The names that can be read.
LEMMA WholeIs ==
  ASSUME NEW t, IsTable(t)
  PROVE  /\ WholeNames(t) \subseteq NamesOf(t)
         /\ \A e \in Entries(t) : e.name \in WholeNames(t) <=> e.is = "whole"
         /\ \A n \in NamesOf(t) : n \in WholeNames(t) <=> t[At(t, n)].is = "whole"
<1>1. WholeNames(t) \subseteq NamesOf(t)
  BY DEF WholeNames, Whole, NamesOf
<1>2. ASSUME NEW n \in WholeNames(t) PROVE t[At(t, n)].is = "whole"
  <2>1. PICK i \in DOMAIN t : t[i].is = "whole" /\ t[i].name = n
    BY DEF WholeNames, Whole
  <2>2. i = At(t, n)
    BY <1>1, <2>1, AtIs
  <2> QED BY <2>1, <2>2
<1>3. ASSUME NEW n \in NamesOf(t), t[At(t, n)].is = "whole" PROVE n \in WholeNames(t)
  <2>1. At(t, n) \in DOMAIN t /\ t[At(t, n)].name = n
    BY AtIs
  <2> QED BY <1>3, <2>1 DEF WholeNames, Whole
<1>4. ASSUME NEW e \in Entries(t) PROVE e.name \in WholeNames(t) <=> e.is = "whole"
  <2>1. e.name \in NamesOf(t) /\ t[At(t, e.name)] = e
    BY EntryIs
  <2> QED BY <1>2, <1>3, <2>1
<1> QED BY <1>1, <1>2, <1>3, <1>4

\* rmtree takes the files of a name.
LEMMA EmptiedIs ==
  ASSUME NEW t, IsTable(t), NEW n \in NamesOf(t)
  PROVE  LET u == [t EXCEPT ![At(t, n)].is = "empty"] IN
           /\ IsTable(u) /\ NamesOf(u) = NamesOf(t)
           /\ \A f \in Entries(t) : f.name # n => f \in Entries(u)
<1> DEFINE a == At(t, n)
           e == [t[a] EXCEPT !.is = "empty"]
<1>1. a \in DOMAIN t /\ t[a].name = n /\ t[a] \in Resources
  BY AtIs
<1>2. e \in Resources /\ e.name = n
  BY <1>1 DEF Resources, Stored
<1>3. [t EXCEPT ![a].is = "empty"] = [t EXCEPT ![At(t, e.name)] = e]
  BY <1>1, <1>2
<1> HIDE DEF e, a
<1>4. DEFINE u == [t EXCEPT ![At(t, e.name)] = e]
<1>5. IsTable(u) /\ Entries(u) = {f \in Entries(t) : f.name # e.name} \cup {e}
  BY <1>2, Replaced
<1> HIDE DEF u
<1>6. NamesOf(u) = NamesOf(t)
  <2>1. NamesOf(u) = {f.name : f \in Entries(u)} /\ NamesOf(t) = {f.name : f \in Entries(t)}
    BY <1>5, TableIs
  <2> QED BY <1>2, <1>5, <2>1
<1>7. \A f \in Entries(t) : f.name # n => f \in Entries(u)
  BY <1>2, <1>5
<1> QED BY <1>3, <1>5, <1>6, <1>7 DEF u, a

\* A restart of the server reads every type of model again.
LEMMA RereadIs ==
  ASSUME NEW t, IsTable(t), NEW foreign
  PROVE  /\ IsTable(Reread(t, foreign))
         /\ NamesOf(Reread(t, foreign)) = NamesOf(t)
         /\ \A e \in Entries(t) : e.is # "empty" =>
              \E f \in Entries(Reread(t, foreign)) : f.name = e.name /\ f.is # "empty"
<1> DEFINE u == Reread(t, foreign)
           n == Len(t)
<1>1. t \in Seq(Resources) /\ n \in Nat /\ DOMAIN t = 1..n
  BY DEF IsTable
<1>2. \A i \in 1..n : t[i] \in Resources
  BY <1>1, TableIs
<1>3. ASSUME NEW i \in 1..n
      PROVE  /\ u[i] \in Resources /\ u[i].name = t[i].name
             /\ t[i].is # "empty" => u[i].is # "empty"
  <2>1. u[i] = IF t[i].is = "empty" THEN t[i]
               ELSE [t[i] EXCEPT !.is = IF t[i].name \in foreign THEN "foreign" ELSE "whole"]
    BY <1>1 DEF Reread
  <2> QED BY <1>2, <2>1 DEF Resources, Stored
<1>4. DOMAIN u = 1..n
  BY <1>1 DEF Reread
<1>5. u = [i \in 1..n |-> u[i]]
  BY <1>1 DEF Reread
<1> HIDE DEF u, n
<1>6. u \in Seq(Resources)
  BY <1>1, <1>3, <1>4, <1>5, IsASeq
<1>7. IsTable(u)
  <2>1. \A i, j \in 1..n : t[i].name = t[j].name => i = j
    BY <1>1 DEF IsTable
  <2> QED BY <1>3, <1>4, <1>6, <2>1 DEF IsTable
<1>8. NamesOf(u) = NamesOf(t)
  BY <1>1, <1>3, <1>4 DEF NamesOf
<1>9. ASSUME NEW e \in Entries(t), e.is # "empty"
      PROVE  \E f \in Entries(u) : f.name = e.name /\ f.is # "empty"
  <2>1. PICK i \in 1..n : t[i] = e
    BY <1>1 DEF Entries
  <2>2. u[i] \in Entries(u)
    BY <1>4 DEF Entries
  <2> QED BY <1>3, <1>9, <2>1, <2>2
<1> QED BY <1>7, <1>8, <1>9 DEF u

-----------------------------------------------------------------------------
(* The inductive invariant                                                   *)

KindInv == kind \in Kinds /\ query \in Queries

TableInv ==
  /\ IsTable(table)
  /\ stale \subseteq Names /\ promised \subseteq Names
  /\ changes \in 0..MaxChanges

HistoryInv ==
  /\ client \in [page: Nat, done: BOOLEAN]
  /\ seen \in [once: SUBSET Names, twice: SUBSET Names, fell: SUBSET Names,
               rose: SUBSET Names, always: SUBSET Names, steady: SUBSET Names,
               torn: BOOLEAN]

\* The request under way: what it has left to do, and that the directory which
\* rmtree has emptied is there until rmtree removes it.
Requests ==
  {Idle} \cup [on: {"create"}, name: Names, value: Values]
         \cup [on: {"delete", "rmdir", "pop"}, names: Seq(Names) \ {<<>>}]
         \cup [on: {"full"}]

HttpInv ==
  /\ http \in Requests
  /\ http.on \in {"create", "delete", "rmdir"} => kind \in Disk
  /\ http.on = "rmdir" => Head(http.names) \in NamesOf(table)
  /\ http.on = "pop" => kind \in {"buckets", "scheduled"}

SaverInv ==
  \/ saver = Idle
  \/ /\ kind = "models"
     /\ saver \in [on: {"dir", "settings", "checkpoint"}, name: Names, value: Values]

\* Nobody but the timer removes a job: what it is about to forget is there.
TimerInv ==
  \/ timer = Idle
  \/ kind = "jobs" /\ timer \in [on: {"scan"}, size: Nat]
  \/ /\ kind = "jobs" /\ timer \in [on: {"forget"}, expired: SUBSET Names]
     /\ timer.expired \subseteq NamesOf(table)

\* What was promised is there and has its files.
PromiseInv ==
  /\ kind \in Memory => promised = {}
  /\ \A n \in promised : \E e \in Entries(table) : e.name = n /\ e.is # "empty"

\* What a walk found at its beginning and is there still has been taken, or is
\* on the way.  The iterator of the jobs goes on only if no job was removed.
Walks == [on: {"list", "get"}, todo: Seq(Names), size: Nat, out: Seq(Resources)]

WalkInv ==
  /\ walk \in {Idle, Failed} \cup Walks
  /\ seen.steady \subseteq WholeNames(table)
  /\ Walking => seen.steady \subseteq NamesOf(walk.out) \cup ToSet(walk.todo)
  /\ kind = "jobs" /\ walk.on = "list" =>
       /\ Len(table) <= walk.size
       /\ Len(table) = walk.size => ToSet(walk.todo) \subseteq NamesOf(table)

Inv == KindInv /\ TableInv /\ HistoryInv /\ HttpInv /\ SaverInv /\ TimerInv
         /\ PromiseInv /\ WalkInv

-----------------------------------------------------------------------------
\* How a table that becomes another one leaves the histories and the walks.

LEMMA BecomesIs ==
  ASSUME HistoryInv, NEW t, Becomes(t)
  PROVE  /\ table' = t
         /\ seen' \in [once: SUBSET Names, twice: SUBSET Names, fell: SUBSET Names,
                       rose: SUBSET Names, always: SUBSET Names, steady: SUBSET Names,
                       torn: BOOLEAN]
         /\ seen'.steady = seen.steady \cap WholeNames(t)
<1> DEFINE fallen == {n \in Reading : Place(t, n) < Place(table, n)}
           risen == {n \in Reading : Place(t, n) > Place(table, n)}
           tears == walk.on = "list" /\ \E i \in DOMAIN table, j \in DOMAIN t :
                       t[j].name = table[i].name /\ t[j].value # table[i].value
           whole == WholeNames(t)
<1>1. /\ table' = t
      /\ seen' = [seen EXCEPT !.fell = @ \cup fallen, !.rose = @ \cup risen,
                    !.always = IF client.done THEN @ ELSE @ \cap whole,
                    !.steady = @ \cap whole, !.torn = @ \/ tears]
  BY DEF Becomes
<1>2. fallen \subseteq Names /\ risen \subseteq Names
  BY DEF Reading
<1>3. tears \in BOOLEAN
  OBVIOUS
<1> HIDE DEF fallen, risen, tears, whole
<1>4. (seen.torn \/ tears) \in BOOLEAN
  BY <1>3
<1>5. seen' \in [once: SUBSET Names, twice: SUBSET Names, fell: SUBSET Names,
                 rose: SUBSET Names, always: SUBSET Names, steady: SUBSET Names,
                 torn: BOOLEAN]
  BY <1>1, <1>2, <1>4 DEF HistoryInv
<1>6. seen'.steady = seen.steady \cap whole
  BY <1>1 DEF HistoryInv
<1> QED BY <1>1, <1>5, <1>6 DEF whole

\* Of jobs, a walk bears changes and removals.
LEMMA WalkKept ==
  ASSUME Inv, NEW t, IsTable(t), Becomes(t), walk' = walk, kind' = kind,
         kind = "jobs" => \/ ~Walking
                          \/ Len(t) < Len(table)
                          \/ Len(t) = Len(table) /\ NamesOf(t) = NamesOf(table)
  PROVE  WalkInv'
<1>1. table' = t /\ seen'.steady = seen.steady \cap WholeNames(t)
  BY BecomesIs DEF Inv
<1>2. Walking' = Walking
  BY DEF Walking
<1>3. walk' \in {Idle, Failed} \cup Walks
  BY DEF Inv, WalkInv
<1>4. seen'.steady \subseteq WholeNames(table')
  BY <1>1
<1>5. Walking => seen'.steady \subseteq NamesOf(walk.out) \cup ToSet(walk.todo)
  BY <1>1 DEF Inv, WalkInv
<1>6. ASSUME kind = "jobs", walk.on = "list"
      PROVE  /\ Len(t) <= walk.size
             /\ Len(t) = walk.size => ToSet(walk.todo) \subseteq NamesOf(t)
  <2>1. Walking
    BY <1>6 DEF Walking
  <2>2. walk.size \in Nat
    BY <1>6 DEF Inv, WalkInv, Walks, Idle, Failed
  <2>3. Len(t) \in Nat /\ Len(table) \in Nat
    BY TableIs DEF Inv, TableInv
  <2>4. /\ Len(table) <= walk.size
        /\ Len(table) = walk.size => ToSet(walk.todo) \subseteq NamesOf(table)
    BY <1>6 DEF Inv, WalkInv
  <2> QED BY <1>6, <2>1, <2>2, <2>3, <2>4
<1> QED BY <1>1, <1>2, <1>3, <1>4, <1>5, <1>6 DEF WalkInv

\* An entry with its files is put.
LEMMA PutStep ==
  ASSUME Inv, NEW e \in Resources, e.is # "empty", Becomes(Put(table, e)),
         walk' = walk, kind' = kind, kind = "jobs" => e.name \in NamesOf(table)
  PROVE  /\ IsTable(table') /\ WalkInv'
         /\ NamesOf(table') = NamesOf(table) \cup {e.name}
         /\ \A n \in promised \cup {e.name} :
              \E f \in Entries(table') : f.name = n /\ f.is # "empty"
<1>1. IsTable(table)
  BY DEF Inv, TableInv
<1>2. /\ IsTable(Put(table, e))
      /\ Entries(Put(table, e)) = {f \in Entries(table) : f.name # e.name} \cup {e}
  BY <1>1, PutIs
<1>3. table' = Put(table, e)
  BY BecomesIs DEF Inv
<1>4. NamesOf(table') = NamesOf(table) \cup {e.name}
  <2>1. /\ NamesOf(table') = {f.name : f \in Entries(table')}
        /\ NamesOf(table) = {f.name : f \in Entries(table)}
    BY <1>1, <1>2, <1>3, TableIs
  <2> QED BY <1>2, <1>3, <2>1
<1>5. ASSUME NEW n \in promised \cup {e.name}
      PROVE  \E f \in Entries(table') : f.name = n /\ f.is # "empty"
  BY <1>2, <1>3 DEF Inv, PromiseInv
<1>6. kind = "jobs" => Len(table') = Len(table) /\ NamesOf(table') = NamesOf(table)
  BY <1>1, <1>3, <1>4, Replaced DEF Put
<1>7. WalkInv'
  BY <1>2, <1>3, <1>6, WalkKept
<1> QED BY <1>2, <1>3, <1>4, <1>5, <1>7

\* An entry is added.
LEMMA InsertStep ==
  ASSUME Inv, NEW e \in Resources, e.name \notin NamesOf(table),
         Becomes(Insert(table, e)), walk' = walk, kind' = kind,
         kind = "jobs" => ~Walking
  PROVE  /\ IsTable(table') /\ WalkInv'
         /\ NamesOf(table') = NamesOf(table) \cup {e.name}
         /\ \A n \in promised : \E f \in Entries(table') : f.name = n /\ f.is # "empty"
<1>1. IsTable(table)
  BY DEF Inv, TableInv
<1>2. /\ IsTable(Insert(table, e))
      /\ Entries(Insert(table, e)) = Entries(table) \cup {e}
  BY <1>1, Inserted
<1>3. table' = Insert(table, e)
  BY BecomesIs DEF Inv
<1>4. NamesOf(table') = NamesOf(table) \cup {e.name}
  <2>1. /\ NamesOf(table') = {f.name : f \in Entries(table')}
        /\ NamesOf(table) = {f.name : f \in Entries(table)}
    BY <1>1, <1>2, <1>3, TableIs
  <2> QED BY <1>2, <1>3, <2>1
<1>5. \A n \in promised : \E f \in Entries(table') : f.name = n /\ f.is # "empty"
  BY <1>2, <1>3 DEF Inv, PromiseInv
<1>6. WalkInv'
  BY <1>2, <1>3, WalkKept
<1> QED BY <1>2, <1>3, <1>4, <1>5, <1>6

\* An entry is removed.
LEMMA RemoveStep ==
  ASSUME Inv, NEW n \in NamesOf(table), Becomes(Without(table, n)),
         walk' = walk, kind' = kind
  PROVE  /\ IsTable(table') /\ WalkInv'
         /\ NamesOf(table') = NamesOf(table) \ {n}
         /\ \A m \in promised \ {n} :
              \E f \in Entries(table') : f.name = m /\ f.is # "empty"
<1>1. IsTable(table)
  BY DEF Inv, TableInv
<1>2. /\ IsTable(Without(table, n)) /\ Len(Without(table, n)) = Len(table) - 1
      /\ Entries(Without(table, n)) = {f \in Entries(table) : f.name # n}
  BY <1>1, WithoutIs
<1>3. table' = Without(table, n)
  BY BecomesIs DEF Inv
<1>4. NamesOf(table') = NamesOf(table) \ {n}
  <2>1. /\ NamesOf(table') = {f.name : f \in Entries(table')}
        /\ NamesOf(table) = {f.name : f \in Entries(table)}
    BY <1>1, <1>2, <1>3, TableIs
  <2> QED BY <1>2, <1>3, <2>1
<1>5. \A m \in promised \ {n} : \E f \in Entries(table') : f.name = m /\ f.is # "empty"
  BY <1>2, <1>3 DEF Inv, PromiseInv
<1>6. Len(Without(table, n)) < Len(table)
  BY <1>1, <1>2, TableIs
<1>7. WalkInv'
  BY <1>2, <1>6, WalkKept
<1> QED BY <1>2, <1>3, <1>4, <1>5, <1>7

-----------------------------------------------------------------------------
(* Every step keeps the invariant                                            *)

\* A server starts with a table whose entries can be read.
LEMMA AtStartIs ==
  ASSUME NEW t \in AtStart
  PROVE  IsTable(t) /\ \A e \in Entries(t) : e.is = "whole"
<1>1. CASE t = <<>>
  BY <1>1, EmptyTable
<1>2. CASE t \in Configured
  <2> DEFINE S == [name: Names, value: Values, is: {"whole"}]
  <2>1. PICK m \in Nat : t \in [1..m -> S]
    BY <1>2 DEF Configured, SeqOf
  <2>2. \A i, j \in DOMAIN t : i < j => t[i].name < t[j].name
    BY <1>2 DEF Configured
  <2>3. S \subseteq Resources
    BY DEF Resources, Stored
  <2>4. DOMAIN t = 1..m /\ \A i \in 1..m : t[i] \in S /\ t[i].is = "whole"
    BY <2>1
  <2>5. t \in Seq(Resources)
    BY <2>3, <2>4, <2>1
  <2>6. \A i \in 1..m : t[i].name \in Int
    BY <2>4, OrderAssumption
  <2>7. ASSUME NEW i \in 1..m, NEW j \in 1..m, t[i].name = t[j].name PROVE i = j
    <3>1. ~(i < j) /\ ~(j < i)
      BY <2>2, <2>4, <2>6, <2>7
    <3> QED BY <3>1
  <2>8. IsTable(t)
    BY <2>4, <2>5, <2>7 DEF IsTable
  <2> QED BY <2>4, <2>8 DEF Entries
<1> QED BY <1>1, <1>2 DEF AtStart

LEMMA InitInv == Init => Inv
<1> SUFFICES ASSUME Init PROVE Inv
  OBVIOUS
<1>1. IsTable(table)
  BY AtStartIs DEF Init
<1>2. KindInv /\ HistoryInv
  BY DEF Init, KindInv, HistoryInv
<1>3. TableInv
  BY <1>1, ListingBounds DEF Init, TableInv
<1>4. HttpInv
  BY DEF Init, HttpInv, Requests, Idle
<1>5. SaverInv /\ TimerInv /\ PromiseInv
  BY DEF Init, SaverInv, TimerInv, PromiseInv
<1>6. WalkInv
  BY DEF Init, WalkInv, Walking, Idle
<1> QED BY <1>2, <1>3, <1>4, <1>5, <1>6 DEF Inv

\* What does not depend on the table.
LEMMA SameKind ==
  ASSUME Inv, UNCHANGED otherVars
  PROVE  KindInv' /\ kind' = kind
BY DEF Inv, KindInv, otherVars

LEMMA SameSaver ==
  ASSUME Inv, kind' = kind, saver' = saver
  PROVE  SaverInv'
BY DEF Inv, SaverInv

\* The timer is at work on jobs alone, and no request removes one.
LEMMA SameTimer ==
  ASSUME Inv, kind' = kind, timer' = timer,
         kind = "jobs" => NamesOf(table) \subseteq NamesOf(table')
  PROVE  TimerInv'
BY DEF Inv, TimerInv

LEMMA SameHttp ==
  ASSUME Inv, kind' = kind, http' = http,
         http.on = "rmdir" => NamesOf(table) \subseteq NamesOf(table')
  PROVE  HttpInv'
BY DEF Inv, HttpInv

LEMMA SameHistory ==
  ASSUME Inv, NEW t, Becomes(t), client' = client
  PROVE  HistoryInv'
<1>1. HistoryInv
  BY DEF Inv
<1> QED BY <1>1, BecomesIs DEF HistoryInv

LEMMA CountedIs ==
  ASSUME Inv, Counted
  PROVE  changes' \in 0..MaxChanges
BY ListingBounds DEF Inv, TableInv, Counted

LEMMA EntryOf ==
  ASSUME NEW n \in Names, NEW v \in Values
  PROVE  /\ Entry(n, v) \in Resources /\ Entry(n, v).name = n
         /\ Entry(n, v).is # "empty"
         /\ [name |-> n, value |-> v, is |-> "empty"] \in Resources
BY DEF Entry, Resources, Stored

LEMMA CreateKeeps ==
  ASSUME Inv, NEW n \in Names, NEW v \in Values, CreateDir(n, v) \/ Patch(n, v)
  PROVE  Inv'
<1> DEFINE e == [name |-> n, value |-> v, is |-> "empty"]
<1>1. /\ kind \in Disk /\ Counted /\ http = Idle
      /\ http' = [on |-> "create", name |-> n, value |-> v]
      /\ UNCHANGED <<otherVars, stale, walkVars, timer, saver, promised>>
  BY DEF CreateDir, Patch, Free, Disk
<1>2. \/ n \notin NamesOf(table) /\ Becomes(Insert(table, e))
      \/ UNCHANGED tableVars
  BY DEF CreateDir, Patch
<1>3. e \in Resources /\ e.name = n
  BY EntryOf
<1> HIDE DEF e
<1>4. KindInv' /\ kind' = kind /\ SaverInv' /\ walk' = walk /\ client' = client
  BY <1>1, SameKind, SameSaver DEF walkVars
<1>5. /\ IsTable(table') /\ WalkInv' /\ HistoryInv'
      /\ \A m \in promised : \E f \in Entries(table') : f.name = m /\ f.is # "empty"
  <2>1. CASE n \notin NamesOf(table) /\ Becomes(Insert(table, e))
    <3>1. kind # "jobs"
      BY <1>1 DEF Disk
    <3> QED BY <2>1, <3>1, <1>3, <1>4, InsertStep, SameHistory
  <2>2. CASE UNCHANGED tableVars
    <3>1. table' = table /\ seen' = seen
      BY <2>2 DEF tableVars
    <3> QED BY <3>1, <1>4 DEF Inv, TableInv, WalkInv, Walking, HistoryInv, PromiseInv
  <2> QED BY <1>2, <2>1, <2>2
<1>6. TableInv'
  BY <1>1, <1>5, CountedIs DEF Inv, TableInv
<1>7. HttpInv'
  BY <1>1, <1>4 DEF HttpInv, Requests
<1>8. TimerInv'
  BY <1>1, <1>4, SameTimer DEF Disk
<1>9. PromiseInv'
  BY <1>1, <1>4, <1>5 DEF Inv, PromiseInv
<1> QED BY <1>4, <1>5, <1>6, <1>7, <1>8, <1>9 DEF Inv

LEMMA WriteKeeps ==
  ASSUME Inv, WriteSettings
  PROVE  Inv'
<1> DEFINE e == Entry(http.name, http.value)
<1>1. /\ http.on = "create" /\ http' = Idle
      /\ Becomes(Put(table, e))
      /\ promised' = promised \cup {http.name}
      /\ UNCHANGED <<otherVars, stale, walkVars, timer, saver, changes>>
  BY DEF WriteSettings
<1>2. kind \in Disk /\ http.name \in Names /\ http.value \in Values
  BY <1>1 DEF Inv, HttpInv, Requests, Idle
<1>3. e \in Resources /\ e.name = http.name /\ e.is # "empty"
  BY <1>2, EntryOf
<1> HIDE DEF e
<1>4. KindInv' /\ kind' = kind /\ SaverInv' /\ walk' = walk /\ client' = client
  BY <1>1, SameKind, SameSaver DEF walkVars
<1>5. /\ IsTable(table') /\ WalkInv' /\ HistoryInv'
      /\ NamesOf(table') = NamesOf(table) \cup {http.name}
      /\ \A m \in promised' : \E f \in Entries(table') : f.name = m /\ f.is # "empty"
  <2>1. kind # "jobs"
    BY <1>2 DEF Disk
  <2> QED BY <1>1, <1>3, <1>4, <2>1, PutStep, SameHistory
<1>6. TableInv'
  BY <1>1, <1>2, <1>5 DEF Inv, TableInv
<1>7. HttpInv'
  BY <1>1 DEF HttpInv, Requests, Idle
<1>8. TimerInv'
  BY <1>1, <1>4, <1>5, SameTimer
<1>9. PromiseInv'
  BY <1>2, <1>4, <1>5 DEF PromiseInv, Disk, Memory
<1> QED BY <1>4, <1>5, <1>6, <1>7, <1>8, <1>9 DEF Inv

LEMMA RegisterKeeps ==
  ASSUME Inv, NEW n \in Names, NEW v \in Values, RegisterJob(n, v)
  PROVE  Inv'
<1> DEFINE e == Entry(n, v)
<1>1. /\ kind = "jobs" /\ Free /\ Counted /\ n \notin NamesOf(table)
      /\ Becomes(Append(table, e))
      /\ UNCHANGED <<otherVars, stale, http, walkVars, timer, saver, promised>>
  BY DEF RegisterJob
<1>2. e \in Resources /\ e.name = n
  BY EntryOf
<1> HIDE DEF e
<1>3. Append(table, e) = Insert(table, e)
  BY <1>1 DEF Insert, Disk
<1>4. KindInv' /\ kind' = kind /\ SaverInv' /\ walk' = walk /\ client' = client
  BY <1>1, SameKind, SameSaver DEF walkVars
<1>5. /\ IsTable(table') /\ WalkInv' /\ HistoryInv'
      /\ NamesOf(table') = NamesOf(table) \cup {n}
      /\ \A m \in promised : \E f \in Entries(table') : f.name = m /\ f.is # "empty"
  <2>1. ~Walking
    BY <1>1 DEF Free
  <2> QED BY <1>1, <1>2, <1>3, <1>4, <2>1, InsertStep, SameHistory
<1>6. TableInv'
  BY <1>1, <1>5, CountedIs DEF Inv, TableInv
<1>7. HttpInv' /\ TimerInv'
  BY <1>1, <1>4, <1>5, SameHttp, SameTimer
<1>8. PromiseInv'
  BY <1>1, <1>4, <1>5 DEF Inv, PromiseInv
<1> QED BY <1>4, <1>5, <1>6, <1>7, <1>8 DEF Inv

\* Changes of a job, of the entries of dictionaries and of hooks.
LEMMA SetKeeps ==
  ASSUME Inv, NEW n \in Names, NEW v \in Values,
         ChangeJob(n, v) \/ PutBucket(n, v) \/ PutScheduled(n, v) \/ SetHook(n, v)
  PROVE  Inv'
<1> DEFINE e == Entry(n, v)
<1>1. /\ Counted /\ Becomes(Put(table, e))
      /\ UNCHANGED <<otherVars, stale, http, walkVars, timer, saver>>
      /\ kind = "jobs" => n \in NamesOf(table)
  BY DEF ChangeJob, PutBucket, PutScheduled, SetHook
<1>2. e \in Resources /\ e.name = n /\ e.is # "empty"
  BY EntryOf
<1> HIDE DEF e
<1>3. promised' = promised \/ (kind = "hooks" /\ promised' = promised \cup {n})
  BY DEF ChangeJob, PutBucket, PutScheduled, SetHook
<1>4. KindInv' /\ kind' = kind /\ SaverInv' /\ walk' = walk /\ client' = client
  BY <1>1, SameKind, SameSaver DEF walkVars
<1>5. /\ IsTable(table') /\ WalkInv' /\ HistoryInv'
      /\ NamesOf(table') = NamesOf(table) \cup {n}
      /\ \A m \in promised \cup {n} :
           \E f \in Entries(table') : f.name = m /\ f.is # "empty"
  BY <1>1, <1>2, <1>4, PutStep, SameHistory
<1>6. TableInv'
  BY <1>1, <1>3, <1>5, CountedIs DEF Inv, TableInv
<1>7. HttpInv' /\ TimerInv'
  BY <1>1, <1>4, <1>5, SameHttp, SameTimer
<1>8. PromiseInv'
  <2>1. \A m \in promised' : \E f \in Entries(table') : f.name = m /\ f.is # "empty"
    BY <1>3, <1>5
  <2>2. kind \in Memory => promised' = {}
    BY <1>3 DEF Inv, PromiseInv, Memory
  <2> QED BY <1>4, <2>1, <2>2 DEF PromiseInv
<1> QED BY <1>4, <1>5, <1>6, <1>7, <1>8 DEF Inv

\* Several names of one request.
LEMMA BatchIs == \A ns \in Batches : ns \in Seq(Names) /\ ns # <<>>
<1> SUFFICES ASSUME NEW ns \in Batches PROVE ns \in Seq(Names)
  BY DEF Batches
<1>1. PICK m \in 0..2 : ns \in [1..m -> Names]
  BY DEF Batches, SeqOf
<1> QED BY <1>1

LEMMA NamesLeft ==
  ASSUME NEW ns \in Seq(Names), ns # <<>>
  PROVE  /\ Head(ns) \in Names /\ Tail(ns) \in Seq(Names)
         /\ ToSet(ns) = {Head(ns)} \cup ToSet(Tail(ns))
<1> DEFINE r == Tail(ns)
           n == Len(ns)
<1>1. /\ n \in Nat /\ n >= 1 /\ DOMAIN ns = 1..n /\ Head(ns) = ns[1]
      /\ \A i \in 1..n : ns[i] \in Names
  BY ElementOfSeq
<1>2. /\ r \in Seq(Names) /\ Len(r) = n - 1
      /\ \A i \in 1..(n - 1) : r[i] = ns[i + 1]
  BY HeadTailProperties
<1> HIDE DEF r, n
<1>3. DOMAIN r = 1..(n - 1)
  BY <1>2
<1>4. ASSUME NEW i \in 1..n PROVE ns[i] \in {ns[1]} \cup ToSet(r)
  <2>1. CASE i = 1
    BY <2>1
  <2>2. CASE i # 1
    <3>1. i - 1 \in 1..(n - 1) /\ r[i - 1] = ns[i]
      BY <1>1, <1>2, <2>2
    <3> QED BY <1>3, <3>1 DEF ToSet
  <2> QED BY <2>1, <2>2
<1>5. ASSUME NEW i \in 1..(n - 1) PROVE r[i] \in ToSet(ns)
  <2>1. i + 1 \in DOMAIN ns /\ r[i] = ns[i + 1]
    BY <1>1, <1>2
  <2> QED BY <2>1 DEF ToSet
<1>6. ns[1] \in ToSet(ns)
  BY <1>1 DEF ToSet
<1>7. ToSet(ns) = {ns[i] : i \in 1..n} /\ ToSet(r) = {r[i] : i \in 1..(n - 1)}
  BY <1>1, <1>3 DEF ToSet
<1>8. ToSet(ns) = {ns[1]} \cup ToSet(r)
  BY <1>4, <1>5, <1>6, <1>7
<1> QED BY <1>1, <1>2, <1>8 DEF r

\* The table and its histories stay.
LEMMA SameTable ==
  ASSUME Inv, UNCHANGED tableVars, kind' = kind, client' = client
  PROVE  /\ table' = table /\ seen' = seen /\ IsTable(table') /\ HistoryInv'
         /\ walk' = walk => WalkInv'
<1>1. table' = table /\ seen' = seen
  BY DEF tableVars
<1>2. IsTable(table') /\ HistoryInv'
  BY <1>1 DEF Inv, TableInv, HistoryInv
<1>3. walk' = walk => WalkInv'
  BY <1>1 DEF Inv, WalkInv, Walking
<1> QED BY <1>1, <1>2, <1>3

LEMMA BeginDeleteKeeps ==
  ASSUME Inv, NEW ns \in Batches, Delete(ns) \/ DeleteEntries(ns)
  PROVE  Inv'
<1>1. /\ Counted
      /\ UNCHANGED <<otherVars, tableVars, stale, walkVars, timer, saver, promised>>
  BY DEF Delete, DeleteEntries
<1>2. ns \in Seq(Names) \ {<<>>}
  BY BatchIs
<1>3. KindInv' /\ kind' = kind /\ SaverInv' /\ walk' = walk /\ client' = client
  BY <1>1, SameKind, SameSaver DEF walkVars
<1>4. /\ table' = table /\ seen' = seen /\ IsTable(table') /\ HistoryInv' /\ WalkInv'
  BY <1>1, <1>3, SameTable
<1>5. TableInv'
  BY <1>1, <1>4, CountedIs DEF Inv, TableInv
<1>6. HttpInv'
  <2>1. CASE Delete(ns)
    <3>1. http' = [on |-> "delete", names |-> ns] /\ kind \in Disk
      BY <2>1 DEF Delete
    <3> QED BY <1>2, <1>3, <3>1 DEF HttpInv, Requests
  <2>2. CASE DeleteEntries(ns)
    <3>1. http' = [on |-> "pop", names |-> ns] /\ kind \in {"buckets", "scheduled"}
      BY <2>2 DEF DeleteEntries
    <3> QED BY <1>2, <1>3, <3>1 DEF HttpInv, Requests
  <2> QED BY <2>1, <2>2
<1>7. TimerInv' /\ PromiseInv'
  BY <1>1, <1>3, <1>4, SameTimer DEF Inv, PromiseInv
<1> QED BY <1>3, <1>4, <1>5, <1>6, <1>7 DEF Inv

LEMMA RemoveFilesKeeps ==
  ASSUME Inv, RemoveFiles
  PROVE  Inv'
<1> DEFINE n == Head(http.names)
           u == [table EXCEPT ![At(table, n)].is = "empty"]
<1>1. /\ http.on = "delete"
      /\ UNCHANGED <<otherVars, stale, walkVars, timer, saver, changes>>
      /\ \/ /\ n \in NamesOf(table) /\ Becomes(u) /\ promised' = promised \ {n}
            /\ http' = [http EXCEPT !.on = "rmdir"]
         \/ http' = Idle /\ UNCHANGED tableVars /\ promised' = promised
  BY DEF RemoveFiles
<1>2. kind \in Disk /\ http.names \in Seq(Names) /\ http.names # <<>>
  BY <1>1 DEF Inv, HttpInv, Requests, Idle
<1>3. KindInv' /\ kind' = kind /\ SaverInv' /\ walk' = walk /\ client' = client
  BY <1>1, SameKind, SameSaver DEF walkVars
<1>4. IsTable(table) /\ kind # "jobs"
  BY <1>2 DEF Inv, TableInv, Disk
<1>5. CASE /\ n \in NamesOf(table) /\ Becomes(u) /\ promised' = promised \ {n}
           /\ http' = [http EXCEPT !.on = "rmdir"]
  <2>1. /\ IsTable(u) /\ NamesOf(u) = NamesOf(table)
        /\ \A f \in Entries(table) : f.name # n => f \in Entries(u)
    BY <1>4, <1>5, EmptiedIs
  <2>2. table' = u /\ HistoryInv'
    BY <1>3, <1>5, BecomesIs, SameHistory DEF Inv
  <2>3. WalkInv'
    BY <1>3, <1>4, <1>5, <2>1, WalkKept
  <2> HIDE DEF u, n
  <2>4. TableInv'
    BY <1>1, <1>5, <2>1, <2>2 DEF Inv, TableInv
  <2>5. HttpInv'
    <3>1. http \in [on: {"delete", "rmdir", "pop"}, names: Seq(Names) \ {<<>>}]
      BY <1>1 DEF Inv, HttpInv, Requests, Idle
    <3>2. /\ http'.on = "rmdir" /\ http'.names = http.names
          /\ http' \in [on: {"delete", "rmdir", "pop"}, names: Seq(Names) \ {<<>>}]
      BY <1>5, <3>1
    <3> QED BY <1>2, <1>3, <1>5, <2>1, <2>2, <3>2 DEF HttpInv, Requests, n
  <2>6. TimerInv'
    BY <1>1, <1>3, <1>4, SameTimer
  <2>7. PromiseInv'
    BY <1>3, <1>5, <2>1, <2>2 DEF Inv, PromiseInv
  <2> QED BY <1>3, <2>2, <2>3, <2>4, <2>5, <2>6, <2>7 DEF Inv
<1>6. CASE http' = Idle /\ UNCHANGED tableVars /\ promised' = promised
  <2>1. /\ table' = table /\ IsTable(table') /\ HistoryInv' /\ WalkInv'
    BY <1>3, <1>6, SameTable
  <2>2. TableInv' /\ PromiseInv'
    BY <1>1, <1>3, <1>6, <2>1 DEF Inv, TableInv, PromiseInv
  <2>3. HttpInv'
    BY <1>6 DEF HttpInv, Requests, Idle
  <2>4. TimerInv'
    BY <1>1, <1>3, <1>4, SameTimer
  <2> QED BY <1>3, <2>1, <2>2, <2>3, <2>4 DEF Inv
<1> QED BY <1>1, <1>5, <1>6

LEMMA RemoveDirKeeps ==
  ASSUME Inv, RemoveDir
  PROVE  Inv'
<1> DEFINE n == Head(http.names)
           rest == Tail(http.names)
<1>1. /\ http.on = "rmdir"
      /\ UNCHANGED <<otherVars, stale, walkVars, timer, saver, promised, changes>>
      /\ \/ /\ table[At(table, n)].is = "empty" /\ Becomes(Without(table, n))
            /\ http' = IF rest = <<>> THEN Idle ELSE [on |-> "delete", names |-> rest]
         \/ http' = Idle /\ UNCHANGED tableVars
  BY DEF RemoveDir
<1>2. kind \in Disk /\ http.names \in Seq(Names) /\ http.names # <<>>
      /\ n \in NamesOf(table)
  BY <1>1 DEF Inv, HttpInv, Requests, Idle
<1>3. KindInv' /\ kind' = kind /\ SaverInv' /\ walk' = walk /\ client' = client
  BY <1>1, SameKind, SameSaver DEF walkVars
<1>4. IsTable(table) /\ kind # "jobs"
  BY <1>2 DEF Inv, TableInv, Disk
<1>5. HttpInv'
  <2>1. rest \in Seq(Names)
    BY <1>2, NamesLeft
  <2> HIDE DEF rest
  <2>2. http' = Idle \/ (rest # <<>> /\ http' = [on |-> "delete", names |-> rest])
    BY <1>1
  <2> QED BY <1>2, <1>3, <2>1, <2>2 DEF HttpInv, Requests, Idle
<1> HIDE DEF n, rest
<1>6. TimerInv'
  BY <1>1, <1>3, <1>4, SameTimer
<1>7. CASE table[At(table, n)].is = "empty" /\ Becomes(Without(table, n))
  <2>1. /\ IsTable(table') /\ WalkInv' /\ HistoryInv'
        /\ \A m \in promised \ {n} :
             \E f \in Entries(table') : f.name = m /\ f.is # "empty"
    BY <1>2, <1>3, <1>7, RemoveStep, SameHistory
  <2>2. n \notin promised
    <3>1. ASSUME NEW e \in Entries(table), e.name = n PROVE e.is = "empty"
      BY <1>4, <1>7, <3>1, EntryIs
    <3> QED BY <3>1 DEF Inv, PromiseInv
  <2>3. TableInv' /\ PromiseInv'
    BY <1>1, <1>3, <2>1, <2>2 DEF Inv, TableInv, PromiseInv
  <2> QED BY <1>3, <1>5, <1>6, <2>1, <2>3 DEF Inv
<1>8. CASE UNCHANGED tableVars
  <2>1. /\ table' = table /\ IsTable(table') /\ HistoryInv' /\ WalkInv'
    BY <1>3, <1>8, SameTable
  <2>2. TableInv' /\ PromiseInv'
    BY <1>1, <1>3, <2>1 DEF Inv, TableInv, PromiseInv
  <2> QED BY <1>3, <1>5, <1>6, <2>1, <2>2 DEF Inv
<1> QED BY <1>1, <1>7, <1>8

LEMMA RemoveEntryKeeps ==
  ASSUME Inv, RemoveEntry
  PROVE  Inv'
<1> DEFINE n == Head(http.names)
           rest == Tail(http.names)
<1>1. /\ http.on = "pop"
      /\ UNCHANGED <<otherVars, stale, walkVars, timer, saver, promised, changes>>
      /\ \/ n \in NamesOf(table) /\ Becomes(Without(table, n))
         \/ UNCHANGED tableVars
      /\ http' = Idle \/ (rest # <<>> /\ http' = [on |-> "pop", names |-> rest])
  BY DEF RemoveEntry
<1>2. /\ kind \in {"buckets", "scheduled"}
      /\ http.names \in Seq(Names) /\ http.names # <<>>
  BY <1>1 DEF Inv, HttpInv, Requests, Idle
<1>3. KindInv' /\ kind' = kind /\ SaverInv' /\ walk' = walk /\ client' = client
  BY <1>1, SameKind, SameSaver DEF walkVars
<1>4. HttpInv'
  <2>1. rest \in Seq(Names)
    BY <1>2, NamesLeft
  <2> HIDE DEF rest
  <2> QED BY <1>1, <1>2, <1>3, <2>1 DEF HttpInv, Requests, Idle
<1> HIDE DEF n, rest
<1>5. TimerInv'
  BY <1>1, <1>2, <1>3, SameTimer
<1>6. promised = {} /\ promised' = {}
  BY <1>1, <1>2 DEF Inv, PromiseInv, Memory
<1>7. IsTable(table') /\ WalkInv' /\ HistoryInv'
  BY <1>1, <1>3, RemoveStep, SameHistory, SameTable
<1>8. TableInv' /\ PromiseInv'
  BY <1>1, <1>6, <1>7 DEF Inv, TableInv, PromiseInv
<1> QED BY <1>3, <1>4, <1>5, <1>7, <1>8 DEF Inv

LEMMA ClearKeeps ==
  ASSUME Inv, ClearScheduled
  PROVE  Inv'
<1>1. /\ kind = "scheduled" /\ Counted /\ Becomes(<<>>)
      /\ UNCHANGED <<otherVars, stale, http, walkVars, timer, saver, promised>>
  BY DEF ClearScheduled
<1>2. KindInv' /\ kind' = kind /\ SaverInv' /\ walk' = walk /\ client' = client
  BY <1>1, SameKind, SameSaver DEF walkVars
<1>3. table' = <<>> /\ IsTable(table') /\ HistoryInv'
  BY <1>1, <1>2, EmptyTable, BecomesIs, SameHistory DEF Inv
<1>4. WalkInv'
  BY <1>1, <1>2, EmptyTable, WalkKept
<1>5. TableInv'
  BY <1>1, <1>3, CountedIs DEF Inv, TableInv
<1>6. HttpInv' /\ TimerInv'
  <2>1. http.on # "rmdir"
    BY <1>1 DEF Inv, HttpInv, Disk
  <2> QED BY <1>1, <1>2, <2>1, SameHttp, SameTimer
<1>7. PromiseInv'
  BY <1>1, <1>2 DEF Inv, PromiseInv, Memory
<1> QED BY <1>2, <1>3, <1>4, <1>5, <1>6, <1>7 DEF Inv

LEMMA DeleteHookKeeps ==
  ASSUME Inv, NEW n \in Names, DeleteHook(n)
  PROVE  Inv'
<1>1. /\ kind = "hooks" /\ Counted /\ n \in NamesOf(table)
      /\ Becomes(Without(table, n)) /\ promised' = promised \ {n}
      /\ UNCHANGED <<otherVars, stale, http, walkVars, timer, saver>>
  BY DEF DeleteHook
<1>2. KindInv' /\ kind' = kind /\ SaverInv' /\ walk' = walk /\ client' = client
  BY <1>1, SameKind, SameSaver DEF walkVars
<1>3. /\ IsTable(table') /\ WalkInv' /\ HistoryInv'
      /\ \A m \in promised \ {n} :
           \E f \in Entries(table') : f.name = m /\ f.is # "empty"
  BY <1>1, <1>2, RemoveStep, SameHistory
<1>4. TableInv'
  BY <1>1, <1>3, CountedIs DEF Inv, TableInv
<1>5. HttpInv' /\ TimerInv'
  <2>1. http.on # "rmdir"
    BY <1>1 DEF Inv, HttpInv, Disk
  <2> QED BY <1>1, <1>2, <2>1, SameHttp, SameTimer
<1>6. PromiseInv'
  BY <1>1, <1>2, <1>3 DEF PromiseInv, Memory
<1> QED BY <1>2, <1>3, <1>4, <1>5, <1>6 DEF Inv

-----------------------------------------------------------------------------
\* The walks.

LEMMA BeginIs ==
  ASSUME Inv, NEW on \in {"list", "get"}, NEW ns \in Seq(Names), Begin(on, ns),
         NEW steady, steady \subseteq WholeNames(table),
         steady \subseteq ToSet(ns),
         kind = "jobs" => ToSet(ns) \subseteq NamesOf(table),
         seen' \in [once: SUBSET Names, twice: SUBSET Names, fell: SUBSET Names,
                    rose: SUBSET Names, always: SUBSET Names, steady: SUBSET Names,
                    torn: BOOLEAN],
         seen'.steady = steady
  PROVE  Inv'
<1>1. /\ walk' = [on |-> on, todo |-> ns, size |-> Len(table), out |-> <<>>]
      /\ UNCHANGED <<otherVars, table, stale, http, client, timer, saver, promised,
                     changes>>
  BY DEF Begin
<1>2. KindInv' /\ kind' = kind /\ SaverInv'
  BY <1>1, SameKind, SameSaver
<1>3. HistoryInv' /\ TableInv' /\ PromiseInv'
  BY <1>1, <1>2 DEF Inv, HistoryInv, TableInv, PromiseInv
<1>4. HttpInv' /\ TimerInv'
  BY <1>1, <1>2, SameHttp, SameTimer
<1>5. Len(table) \in Nat
  BY TableIs DEF Inv, TableInv
<1>6. walk' \in Walks
  BY <1>1, <1>5 DEF Walks
<1>7. WalkInv'
  BY <1>1, <1>2, <1>5, <1>6 DEF WalkInv, Walking
<1> QED BY <1>2, <1>3, <1>4, <1>7 DEF Inv

LEMMA BeginListKeeps ==
  ASSUME Inv, BeginList
  PROVE  Inv'
<1> DEFINE ns == [i \in DOMAIN table |-> table[i].name]
           now == WholeNames(table)
           n == Len(table)
<1>1. /\ Begin("list", ns)
      /\ seen' = [seen EXCEPT !.fell = IF client.page = 0 THEN {} ELSE @,
                              !.rose = IF client.page = 0 THEN {} ELSE @,
                              !.always = IF client.page = 0 THEN now ELSE @,
                              !.torn = client.page # 0 /\ @,
                              !.steady = now]
  BY DEF BeginList
<1>2. IsTable(table) /\ n \in Nat /\ DOMAIN table = 1..n
      /\ \A i \in 1..n : table[i].name \in Names
  BY TableIs DEF Inv, TableInv
<1>3. ns \in Seq(Names) /\ DOMAIN ns = 1..n
  <2>1. ns = [i \in 1..n |-> table[i].name]
    BY <1>2
  <2> QED BY <1>2, <2>1, IsASeq
<1>4. ToSet(ns) = NamesOf(table)
  <2>1. \A i \in 1..n : ns[i] = table[i].name
    BY <1>2
  <2> HIDE DEF ns
  <2> QED BY <1>2, <1>3, <2>1 DEF ToSet, NamesOf
<1>5. now \subseteq NamesOf(table) /\ now \subseteq Names
  BY <1>2, WholeIs, TableIs
<1> HIDE DEF ns, now, n
<1>6. /\ seen' \in [once: SUBSET Names, twice: SUBSET Names, fell: SUBSET Names,
                    rose: SUBSET Names, always: SUBSET Names, steady: SUBSET Names,
                    torn: BOOLEAN]
      /\ seen'.steady = now
  <2>1. (client.page # 0 /\ seen.torn) \in BOOLEAN
    OBVIOUS
  <2> QED BY <1>1, <1>5, <2>1 DEF Inv, HistoryInv
<1>7. now \subseteq WholeNames(table)
  BY DEF now
<1> QED BY <1>1, <1>3, <1>4, <1>5, <1>6, <1>7, BeginIs

LEMMA BeginGetKeeps ==
  ASSUME Inv, NEW ns \in Batches, BeginGet(ns)
  PROVE  Inv'
<1>1. PICK todo \in Batches :
        /\ IF kind \in {"jobs", "scheduled"} THEN ToSet(todo) = ToSet(ns) \cap NamesOf(table)
                                            ELSE todo = ns
        /\ Begin("get", todo)
  BY DEF BeginGet
<1> DEFINE steady == WholeNames(table) \cap ToSet(ns)
<1>2. seen' = [seen EXCEPT !.steady = steady]
  BY DEF BeginGet
<1>3. IsTable(table) /\ WholeNames(table) \subseteq NamesOf(table)
      /\ NamesOf(table) \subseteq Names
  BY WholeIs, TableIs DEF Inv, TableInv
<1>4. steady \subseteq WholeNames(table) /\ steady \subseteq ToSet(todo)
      /\ steady \subseteq Names
  BY <1>1, <1>3
<1>5. kind = "jobs" => ToSet(todo) \subseteq NamesOf(table)
  BY <1>1
<1>6. todo \in Seq(Names)
  BY BatchIs
<1> HIDE DEF steady
<1>7. /\ seen' \in [once: SUBSET Names, twice: SUBSET Names, fell: SUBSET Names,
                    rose: SUBSET Names, always: SUBSET Names, steady: SUBSET Names,
                    torn: BOOLEAN]
      /\ seen'.steady = steady
  BY <1>2, <1>4 DEF Inv, HistoryInv
<1> QED BY <1>1, <1>4, <1>5, <1>6, <1>7, BeginIs

\* What one visit may do with the next name.
LEMMA VisitIs ==
  ASSUME Inv, Visit
  PROVE  \/ walk' = Failed
         \/ /\ Head(walk.todo) \in NamesOf(table) /\ Take(Head(walk.todo))
            /\ kind \notin Memory => Head(walk.todo) \in WholeNames(table)
         \/ Head(walk.todo) \notin WholeNames(table) /\ Skip
<1> DEFINE n == Head(walk.todo)
<1>1. Walking /\ walk.todo # <<>>
  BY DEF Visit
<1>2. IsTable(table)
  BY DEF Inv, TableInv
<1>3. Is(n) = "whole" <=> n \in WholeNames(table)
  BY <1>2, WholeIs DEF Is
<1>4. n \in WholeNames(table) => n \in NamesOf(table)
  BY <1>2, WholeIs
<1>5. kind = "jobs" /\ walk.on = "list" /\ Len(table) = walk.size => n \in NamesOf(table)
  <2>1. walk \in Walks
    BY <1>1 DEF Inv, WalkInv, Walking, Idle, Failed
  <2>2. n \in ToSet(walk.todo)
    BY <1>1, <2>1, NamesLeft DEF Walks
  <2> QED BY <2>2 DEF Inv, WalkInv
<1> HIDE DEF n
<1>6. \/ kind = "models" /\ VisitModel(n)
      \/ kind = "templates" /\ VisitTemplate(n)
      \/ kind = "jobs" /\ VisitJob(n)
      \/ kind = "buckets" /\ VisitBucket(n)
      \/ kind = "scheduled" /\ VisitScheduled(n)
      \/ kind = "hooks" /\ VisitHook(n)
  BY DEF Visit, n
<1>7. CASE kind = "models" /\ VisitModel(n)
  BY <1>3, <1>4, <1>7 DEF VisitModel, Abort, n
<1>8. CASE kind = "templates" /\ VisitTemplate(n)
  BY <1>3, <1>4, <1>8 DEF VisitTemplate, Abort, n
<1>9. CASE kind = "jobs" /\ VisitJob(n)
  BY <1>1, <1>3, <1>4, <1>5, <1>9 DEF VisitJob, Abort, Memory, n
<1>10. CASE kind = "buckets" /\ VisitBucket(n)
  BY <1>3, <1>4, <1>10 DEF VisitBucket, Abort, n
<1>11. CASE kind = "scheduled" /\ VisitScheduled(n)
  BY <1>3, <1>4, <1>11 DEF VisitScheduled, Abort, n
<1>12. CASE kind = "hooks" /\ VisitHook(n)
  BY <1>3, <1>4, <1>12 DEF VisitHook, n
<1> QED BY <1>6, <1>7, <1>8, <1>9, <1>10, <1>11, <1>12

\* Only the walk changes.
LEMMA SameButWalk ==
  ASSUME Inv, UNCHANGED <<otherVars, tableVars, stale, http, client, timer, saver,
                          promised, changes>>
  PROVE  /\ KindInv' /\ TableInv' /\ HistoryInv' /\ HttpInv' /\ SaverInv'
         /\ TimerInv' /\ PromiseInv'
         /\ kind' = kind /\ table' = table /\ seen' = seen
<1>1. KindInv' /\ kind' = kind /\ SaverInv'
  BY SameKind, SameSaver
<1>2. table' = table /\ seen' = seen
  BY DEF tableVars
<1>3. HistoryInv' /\ TableInv' /\ PromiseInv'
  BY <1>1, <1>2 DEF Inv, HistoryInv, TableInv, PromiseInv
<1>4. HttpInv' /\ TimerInv'
  BY <1>1, <1>2, SameHttp, SameTimer
<1> QED BY <1>1, <1>2, <1>3, <1>4

LEMMA FailedIs ==
  ASSUME Inv, UNCHANGED <<otherVars, tableVars, stale, http, client, timer, saver,
                          promised, changes>>, walk' = Failed
  PROVE  Inv'
<1>1. WalkInv'
  <2>1. seen' = seen /\ table' = table
    BY SameButWalk
  <2> QED BY <2>1 DEF Inv, WalkInv, Walking, Failed
<1> QED BY <1>1, SameButWalk DEF Inv

LEMMA VisitKeeps ==
  ASSUME Inv, Visit
  PROVE  Inv'
<1> DEFINE n == Head(walk.todo)
           rest == Tail(walk.todo)
           taken == table[At(table, n)]
<1>1. /\ Walking /\ walk.todo # <<>>
      /\ UNCHANGED <<otherVars, tableVars, stale, http, client, timer, saver,
                     promised, changes>>
  BY DEF Visit
<1>2. walk \in Walks
  BY <1>1 DEF Inv, WalkInv, Walking, Idle, Failed
<1>3. n \in Names /\ rest \in Seq(Names) /\ ToSet(walk.todo) = {n} \cup ToSet(rest)
  BY <1>1, <1>2, NamesLeft DEF Walks
<1>4. kind' = kind /\ table' = table /\ seen' = seen
  BY <1>1, SameButWalk
<1>5. CASE walk' = Failed
  BY <1>1, <1>5, FailedIs
<1>6. CASE n \in NamesOf(table) /\ Take(n)
  <2>1. walk' = [walk EXCEPT !.todo = rest, !.out = Append(walk.out, taken)]
    BY <1>6 DEF Take
  <2>2. taken \in Resources /\ taken.name = n
    BY <1>6, AtIs DEF Inv, TableInv
  <2> HIDE DEF n, rest, taken
  <2>3. /\ walk' \in Walks /\ walk'.on = walk.on /\ walk'.size = walk.size
        /\ walk'.todo = rest /\ walk'.out = Append(walk.out, taken)
    <3> DEFINE w == Append(walk.out, taken)
    <3>1. w \in Seq(Resources)
      <4>1. walk.out \in Seq(Resources)
        BY <1>2 DEF Walks
      <4> QED BY <2>2, <4>1, AppendProperties
    <3>2. rest \in Seq(Names)
      BY <1>3 DEF rest
    <3>3. walk' = [walk EXCEPT !.todo = rest, !.out = w]
      BY <2>1
    <3> HIDE DEF w
    <3>4. walk' \in Walks /\ walk'.on = walk.on /\ walk'.size = walk.size
          /\ walk'.todo = rest /\ walk'.out = w
      BY <1>2, <3>1, <3>2, <3>3 DEF Walks
    <3> QED BY <3>4 DEF w
  <2>4. NamesOf(walk.out) \cup {n} \subseteq NamesOf(walk'.out)
    <3> DEFINE o == walk.out
               m == Len(o)
               w == Append(o, taken)
    <3>1. o \in Seq(Resources) /\ m \in Nat /\ DOMAIN o = 1..m
      BY <1>2 DEF Walks
    <3>2. /\ DOMAIN w = 1..(m + 1) /\ w[m + 1] = taken
          /\ \A i \in 1..m : w[i] = o[i]
      BY <2>2, <3>1
    <3> HIDE DEF o, m, w
    <3>3. ASSUME NEW i \in 1..m PROVE o[i].name \in NamesOf(w)
      <4>1. i \in DOMAIN w /\ w[i] = o[i]
        BY <3>1, <3>2
      <4> QED BY <4>1 DEF NamesOf
    <3>4. n \in NamesOf(w)
      <4>1. m + 1 \in DOMAIN w /\ w[m + 1].name = n
        BY <3>1, <3>2, <2>2
      <4> QED BY <4>1 DEF NamesOf
    <3> QED BY <2>3, <3>1, <3>3, <3>4 DEF NamesOf, o, w
  <2>5. WalkInv'
    <3>1. seen'.steady \subseteq WholeNames(table')
      BY <1>4 DEF Inv, WalkInv
    <3>2. seen'.steady \subseteq NamesOf(walk'.out) \cup ToSet(walk'.todo)
      <4>1. seen.steady \subseteq NamesOf(walk.out) \cup ToSet(walk.todo)
        BY <1>1 DEF Inv, WalkInv
      <4> QED BY <1>3, <1>4, <2>3, <2>4, <4>1
    <3>3. kind' = "jobs" /\ walk'.on = "list" =>
            /\ Len(table') <= walk'.size
            /\ Len(table') = walk'.size => ToSet(walk'.todo) \subseteq NamesOf(table')
      BY <1>3, <1>4, <2>3 DEF Inv, WalkInv
    <3> QED BY <2>3, <3>1, <3>2, <3>3 DEF WalkInv
  <2> QED BY <1>1, <2>5, SameButWalk DEF Inv
<1>7. CASE n \notin WholeNames(table) /\ Skip
  <2>1. walk' = [walk EXCEPT !.todo = rest]
    BY <1>7 DEF Skip
  <2> HIDE DEF n, rest
  <2>2. /\ walk' \in Walks /\ walk'.on = walk.on /\ walk'.size = walk.size
        /\ walk'.todo = rest /\ walk'.out = walk.out
    BY <1>2, <1>3, <2>1 DEF Walks
  <2>3. WalkInv'
    <3>1. seen'.steady \subseteq WholeNames(table')
      BY <1>4 DEF Inv, WalkInv
    <3>2. seen'.steady \subseteq NamesOf(walk'.out) \cup ToSet(walk'.todo)
      <4>1. /\ seen.steady \subseteq NamesOf(walk.out) \cup ToSet(walk.todo)
            /\ seen.steady \subseteq WholeNames(table)
        BY <1>1 DEF Inv, WalkInv
      <4> QED BY <1>3, <1>4, <1>7, <2>2, <4>1
    <3>3. kind' = "jobs" /\ walk'.on = "list" =>
            /\ Len(table') <= walk'.size
            /\ Len(table') = walk'.size => ToSet(walk'.todo) \subseteq NamesOf(table')
      BY <1>3, <1>4, <2>2 DEF Inv, WalkInv
    <3> QED BY <2>2, <3>1, <3>2, <3>3 DEF WalkInv
  <2> QED BY <1>1, <2>3, SameButWalk DEF Inv
<1> QED BY <1>5, <1>6, <1>7, VisitIs

\* The walk ends, with an answer.
LEMMA EndIs ==
  ASSUME Inv, walk' = Idle, client' \in [page: Nat, done: BOOLEAN],
         UNCHANGED <<otherVars, table, stale, http, timer, saver, promised, changes>>,
         seen' \in [once: SUBSET Names, twice: SUBSET Names, fell: SUBSET Names,
                    rose: SUBSET Names, always: SUBSET Names, steady: SUBSET Names,
                    torn: BOOLEAN],
         seen'.steady = {}
  PROVE  Inv'
<1>1. KindInv' /\ kind' = kind /\ SaverInv'
  BY SameKind, SameSaver
<1>2. HistoryInv' /\ TableInv' /\ PromiseInv'
  BY <1>1 DEF Inv, HistoryInv, TableInv, PromiseInv
<1>3. HttpInv' /\ TimerInv'
  BY <1>1, SameHttp, SameTimer
<1>4. WalkInv'
  BY DEF WalkInv, Walking, Idle
<1> QED BY <1>1, <1>2, <1>3, <1>4 DEF Inv

LEMMA AnswerKeeps ==
  ASSUME Inv, Answer
  PROVE  Inv'
<1> DEFINE page == Page(walk.out, client.page)
<1>1. /\ walk.on = "list" /\ walk' = Idle
      /\ seen' = [seen EXCEPT !.once = @ \cup page,
                              !.twice = @ \cup (seen.once \cap page),
                              !.steady = {}]
      /\ \/ client' = [client EXCEPT !.done = TRUE]
         \/ client' = [client EXCEPT !.page = @ + 1]
      /\ UNCHANGED <<otherVars, table, stale, http, timer, saver, promised, changes>>
  BY DEF Answer
<1>2. page \subseteq Names
  <2>1. walk.out \in Seq(Resources)
    BY <1>1 DEF Inv, WalkInv, Walks, Idle, Failed
  <2>2. \A i \in DOMAIN walk.out : walk.out[i].name \in Names
    <3>1. \A i \in 1..Len(walk.out) : walk.out[i] \in Resources
      BY <2>1, ElementOfSeq
    <3>2. DOMAIN walk.out = 1..Len(walk.out)
      BY <2>1
    <3> QED BY <3>1, <3>2 DEF Resources
  <2> QED BY <2>2 DEF Page
<1> HIDE DEF page
<1>3. client' \in [page: Nat, done: BOOLEAN]
  <2>1. client \in [page: Nat, done: BOOLEAN]
    BY DEF Inv, HistoryInv
  <2>2. CASE client' = [client EXCEPT !.done = TRUE]
    BY <2>1, <2>2
  <2>3. CASE client' = [client EXCEPT !.page = @ + 1]
    BY <2>1, <2>3
  <2> QED BY <1>1, <2>2, <2>3
<1>4. /\ seen' \in [once: SUBSET Names, twice: SUBSET Names, fell: SUBSET Names,
                    rose: SUBSET Names, always: SUBSET Names, steady: SUBSET Names,
                    torn: BOOLEAN]
      /\ seen'.steady = {}
  BY <1>1, <1>2 DEF Inv, HistoryInv
<1> QED BY <1>1, <1>3, <1>4, EndIs

LEMMA AnswerNamesKeeps ==
  ASSUME Inv, AnswerNames
  PROVE  Inv'
<1>1. /\ walk' = Idle /\ seen' = [seen EXCEPT !.steady = {}]
      /\ UNCHANGED <<otherVars, table, stale, http, client, timer, saver, promised,
                     changes>>
  BY DEF AnswerNames
<1>2. client' \in [page: Nat, done: BOOLEAN]
  BY <1>1 DEF Inv, HistoryInv
<1>3. /\ seen' \in [once: SUBSET Names, twice: SUBSET Names, fell: SUBSET Names,
                    rose: SUBSET Names, always: SUBSET Names, steady: SUBSET Names,
                    torn: BOOLEAN]
      /\ seen'.steady = {}
  BY <1>1 DEF Inv, HistoryInv
<1> QED BY <1>1, <1>2, <1>3, EndIs

LEMMA AnswerFailsKeeps ==
  ASSUME Inv, AnswerFails
  PROVE  Inv'
BY FailedIs DEF AnswerFails, Abort

-----------------------------------------------------------------------------
\* The timer, the trainings and the crashes.

LEMMA AgeKeeps ==
  ASSUME Inv, NEW n \in Names, Age(n)
  PROVE  Inv'
<1>1. /\ Counted /\ stale' = stale \cup {n}
      /\ UNCHANGED <<otherVars, tableVars, http, walkVars, timer, saver, promised>>
  BY DEF Age
<1>2. KindInv' /\ kind' = kind /\ SaverInv' /\ walk' = walk /\ client' = client
  BY <1>1, SameKind, SameSaver DEF walkVars
<1>3. /\ table' = table /\ IsTable(table') /\ HistoryInv' /\ WalkInv'
  BY <1>1, <1>2, SameTable
<1>4. TableInv'
  BY <1>1, <1>3, CountedIs DEF Inv, TableInv
<1>5. HttpInv' /\ TimerInv' /\ PromiseInv'
  BY <1>1, <1>2, <1>3, SameHttp, SameTimer DEF Inv, PromiseInv
<1> QED BY <1>2, <1>3, <1>4, <1>5 DEF Inv

LEMMA TimerKeeps ==
  ASSUME Inv, TimerStep
  PROVE  Inv'
<1>1. /\ BeginScan \/ Scan \/ Forget
      /\ UNCHANGED <<otherVars, stale, http, walkVars, saver, promised, changes>>
  BY DEF TimerStep
<1>2. KindInv' /\ kind' = kind /\ SaverInv' /\ walk' = walk /\ client' = client
  BY <1>1, SameKind, SameSaver DEF walkVars
<1>3. IsTable(table) /\ Len(table) \in Nat /\ NamesOf(table) \subseteq Names
  BY TableIs DEF Inv, TableInv
<1>4. ASSUME UNCHANGED tableVars, TimerInv' PROVE Inv'
  <2>1. /\ table' = table /\ IsTable(table') /\ HistoryInv' /\ WalkInv'
    BY <1>2, <1>4, SameTable
  <2>2. TableInv' /\ HttpInv' /\ PromiseInv'
    BY <1>1, <1>2, <2>1, SameHttp DEF Inv, TableInv, PromiseInv
  <2> QED BY <1>2, <1>4, <2>1, <2>2 DEF Inv
<1>5. CASE BeginScan
  <2>1. TimerInv'
    BY <1>2, <1>3, <1>5 DEF BeginScan, TimerInv
  <2> QED BY <1>4, <1>5, <2>1 DEF BeginScan
<1>6. CASE Scan
  <2>1. kind = "jobs"
    BY <1>6 DEF Scan, Inv, TimerInv, Idle
  <2>2. TimerInv'
    <3>1. table' = table
      BY <1>6 DEF Scan, tableVars
    <3>2. CASE timer' = Idle
      BY <3>2 DEF TimerInv
    <3>3. CASE timer' = [on |-> "forget", expired |-> NamesOf(table) \cap stale]
      BY <1>2, <1>3, <2>1, <3>1, <3>3 DEF TimerInv
    <3> QED BY <1>6, <3>2, <3>3 DEF Scan
  <2> QED BY <1>4, <1>6, <2>2 DEF Scan
<1>7. CASE Forget
  <2>1. /\ kind = "jobs" /\ timer \in [on: {"forget"}, expired: SUBSET Names]
        /\ timer.expired \subseteq NamesOf(table)
    BY <1>7 DEF Forget, Inv, TimerInv, Idle
  <2>2. CASE timer' = Idle /\ UNCHANGED tableVars
    <3>1. TimerInv'
      BY <2>2 DEF TimerInv
    <3> QED BY <1>4, <2>2, <3>1
  <2>3. ASSUME NEW n \in timer.expired, Becomes(Without(table, n)),
               timer' = [timer EXCEPT !.expired = @ \ {n}]
        PROVE  Inv'
    <3>1. n \in NamesOf(table)
      BY <2>1
    <3>2. promised = {} /\ promised' = {}
      BY <1>1, <2>1 DEF Inv, PromiseInv, Memory
    <3>3. /\ IsTable(table') /\ WalkInv' /\ HistoryInv'
          /\ NamesOf(table') = NamesOf(table) \ {n}
      BY <1>2, <2>3, <3>1, RemoveStep, SameHistory
    <3>4. TimerInv'
      <4>1. /\ timer' \in [on: {"forget"}, expired: SUBSET Names]
            /\ timer'.expired = timer.expired \ {n}
        BY <2>1, <2>3
      <4> QED BY <1>2, <2>1, <3>3, <4>1 DEF TimerInv
    <3>5. TableInv' /\ PromiseInv'
      BY <1>1, <3>2, <3>3 DEF Inv, TableInv, PromiseInv
    <3>6. HttpInv'
      <4>1. http.on # "rmdir"
        BY <2>1 DEF Inv, HttpInv, Disk
      <4> QED BY <1>1, <1>2, <4>1, SameHttp
    <3> QED BY <1>2, <3>3, <3>4, <3>5, <3>6 DEF Inv
  <2> QED BY <1>7, <2>2, <2>3 DEF Forget
<1> QED BY <1>1, <1>5, <1>6, <1>7

\* The training reads its model, and stops.
LEMMA TrainKeeps ==
  ASSUME Inv, (\E n \in Names : Train(n)) \/ StopTraining
  PROVE  Inv'
<1>1. /\ changes' = changes \/ Counted
      /\ UNCHANGED <<otherVars, tableVars, stale, http, walkVars, timer, promised>>
  BY DEF Train, StopTraining
<1>2. KindInv' /\ kind' = kind /\ walk' = walk /\ client' = client
  BY <1>1, SameKind DEF walkVars
<1>3. /\ table' = table /\ IsTable(table') /\ HistoryInv' /\ WalkInv'
  BY <1>1, <1>2, SameTable
<1>4. TableInv'
  BY <1>1, <1>3, CountedIs DEF Inv, TableInv
<1>5. HttpInv' /\ TimerInv' /\ PromiseInv'
  BY <1>1, <1>2, <1>3, SameHttp, SameTimer DEF Inv, PromiseInv
<1>6. SaverInv'
  <2>1. CASE StopTraining
    BY <2>1 DEF StopTraining, SaverInv
  <2>2. ASSUME NEW n \in Names, Train(n) PROVE SaverInv'
    <3>1. /\ kind = "models" /\ Is(n) = "whole"
          /\ saver' = [on |-> "dir", name |-> n, value |-> table[At(table, n)].value]
      BY <2>2 DEF Train
    <3>2. n \in NamesOf(table)
      BY <3>1 DEF Is
    <3>3. table[At(table, n)].value \in Values
      <4>1. table[At(table, n)] \in Resources
        BY <3>2, AtIs DEF Inv, TableInv
      <4> QED BY <4>1 DEF Resources
    <3> QED BY <1>2, <3>1, <3>3 DEF SaverInv
  <2> QED BY <2>1, <2>2
<1> QED BY <1>2, <1>3, <1>4, <1>5, <1>6 DEF Inv

\* A training writes its checkpoint, and a DELETE finds it.
LEMMA CheckpointKeeps ==
  ASSUME Inv, SaveCheckpoint \/ RemoveDirFails
  PROVE  Inv'
<1>1. /\ UNCHANGED <<otherVars, tableVars, stale, walkVars, timer, promised, changes>>
      /\ http' \in {http, Idle, [on |-> "full"]}
      /\ saver' \in {saver, Idle}
  BY DEF SaveCheckpoint, RemoveDirFails
<1>2. KindInv' /\ kind' = kind /\ walk' = walk /\ client' = client
  BY <1>1, SameKind DEF walkVars
<1>3. /\ table' = table /\ IsTable(table') /\ HistoryInv' /\ WalkInv'
  BY <1>1, <1>2, SameTable
<1>4. TableInv' /\ TimerInv' /\ PromiseInv'
  BY <1>1, <1>2, <1>3, SameTimer DEF Inv, TableInv, PromiseInv
<1>5. SaverInv'
  BY <1>1, <1>2 DEF Inv, SaverInv
<1>6. HttpInv'
  <2>1. CASE http' = http
    BY <1>2, <1>3, <2>1, SameHttp
  <2>2. CASE http' \in {Idle, [on |-> "full"]}
    BY <2>2 DEF HttpInv, Requests, Idle
  <2> QED BY <1>1, <2>1, <2>2
<1> QED BY <1>2, <1>3, <1>4, <1>5, <1>6 DEF Inv

LEMMA SaveKeeps ==
  ASSUME Inv, SaveDir \/ SaveSettings
  PROVE  Inv'
<1> DEFINE n == saver.name
           e == Entry(n, saver.value)
           d == [e EXCEPT !.is = "empty"]
<1>1. UNCHANGED <<otherVars, stale, http, walkVars, timer, promised, changes>>
  BY DEF SaveDir, SaveSettings
<1>2. /\ kind = "models" /\ n \in Names /\ saver.value \in Values
      /\ saver \in [on: {"dir", "settings", "checkpoint"}, name: Names, value: Values]
  BY DEF Inv, SaverInv, SaveDir, SaveSettings, Idle
<1>3. KindInv' /\ kind' = kind /\ walk' = walk /\ client' = client
  BY <1>1, SameKind DEF walkVars
<1>4. e \in Resources /\ e.name = n /\ e.is # "empty"
  BY <1>2, EntryOf
<1>5. d \in Resources /\ d.name = n
  BY <1>4 DEF Resources, Stored
<1>6. IsTable(table)
  BY DEF Inv, TableInv
<1>7. /\ IsTable(table') /\ WalkInv' /\ HistoryInv'
      /\ NamesOf(table) \subseteq NamesOf(table')
      /\ \A m \in promised : \E f \in Entries(table') : f.name = m /\ f.is # "empty"
  <2>1. CASE UNCHANGED tableVars
    <3>1. /\ table' = table /\ IsTable(table') /\ HistoryInv' /\ WalkInv'
      BY <1>3, <2>1, SameTable
    <3> QED BY <3>1 DEF Inv, PromiseInv
  <2>2. CASE Is(n) = "missing" /\ Becomes(Insert(table, d))
    <3>1. n \notin NamesOf(table)
      <4>1. ASSUME n \in NamesOf(table) PROVE Is(n) \in Stored
        <5>1. table[At(table, n)] \in Resources
          BY <1>6, <4>1, AtIs
        <5> QED BY <4>1, <5>1 DEF Is, Resources
      <4> QED BY <2>2, <4>1 DEF Stored
    <3> HIDE DEF n, d
    <3> QED BY <1>2, <1>3, <1>5, <2>2, <3>1, InsertStep, SameHistory
  <2>3. CASE Becomes(Put(table, e))
    <3> HIDE DEF n, e
    <3> QED BY <1>2, <1>3, <1>4, <2>3, PutStep, SameHistory
  <2> QED BY <2>1, <2>2, <2>3 DEF SaveDir, SaveSettings
<1>8. TableInv' /\ PromiseInv'
  BY <1>1, <1>3, <1>7 DEF Inv, TableInv, PromiseInv
<1>9. HttpInv' /\ TimerInv'
  BY <1>1, <1>3, <1>7, SameHttp, SameTimer
<1>10. SaverInv'
  <2>1. \/ saver' = Idle
        \/ \E on \in {"settings", "checkpoint"} : saver' = [saver EXCEPT !.on = on]
    BY DEF SaveDir, SaveSettings
  <2> HIDE DEF n
  <2> QED BY <1>2, <1>3, <2>1 DEF SaverInv
<1> QED BY <1>3, <1>7, <1>8, <1>9, <1>10 DEF Inv

\* A crash leaves what was promised on the disk.
LEMMA RestartKeeps ==
  ASSUME Inv, NEW foreign \in SUBSET Names, Restart(foreign)
  PROVE  Inv'
<1>1. /\ Counted
      /\ http' = Idle /\ walk' = Idle /\ timer' = Idle /\ saver' = Idle
      /\ UNCHANGED <<otherVars, stale, client, promised>>
  BY DEF Restart
<1> PICK t \in IF kind \in Memory THEN AtStart
               ELSE {IF kind = "models" THEN Reread(table, foreign) ELSE table} :
           Becomes(t)
  BY DEF Restart
<1>2. IsTable(table)
  BY DEF Inv, TableInv
<1>3. /\ IsTable(t)
      /\ \A n \in promised : \E f \in Entries(t) : f.name = n /\ f.is # "empty"
  <2>1. CASE kind \in Memory
    <3>1. t \in AtStart /\ promised = {}
      BY <2>1 DEF Inv, PromiseInv
    <3> QED BY <3>1, AtStartIs
  <2>2. CASE kind = "models"
    <3>1. t = Reread(table, foreign)
      BY <2>2 DEF Memory
    <3> QED BY <1>2, <3>1, RereadIs DEF Inv, PromiseInv
  <2>3. CASE kind \notin Memory /\ kind # "models"
    <3>1. t = table
      BY <2>3
    <3> QED BY <1>2, <3>1 DEF Inv, PromiseInv
  <2> QED BY <2>1, <2>2, <2>3
<1>4. KindInv' /\ kind' = kind
  BY <1>1, SameKind
<1>5. /\ table' = t /\ HistoryInv' /\ seen'.steady = seen.steady \cap WholeNames(t)
  BY <1>1, BecomesIs, SameHistory DEF Inv
<1>6. TableInv' /\ PromiseInv'
  BY <1>1, <1>3, <1>4, <1>5, CountedIs DEF Inv, TableInv, PromiseInv
<1>7. HttpInv' /\ SaverInv' /\ TimerInv'
  BY <1>1 DEF HttpInv, Requests, SaverInv, TimerInv, Idle
<1>8. WalkInv'
  <2>1. walk' = Idle /\ seen'.steady \subseteq WholeNames(table')
    BY <1>1, <1>5
  <2> QED BY <2>1 DEF WalkInv, Walking, Idle
<1> QED BY <1>4, <1>5, <1>6, <1>7, <1>8 DEF Inv

LEMMA StutterKeeps ==
  ASSUME Inv, UNCHANGED vars
  PROVE  Inv'
<1>1. /\ kind' = kind /\ query' = query /\ table' = table /\ seen' = seen
      /\ stale' = stale /\ http' = http /\ walk' = walk /\ client' = client
      /\ timer' = timer /\ saver' = saver /\ promised' = promised
      /\ changes' = changes
  BY DEF vars, otherVars, tableVars, walkVars
<1>2. KindInv' /\ TableInv' /\ HistoryInv' /\ SaverInv' /\ PromiseInv'
  BY <1>1 DEF Inv, KindInv, TableInv, HistoryInv, SaverInv, PromiseInv
<1>3. HttpInv' /\ TimerInv' /\ WalkInv'
  BY <1>1 DEF Inv, HttpInv, TimerInv, WalkInv, Walking
<1> QED BY <1>2, <1>3 DEF Inv

LEMMA StepInv == Inv /\ [Next]_vars => Inv'
<1> SUFFICES ASSUME Inv, [Next]_vars PROVE Inv'
  OBVIOUS
<1>1. ASSUME NEW n \in Names, NEW v \in Values,
             CreateDir(n, v) \/ Patch(n, v) \/ RegisterJob(n, v) \/ ChangeJob(n, v)
               \/ PutBucket(n, v) \/ PutScheduled(n, v) \/ SetHook(n, v)
      PROVE  Inv'
  BY <1>1, CreateKeeps, RegisterKeeps, SetKeeps
<1>2. ASSUME NEW ns \in Batches, Delete(ns) \/ DeleteEntries(ns) \/ BeginGet(ns)
      PROVE  Inv'
  BY <1>2, BeginDeleteKeeps, BeginGetKeeps
<1>3. ASSUME NEW n \in Names, DeleteHook(n) \/ Age(n) \/ Train(n)
      PROVE  Inv'
  BY <1>3, DeleteHookKeeps, AgeKeeps, TrainKeeps
<1>4. CASE WriteSettings \/ RemoveFiles \/ RemoveDir \/ RemoveEntry \/ ClearScheduled
  BY <1>4, WriteKeeps, RemoveFilesKeeps, RemoveDirKeeps, RemoveEntryKeeps, ClearKeeps
<1>5. CASE BeginList \/ Visit \/ Answer \/ AnswerFails \/ AnswerNames
  BY <1>5, BeginListKeeps, VisitKeeps, AnswerKeeps, AnswerFailsKeeps, AnswerNamesKeeps
<1>6. CASE TimerStep \/ SaveDir \/ SaveSettings \/ SaveCheckpoint \/ StopTraining \/ RemoveDirFails
  BY <1>6, TimerKeeps, SaveKeeps, CheckpointKeeps, TrainKeeps
<1>7. ASSUME NEW foreign \in SUBSET Names, Restart(foreign)
      PROVE  Inv'
  BY <1>7, RestartKeeps
<1>8. CASE UNCHANGED vars
  BY <1>8, StutterKeeps
<1> QED BY <1>1, <1>2, <1>3, <1>4, <1>5, <1>6, <1>7, <1>8 DEF Next

LEMMA Invariance == Spec => []Inv
<1>1. Init => Inv
  BY InitInv
<1>2. Inv /\ [Next]_vars => Inv'
  BY StepInv
<1> QED BY <1>1, <1>2, PTL DEF Spec

-----------------------------------------------------------------------------
(* The pages of a client: places and ranks                                   *)

\* Names m and n of table t: m comes before n in the sorted listing.
Precedes(t, m, n) == Before(t, At(t, m), At(t, n))

Ahead(t, S, n) == {m \in S : Precedes(t, m, n)}

\* The order of a listing is total.
LEMMA BeforeIs ==
  ASSUME NEW out \in Seq(Resources)
  PROVE  /\ \A i \in DOMAIN out : ~Before(out, i, i)
         /\ \A i, j \in DOMAIN out : i # j => Before(out, i, j) \/ Before(out, j, i)
         /\ \A i, j, k \in DOMAIN out :
              Before(out, i, j) /\ Before(out, j, k) => Before(out, i, k)
<1>1. Len(out) \in Nat /\ DOMAIN out = 1..Len(out)
  OBVIOUS
<1>2. \A i \in DOMAIN out : i \in Int /\ SortKey(out, i) \in Int
  <2> TAKE i \in DOMAIN out
  <2>1. i \in Int /\ out[i] \in Resources
    BY <1>1, ElementOfSeq
  <2>2. out[i].value \in Int
    <3>1. out[i].value \in Values
      BY <2>1 DEF Resources
    <3>2. \A v \in Values : v \in Nat
      BY OrderAssumption
    <3> QED BY <3>1, <3>2
  <2> QED BY <2>1, <2>2 DEF SortKey, Absent
<1>3. CASE query.descending
  BY <1>2, <1>3 DEF Before
<1>4. CASE ~query.descending
  BY <1>2, <1>4 DEF Before
<1> QED BY <1>3, <1>4

\* As many names as places.
LEMMA NamesCounted ==
  ASSUME NEW s, IsTable(s), NEW S \in SUBSET DOMAIN s
  PROVE  /\ IsFiniteSet(S) /\ IsFiniteSet({s[i].name : i \in S})
         /\ Cardinality({s[i].name : i \in S}) = Cardinality(S)
<1> DEFINE T == {s[i].name : i \in S}
           f == [i \in S |-> s[i].name]
           n == Len(s)
<1>1. IsFiniteSet(S)
  <2>1. n \in Nat /\ n \in Int /\ DOMAIN s = 1..n
    BY TableIs
  <2> HIDE DEF n
  <2>2. IsFiniteSet(1..n)
    BY <2>1, FS_Interval
  <2> QED BY <2>1, <2>2, FS_Subset
<1>2. f \in Injection(S, T)
  BY DEF Injection, IsInjective, IsTable
<1>3. f \in Surjection(S, T)
  BY DEF Surjection
<1> HIDE DEF f, T
<1>4. IsFiniteSet(T) /\ Cardinality(T) = Cardinality(S)
  BY <1>1, <1>2, <1>3, FS_Surjection
<1> QED BY <1>1, <1>4 DEF T

LEMMA NamesFinite ==
  ASSUME NEW t, IsTable(t)
  PROVE  IsFiniteSet(NamesOf(t)) /\ IsFiniteSet(WholeNames(t))
<1>1. IsFiniteSet(NamesOf(t))
  BY NamesCounted DEF NamesOf
<1> QED BY <1>1, WholeIs, FS_Subset

\* The place of an entry is the number of entries ahead of it, and 1.
LEMMA PlaceIs ==
  ASSUME NEW t, IsTable(t), NEW n
  PROVE  /\ Place(t, n) \in Nat
         /\ n \in WholeNames(t) =>
              Place(t, n) = Cardinality(Ahead(t, WholeNames(t), n)) + 1
         /\ n \notin WholeNames(t) => Place(t, n) = 0
<1> DEFINE S == {j \in Whole(t) : Before(t, j, At(t, n))}
           T == Ahead(t, WholeNames(t), n)
<1>1. S \in SUBSET DOMAIN t
  BY DEF Whole
<1>2. {t[i].name : i \in S} = T
  <2>1. \A i \in Whole(t) : t[i].name \in WholeNames(t) /\ At(t, t[i].name) = i
    <3> TAKE i \in Whole(t)
    <3>1. i \in DOMAIN t
      BY DEF Whole
    <3>2. t[i].name \in NamesOf(t)
      BY <3>1 DEF NamesOf
    <3>3. t[i].name \in WholeNames(t)
      BY DEF WholeNames
    <3> QED BY <3>1, <3>2, <3>3, AtIs
  <2>2. \A m \in WholeNames(t) : \E i \in Whole(t) : t[i].name = m
    BY DEF WholeNames
  <2> QED BY <2>1, <2>2 DEF Ahead, Precedes
<1>3. IsFiniteSet(S) /\ IsFiniteSet(T) /\ Cardinality(T) = Cardinality(S)
  BY <1>1, <1>2, NamesCounted
<1>4. Cardinality(S) \in Nat
  BY <1>3, FS_CardinalityType
<1>5. Place(t, n) = IF n \in WholeNames(t) THEN Cardinality(S) + 1 ELSE 0
  BY DEF Place
<1> HIDE DEF S, T
<1>6. /\ Place(t, n) \in Nat
      /\ n \in WholeNames(t) => Place(t, n) = Cardinality(T) + 1
      /\ n \notin WholeNames(t) => Place(t, n) = 0
  BY <1>3, <1>4, <1>5
<1> QED BY <1>6 DEF T

LEMMA AheadIs ==
  ASSUME NEW t, NEW n, NEW S, IsFiniteSet(S), NEW T \in SUBSET S
  PROVE  /\ IsFiniteSet(Ahead(t, S, n)) /\ IsFiniteSet(Ahead(t, T, n))
         /\ Cardinality(Ahead(t, S, n)) \in Nat /\ Cardinality(Ahead(t, T, n)) \in Nat
         /\ Cardinality(Ahead(t, T, n)) <= Cardinality(Ahead(t, S, n))
<1>1. Ahead(t, S, n) \in SUBSET S /\ Ahead(t, T, n) \in SUBSET Ahead(t, S, n)
  BY DEF Ahead
<1>2. IsFiniteSet(Ahead(t, S, n))
  BY <1>1, FS_Subset
<1>3. /\ IsFiniteSet(Ahead(t, T, n))
      /\ Cardinality(Ahead(t, T, n)) <= Cardinality(Ahead(t, S, n))
  BY <1>1, <1>2, FS_Subset
<1> QED BY <1>2, <1>3, FS_CardinalityType

\* Every place of a listing is that of one entry.
LEMMA RanksAre ==
  ASSUME NEW out \in Seq(Resources)
  PROVE  /\ \A i \in DOMAIN out : Rank(out, i) \in 0..(Len(out) - 1)
         /\ \A r \in 0..(Len(out) - 1) : \E i \in DOMAIN out : Rank(out, i) = r
<1> DEFINE n == Len(out)
           D == DOMAIN out
           B(i) == {j \in D : Before(out, j, i)}
           f == [i \in D |-> Rank(out, i)]
<1>1. n \in Nat /\ n \in Int /\ D = 1..n
  OBVIOUS
<1>2. IsFiniteSet(D) /\ Cardinality(D) = n
  <2> HIDE DEF n, D
  <2> QED BY <1>1, FS_Interval
<1>3. ASSUME NEW i \in D
      PROVE  IsFiniteSet(B(i)) /\ Rank(out, i) = Cardinality(B(i)) /\ Rank(out, i) \in 0..(n - 1)
  <2>1. B(i) \in SUBSET D /\ i \notin B(i)
    BY BeforeIs
  <2>2. IsFiniteSet(B(i)) /\ Cardinality(B(i)) <= n /\ Cardinality(B(i)) # n
    BY <1>2, <2>1, FS_Subset
  <2>3. Cardinality(B(i)) \in Nat
    BY <2>2, FS_CardinalityType
  <2>4. Rank(out, i) = Cardinality(B(i))
    BY DEF Rank
  <2> HIDE DEF B, n, D
  <2> QED BY <1>1, <2>2, <2>3, <2>4
<1>4. ASSUME NEW i \in D, NEW j \in D, Before(out, i, j)
      PROVE  Rank(out, i) < Rank(out, j)
  <2>1. B(i) \in SUBSET B(j)
    BY <1>4, BeforeIs
  <2>2. i \in B(j) /\ i \notin B(i)
    BY <1>4, BeforeIs
  <2>3. Cardinality(B(i)) <= Cardinality(B(j)) /\ Cardinality(B(i)) # Cardinality(B(j))
    BY <1>3, <2>1, <2>2, FS_Subset
  <2>4. Rank(out, i) = Cardinality(B(i)) /\ Rank(out, j) = Cardinality(B(j))
    BY <1>3
  <2>5. Rank(out, i) \in Int /\ Rank(out, j) \in Int
    <3>1. Rank(out, i) \in 0..(n - 1) /\ Rank(out, j) \in 0..(n - 1)
      BY <1>3
    <3> HIDE DEF n
    <3> QED BY <1>1, <3>1
  <2> HIDE DEF B
  <2> QED BY <2>3, <2>4, <2>5
<1>5. ASSUME NEW i \in D, NEW j \in D, Rank(out, i) = Rank(out, j)
      PROVE  i = j
  <2>1. Rank(out, i) \in Int
    <3>1. Rank(out, i) \in 0..(n - 1)
      BY <1>3
    <3> HIDE DEF n
    <3> QED BY <1>1, <3>1
  <2> QED BY <1>4, <1>5, <2>1, BeforeIs
<1> HIDE DEF n, D, B
<1>6. f \in Injection(D, 0..(n - 1))
  BY <1>3, <1>5 DEF Injection, IsInjective
<1>7. IsFiniteSet(0..(n - 1)) /\ Cardinality(0..(n - 1)) = n
  <2>1. n - 1 \in Int /\ 0 \in Int
    BY <1>1
  <2>2. IsFiniteSet(0..(n - 1))
        /\ Cardinality(0..(n - 1)) = IF 0 > n - 1 THEN 0 ELSE n - 1 - 0 + 1
    BY <2>1, FS_Interval
  <2> QED BY <1>1, <2>2
<1>8. f \in Surjection(D, 0..(n - 1))
  <2> HIDE DEF f
  <2> QED BY <1>2, <1>6, <1>7, FS_Injection
<1>9. \A r \in 0..(n - 1) : \E i \in D : Rank(out, i) = r
  BY <1>8 DEF Surjection
<1> QED BY <1>3, <1>9 DEF n, D

\* The first and the last place of page p.
LEMMA PageBounds ==
  ASSUME NEW p \in Nat
  PROVE  /\ p * PerPage \in Nat /\ (p + 1) * PerPage \in Nat
         /\ (p + 1) * PerPage = p * PerPage + PerPage /\ PerPage \in Nat /\ PerPage >= 1
BY ListingBounds

\* A page that does not reach the end of the listing is full.
LEMMA FullPage ==
  ASSUME NEW out, IsTable(out), NEW p \in Nat,
         NEW k \in DOMAIN out, Rank(out, k) >= (p + 1) * PerPage
  PROVE  Cardinality(Page(out, p)) >= PerPage
<1> DEFINE a == p * PerPage
           b == (p + 1) * PerPage
           D == DOMAIN out
           I == {j \in D : Rank(out, j) >= a /\ Rank(out, j) < b}
           f == [r \in a..(b - 1) |-> CHOOSE i \in D : Rank(out, i) = r]
<1>1. a \in Nat /\ b \in Nat /\ b = a + PerPage /\ PerPage \in Nat
  BY PageBounds
<1>2. out \in Seq(Resources)
  BY DEF IsTable
<1>3. Page(out, p) = {out[i].name : i \in I}
  BY DEF Page
<1>4. IsFiniteSet(I) /\ Cardinality(Page(out, p)) = Cardinality(I)
  <2>1. I \in SUBSET DOMAIN out
    OBVIOUS
  <2> HIDE DEF I
  <2> QED BY <1>3, <2>1, NamesCounted
<1>5. Rank(out, k) \in Int /\ Rank(out, k) >= b /\ Rank(out, k) < Len(out) /\ Len(out) \in Nat
  BY <1>2, RanksAre
<1> HIDE DEF a, b
<1>6. ASSUME NEW r \in a..(b - 1) PROVE f[r] \in I /\ Rank(out, f[r]) = r
  <2>1. r \in 0..(Len(out) - 1) /\ r >= a /\ r < b
    BY <1>1, <1>5
  <2>2. \E i \in D : Rank(out, i) = r
    BY <1>2, <2>1, RanksAre
  <2>3. f[r] \in D /\ Rank(out, f[r]) = r
    BY <2>2
  <2> QED BY <2>1, <2>3
<1>7. f \in Injection(a..(b - 1), I)
  <2>1. DOMAIN f = a..(b - 1) /\ f \in [a..(b - 1) -> I]
    <3>1. f = [r \in a..(b - 1) |-> f[r]]
      OBVIOUS
    <3> HIDE DEF f, I
    <3> QED BY <1>6, <3>1
  <2> HIDE DEF f, I
  <2>2. \A r, q \in a..(b - 1) : f[r] = f[q] => r = q
    BY <1>6
  <2> QED BY <2>1, <2>2 DEF Injection, IsInjective
<1> HIDE DEF f, I
<1>8. Cardinality(a..(b - 1)) <= Cardinality(I)
  BY <1>4, <1>7, FS_Injection
<1>9. Cardinality(a..(b - 1)) = PerPage
  <2>1. a \in Int /\ b - 1 \in Int
    BY <1>1
  <2>2. Cardinality(a..(b - 1)) = IF a > b - 1 THEN 0 ELSE b - 1 - a + 1
    BY <2>1, FS_Interval
  <2> QED BY <1>1, <2>2
<1>10. Cardinality(I) \in Nat
  BY <1>4, FS_CardinalityType
<1> QED BY <1>1, <1>4, <1>8, <1>9, <1>10

\* Table u has what t has, in the same order and with the same values.
Preserves(t, u) ==
  /\ NamesOf(t) \subseteq NamesOf(u) /\ WholeNames(t) \subseteq WholeNames(u)
  /\ \A a, b \in NamesOf(t) : At(t, a) < At(t, b) <=> At(u, a) < At(u, b)
  /\ \A a \in NamesOf(t) : u[At(u, a)].value = t[At(t, a)].value

LEMMA PrecedesKept ==
  ASSUME NEW t, IsTable(t), NEW u, IsTable(u), Preserves(t, u)
  PROVE  /\ \A a, b \in NamesOf(t) : Before(t, At(t, a), At(t, b)) <=> Before(u, At(u, a), At(u, b))
         /\ \A e \in Entries(t) : e.is = "whole" => e \in Entries(u)
<1>1. ASSUME NEW a \in NamesOf(t), NEW b \in NamesOf(t)
      PROVE  Before(t, At(t, a), At(t, b)) <=> Before(u, At(u, a), At(u, b))
  <2>1. /\ SortKey(t, At(t, a)) = SortKey(u, At(u, a))
        /\ SortKey(t, At(t, b)) = SortKey(u, At(u, b))
    BY DEF SortKey, Preserves
  <2>2. At(t, a) < At(t, b) <=> At(u, a) < At(u, b)
    BY DEF Preserves
  <2> QED BY <2>1, <2>2 DEF Before
<1>2. ASSUME NEW e \in Entries(t), e.is = "whole"
      PROVE  e \in Entries(u)
  <2>1. e.name \in NamesOf(t) /\ t[At(t, e.name)] = e /\ e \in Resources
    BY EntryIs, TableIs
  <2>2. e.name \in WholeNames(t)
    BY <1>2, WholeIs
  <2>3. e.name \in WholeNames(u) /\ e.name \in NamesOf(u) /\ u[At(u, e.name)].value = e.value
    BY <2>1, <2>2 DEF Preserves
  <2>4. /\ u[At(u, e.name)] \in Resources /\ u[At(u, e.name)] \in Entries(u)
        /\ u[At(u, e.name)].name = e.name /\ u[At(u, e.name)].is = "whole"
    BY <2>3, AtIs, WholeIs
  <2> DEFINE f == u[At(u, e.name)]
  <2> HIDE DEF f
  <2>5. f \in Resources /\ f.name = e.name /\ f.value = e.value /\ f.is = e.is
    BY <1>2, <2>3, <2>4 DEF f
  <2>6. f = e
    BY <2>1, <2>5 DEF Resources
  <2> QED BY <2>4, <2>6 DEF f
<1> QED BY <1>1, <1>2

\* Directories are inserted without changing the order of the others.
LEMMA InsertPreserves ==
  ASSUME NEW t, IsTable(t), NEW e \in Resources, e.name \notin NamesOf(t),
         e.is = "empty", kind \in Disk
  PROVE  Preserves(t, Insert(t, e)) /\ WholeNames(Insert(t, e)) = WholeNames(t)
<1> DEFINE k == Cardinality({i \in DOMAIN t : t[i].name < e.name}) + 1
           n == Len(t)
           u == InsertAt(t, k, e)
<1>1. k \in 1..(n + 1)
  <2> DEFINE before == {i \in DOMAIN t : t[i].name < e.name}
  <2>1. n \in Nat /\ n \in Int /\ DOMAIN t = 1..n
    BY TableIs
  <2>2. before \subseteq 1..n
    BY <2>1
  <2> HIDE DEF n, before
  <2>3. IsFiniteSet(1..n) /\ Cardinality(1..n) = n
    BY <2>1, FS_Interval
  <2>4. IsFiniteSet(before) /\ Cardinality(before) <= n
    BY <2>2, <2>3, FS_Subset
  <2>5. Cardinality(before) \in Nat
    BY <2>4, FS_CardinalityType
  <2>6. Cardinality(before) + 1 \in 1..(n + 1)
    BY <2>1, <2>4, <2>5
  <2> QED BY <2>6 DEF before
<1>2. Insert(t, e) = u
  BY DEF Insert
<1> HIDE DEF k
<1>3. /\ IsTable(u) /\ Entries(u) = Entries(t) \cup {e} /\ Len(u) = n + 1
      /\ \A i \in 1..(n + 1) : u[i] = IF i < k THEN t[i] ELSE IF i = k THEN e ELSE t[i - 1]
  BY <1>1, InsertedAt
<1> HIDE DEF u
<1>4. n \in Nat /\ DOMAIN t = 1..n /\ DOMAIN u = 1..(n + 1)
  BY <1>3, TableIs
<1> HIDE DEF n
<1>5. NamesOf(t) \subseteq NamesOf(u)
  <2>1. NamesOf(u) = {f.name : f \in Entries(u)} /\ NamesOf(t) = {f.name : f \in Entries(t)}
    BY <1>3, TableIs
  <2> QED BY <1>3, <2>1
<1>6. ASSUME NEW a \in NamesOf(t)
      PROVE  /\ At(t, a) \in 1..n
             /\ At(u, a) = IF At(t, a) < k THEN At(t, a) ELSE At(t, a) + 1
             /\ u[At(u, a)] = t[At(t, a)]
  <2> DEFINE i == At(t, a)
             j == IF i < k THEN i ELSE i + 1
  <2>1. i \in 1..n /\ t[i].name = a
    BY <1>4, AtIs
  <2> HIDE DEF i
  <2>2. j \in 1..(n + 1) /\ u[j] = t[i]
    BY <1>1, <1>3, <1>4, <2>1
  <2> HIDE DEF j
  <2>3. a \in NamesOf(u)
    BY <1>5
  <2>4. j = At(u, a)
    BY <1>3, <1>4, <2>1, <2>2, <2>3, AtIs
  <2> QED BY <2>1, <2>2, <2>4 DEF i, j
<1>7. ASSUME NEW a \in NamesOf(t), NEW b \in NamesOf(t)
      PROVE  At(t, a) < At(t, b) <=> At(u, a) < At(u, b)
  <2> DEFINE i == At(t, a)
             j == At(t, b)
  <2>1. /\ i \in 1..n /\ At(u, a) = IF i < k THEN i ELSE i + 1
        /\ j \in 1..n /\ At(u, b) = IF j < k THEN j ELSE j + 1
    BY <1>6
  <2> HIDE DEF i, j
  <2>2. i < j <=> At(u, a) < At(u, b)
    BY <1>1, <1>4, <2>1
  <2> QED BY <2>2 DEF i, j
<1>8. WholeNames(u) = WholeNames(t)
  <2>1. WholeNames(t) \subseteq NamesOf(t) /\ WholeNames(u) \subseteq NamesOf(u)
    BY <1>3, WholeIs
  <2>2. ASSUME NEW a \in NamesOf(t)
        PROVE  a \in WholeNames(t) <=> a \in WholeNames(u)
    <3>1. /\ a \in WholeNames(t) <=> t[At(t, a)].is = "whole"
          /\ a \in WholeNames(u) <=> u[At(u, a)].is = "whole"
      BY <1>3, <1>5, WholeIs
    <3> QED BY <1>6, <3>1
  <2>3. NamesOf(u) = NamesOf(t) \cup {e.name}
    <3>1. NamesOf(u) = {f.name : f \in Entries(u)} /\ NamesOf(t) = {f.name : f \in Entries(t)}
      BY <1>3, TableIs
    <3> QED BY <1>3, <3>1
  <2>4. e.name \notin WholeNames(u)
    <3>1. e \in Entries(u)
      BY <1>3
    <3>2. e.name \in WholeNames(u) <=> e.is = "whole"
      BY <1>3, <3>1, WholeIs
    <3> QED BY <3>2
  <2> QED BY <2>1, <2>2, <2>3, <2>4
<1>9. Preserves(t, u)
  BY <1>5, <1>6, <1>7, <1>8 DEF Preserves
<1> QED BY <1>2, <1>8, <1>9

\* An entry gets its files, and keeps its value.
LEMMA PutPreserves ==
  ASSUME NEW t, IsTable(t), NEW e \in Resources, e.name \in NamesOf(t),
         e.is = "whole", t[At(t, e.name)].value = e.value
  PROVE  Preserves(t, Put(t, e)) /\ WholeNames(Put(t, e)) = WholeNames(t) \cup {e.name}
<1> DEFINE a == At(t, e.name)
           u == [t EXCEPT ![a] = e]
<1>1. Put(t, e) = u
  BY DEF Put
<1>2. a \in DOMAIN t /\ t[a].name = e.name
  BY AtIs
<1>3. IsTable(u) /\ Entries(u) = {f \in Entries(t) : f.name # e.name} \cup {e}
  BY Replaced
<1>4. t[a].value = e.value
  OBVIOUS
<1> HIDE DEF a
<1>5. DOMAIN u = DOMAIN t /\ \A i \in DOMAIN t : u[i] = IF i = a THEN e ELSE t[i]
  BY <1>2
<1> HIDE DEF u
<1>6. NamesOf(u) = NamesOf(t)
  <2>1. \A i \in DOMAIN t : u[i].name = t[i].name
    BY <1>2, <1>5
  <2> QED BY <1>5, <2>1 DEF NamesOf
<1>7. ASSUME NEW n \in NamesOf(t)
      PROVE  /\ At(u, n) = At(t, n)
             /\ u[At(u, n)] = IF n = e.name THEN e ELSE t[At(t, n)]
  <2>1. At(t, n) \in DOMAIN t /\ t[At(t, n)].name = n
    BY AtIs
  <2>2. At(t, n) = a <=> n = e.name
    BY <1>2, <2>1, AtIs
  <2>3. u[At(t, n)] = IF n = e.name THEN e ELSE t[At(t, n)]
    BY <1>5, <2>1, <2>2
  <2>4. u[At(t, n)].name = n
    BY <2>1, <2>3
  <2>5. At(u, n) = At(t, n)
    BY <1>3, <1>5, <1>6, <2>1, <2>4, AtIs
  <2> QED BY <2>3, <2>5
<1>8. WholeNames(u) = WholeNames(t) \cup {e.name}
  <2>1. WholeNames(t) \subseteq NamesOf(t) /\ WholeNames(u) \subseteq NamesOf(u)
    BY <1>3, WholeIs
  <2>2. ASSUME NEW n \in NamesOf(t)
        PROVE  n \in WholeNames(u) <=> n \in WholeNames(t) \/ n = e.name
    <3>1. /\ n \in WholeNames(t) <=> t[At(t, n)].is = "whole"
          /\ n \in WholeNames(u) <=> u[At(u, n)].is = "whole"
      BY <1>3, <1>6, WholeIs
    <3> QED BY <1>7, <3>1
  <2> QED BY <1>6, <2>1, <2>2
<1>9. Preserves(t, u)
  <2>1. \A n \in NamesOf(t) : u[At(u, n)].value = t[At(t, n)].value
    BY <1>4, <1>7 DEF a
  <2> QED BY <1>6, <1>7, <1>8, <2>1 DEF Preserves
<1> QED BY <1>1, <1>8, <1>9

\* How the histories follow a change of the table.
LEMMA SeenIs ==
  ASSUME HistoryInv, NEW t, Becomes(t)
  PROVE  /\ table' = t
         /\ seen'.once = seen.once /\ seen'.twice = seen.twice
         /\ seen'.fell = seen.fell \cup {n \in Reading : Place(t, n) < Place(table, n)}
         /\ seen'.rose = seen.rose \cup {n \in Reading : Place(t, n) > Place(table, n)}
         /\ seen'.always = IF client.done THEN seen.always
                           ELSE seen.always \cap WholeNames(t)
         /\ seen'.steady = seen.steady \cap WholeNames(t)
         /\ seen.torn => seen'.torn
         /\ walk.on = "list" /\ ~seen'.torn =>
              \A i \in DOMAIN table, j \in DOMAIN t :
                 t[j].name = table[i].name => t[j].value = table[i].value
<1> DEFINE fallen == {n \in Reading : Place(t, n) < Place(table, n)}
           risen == {n \in Reading : Place(t, n) > Place(table, n)}
           tears == walk.on = "list" /\ \E i \in DOMAIN table, j \in DOMAIN t :
                       t[j].name = table[i].name /\ t[j].value # table[i].value
           whole == WholeNames(t)
<1>1. /\ table' = t
      /\ seen' = [seen EXCEPT !.fell = @ \cup fallen, !.rose = @ \cup risen,
                    !.always = IF client.done THEN @ ELSE @ \cap whole,
                    !.steady = @ \cap whole, !.torn = @ \/ tears]
  BY DEF Becomes
<1>2. ~tears /\ walk.on = "list" =>
        \A i \in DOMAIN table, j \in DOMAIN t :
           t[j].name = table[i].name => t[j].value = table[i].value
  OBVIOUS
<1> HIDE DEF fallen, risen, tears, whole
<1>3. /\ seen'.once = seen.once /\ seen'.twice = seen.twice
      /\ seen'.fell = seen.fell \cup fallen /\ seen'.rose = seen.rose \cup risen
      /\ seen'.always = IF client.done THEN seen.always ELSE seen.always \cap whole
      /\ seen'.steady = seen.steady \cap whole
  BY <1>1 DEF HistoryInv
<1>4. seen'.torn = (seen.torn \/ tears)
  BY <1>1 DEF HistoryInv
<1>5. seen.torn => seen'.torn
  BY <1>4
<1>6. ~seen'.torn => ~tears
  BY <1>4
<1> QED BY <1>1, <1>2, <1>3, <1>5, <1>6 DEF fallen, risen, whole

\* The order of the client does not change.
LEMMA QueryStays ==
  ASSUME query' = query
  PROVE  /\ \A i, j : Before(table, i, j)' <=> Before(table', i, j)
         /\ \A n : Place(table, n)' = Place(table', n)
         /\ \A m, n : Precedes(table, m, n)' <=> Precedes(table', m, n)
<1>1. \A i, j : Before(table, i, j)' <=> Before(table', i, j)
  BY DEF Before, SortKey
<1>2. ASSUME NEW n PROVE Place(table, n)' = Place(table', n)
  <2>1. {j \in Whole(table) : Before(table, j, At(table, n))}'
          = {j \in Whole(table') : Before(table', j, At(table', n))}
    BY <1>1 DEF Before, SortKey
  <2> QED BY <2>1 DEF Place
<1>3. \A m, n : Precedes(table, m, n)' <=> Precedes(table', m, n)
  BY DEF Precedes, Before, SortKey
<1> QED BY <1>1, <1>2, <1>3

-----------------------------------------------------------------------------
(* The invariant of the pages                                                *)

\* What is kept in memory is kept whole.
MemoryInv == kind \in Memory => \A e \in Entries(table) : e.is = "whole"

\* One request at a time; the client that has read all pages lists no more.
RequestInv ==
  /\ Walking /\ kind # "hooks" => http = Idle
  /\ walk.on = "list" => ~client.done

\* While a client reads, a name on one of its pages keeps its place before them
\* unless it rose; one that was there all the time and is on none keeps its
\* place behind them unless it fell.
PageInv ==
  /\ client.page = 0 /\ ~client.done => seen.once = {} /\ seen.twice = {}
  /\ ~seen.torn =>
       /\ seen.twice \subseteq seen.rose
       /\ client.done => seen.always \subseteq seen.once \cup seen.fell
       /\ ~client.done =>
            \A n \in seen.once \ seen.rose : Place(table, n) <= client.page * PerPage
       /\ ~client.done /\ (client.page # 0 \/ walk.on = "list") =>
            /\ seen.always \subseteq WholeNames(table)
            /\ \A n \in seen.always \ (seen.once \cup seen.fell) :
                 Place(table, n) > client.page * PerPage

\* A listing that may still be answered.
Listing ==
  /\ walk.on = "list" /\ kind # "hooks" /\ ~seen.torn
  /\ kind = "jobs" => Len(table) = walk.size

\* What was taken and what is to be visited is in the table, in its order.
Found(t, out, todo) ==
  /\ \A i \in DOMAIN out : out[i] \in Entries(t) /\ out[i].is = "whole"
  /\ \A i \in DOMAIN todo : todo[i] \in NamesOf(t)
  /\ \A i, j \in DOMAIN out : i < j => At(t, out[i].name) < At(t, out[j].name)
  /\ \A i, j \in DOMAIN todo : i < j => At(t, todo[i]) < At(t, todo[j])
  /\ \A i \in DOMAIN out, j \in DOMAIN todo : At(t, out[i].name) < At(t, todo[j])

\* Between the beginning of a listing and its answer resources are only added:
\* those that were there (`steady`) are still ahead of what did not rise, and
\* still fill the pages before this one.
ListInv ==
  Listing =>
    /\ Found(table, walk.out, walk.todo)
    /\ seen.always \subseteq seen.steady
    /\ \A n \in WholeNames(table) \ seen.rose :
         n \in seen.steady /\ Ahead(table, WholeNames(table), n) \subseteq seen.steady
    /\ \A n \in seen.always \ (seen.once \cup seen.fell) :
         Cardinality(Ahead(table, seen.steady, n)) >= client.page * PerPage

PagesInv == MemoryInv /\ RequestInv /\ PageInv /\ ListInv

-----------------------------------------------------------------------------
\* The steps that keep it: memory and requests.

LEMMA MemoryStep ==
  ASSUME Inv, MemoryInv, kind' = kind,
         kind \in Memory =>
           \/ Entries(table') \subseteq Entries(table)
           \/ \E e \in Resources : /\ e.is = "whole"
                                   /\ Entries(table') \subseteq Entries(table) \cup {e}
           \/ \A e \in Entries(table') : e.is = "whole"
  PROVE  MemoryInv'
BY DEF MemoryInv

LEMMA MemoryKeeps ==
  ASSUME Inv, MemoryInv, Next
  PROVE  MemoryInv'
<1>1. kind' = kind
  BY DEF Next, CreateDir, Patch, RegisterJob, ChangeJob, PutBucket, PutScheduled, SetHook,
         WriteSettings, RemoveFiles, RemoveDir, RemoveDirFails, RemoveEntry, ClearScheduled,
         Delete, DeleteEntries, BeginGet, BeginList, Begin, Visit, Answer, AnswerFails,
         AnswerNames, TimerStep, DeleteHook, Age, Train, SaveDir, SaveSettings, SaveCheckpoint,
         StopTraining, Restart, otherVars
<1>2. SUFFICES ASSUME kind \in Memory
               PROVE  \/ Entries(table') \subseteq Entries(table)
                      \/ \E e \in Resources :
                           /\ e.is = "whole"
                           /\ Entries(table') \subseteq Entries(table) \cup {e}
                      \/ \A e \in Entries(table') : e.is = "whole"
  BY <1>1, MemoryStep
<1>3. IsTable(table) /\ HistoryInv
  BY DEF Inv, TableInv
<1>4. ASSUME NEW n \in Names, NEW v \in Values, Becomes(Put(table, Entry(n, v)))
      PROVE  \E e \in Resources : /\ e.is = "whole"
                                  /\ Entries(table') \subseteq Entries(table) \cup {e}
  <2>1. Entry(n, v) \in Resources /\ Entry(n, v).is = "whole"
    BY EntryOf DEF Entry
  <2>2. table' = Put(table, Entry(n, v))
    BY <1>3, <1>4, BecomesIs
  <2>3. Entries(table') \subseteq Entries(table) \cup {Entry(n, v)}
    BY <1>3, <2>1, <2>2, PutIs
  <2> QED BY <2>1, <2>3
<1>5. ASSUME NEW n \in Names, NEW v \in Values, RegisterJob(n, v)
      PROVE  \E e \in Resources : /\ e.is = "whole"
                                  /\ Entries(table') \subseteq Entries(table) \cup {e}
  <2>1. Entry(n, v) \in Resources /\ Entry(n, v).is = "whole" /\ Entry(n, v).name = n
    BY EntryOf DEF Entry
  <2>2. table' = Append(table, Entry(n, v)) /\ n \notin NamesOf(table)
    BY <1>3, <1>5, BecomesIs DEF RegisterJob
  <2>3. Entries(table') \subseteq Entries(table) \cup {Entry(n, v)}
    BY <1>3, <2>1, <2>2, Appended
  <2> QED BY <2>1, <2>3
<1>6. ASSUME NEW n \in NamesOf(table), Becomes(Without(table, n))
      PROVE  Entries(table') \subseteq Entries(table)
  BY <1>3, <1>6, BecomesIs, WithoutIs
<1>7. ASSUME NEW n \in Names, NEW v \in Values,
             CreateDir(n, v) \/ Patch(n, v) \/ RegisterJob(n, v) \/ ChangeJob(n, v)
               \/ PutBucket(n, v) \/ PutScheduled(n, v) \/ SetHook(n, v)
      PROVE  \E e \in Resources : /\ e.is = "whole"
                                  /\ Entries(table') \subseteq Entries(table) \cup {e}
  <2>1. ~CreateDir(n, v) /\ ~Patch(n, v) /\ ~SetHook(n, v)
    BY <1>2 DEF CreateDir, Patch, SetHook, Disk, Memory
  <2>2. CASE ChangeJob(n, v) \/ PutBucket(n, v) \/ PutScheduled(n, v)
    BY <1>4, <2>2 DEF ChangeJob, PutBucket, PutScheduled
  <2> QED BY <1>5, <1>7, <2>1, <2>2
<1>8. CASE RemoveEntry
  <2>1. CASE UNCHANGED tableVars
    BY <2>1 DEF tableVars
  <2>2. CASE Head(http.names) \in NamesOf(table) /\ Becomes(Without(table, Head(http.names)))
    BY <1>6, <2>2
  <2> QED BY <1>8, <2>1, <2>2 DEF RemoveEntry
<1>9. CASE ClearScheduled
  BY <1>3, <1>9, BecomesIs, EmptyTable DEF ClearScheduled
<1>10. CASE TimerStep
  <2>1. CASE UNCHANGED tableVars
    BY <2>1 DEF tableVars
  <2>2. CASE timer.on = "forget" /\ \E n \in timer.expired : Becomes(Without(table, n))
    <3>1. timer.expired \subseteq NamesOf(table)
      BY <2>2 DEF Inv, TimerInv, Idle
    <3> QED BY <1>6, <2>2, <3>1
  <2> QED BY <1>10, <2>1, <2>2 DEF TimerStep, BeginScan, Scan, Forget
<1>11. ASSUME NEW foreign \in SUBSET Names, Restart(foreign)
       PROVE  \A e \in Entries(table') : e.is = "whole"
  <2>1. PICK t \in AtStart : Becomes(t)
    BY <1>2, <1>11 DEF Restart
  <2> QED BY <1>3, <2>1, BecomesIs, AtStartIs
<1>12. ~WriteSettings /\ ~RemoveFiles /\ ~RemoveDir /\ ~SaveDir /\ ~SaveSettings
  <2>1. kind \notin Disk /\ kind # "models"
    BY <1>2 DEF Disk, Memory
  <2> QED BY <2>1 DEF WriteSettings, RemoveFiles, RemoveDir, SaveDir, SaveSettings,
                      Inv, HttpInv, SaverInv, Idle
<1>13. ASSUME NEW n \in Names, DeleteHook(n) \/ Age(n) \/ Train(n)
       PROVE  Entries(table') \subseteq Entries(table)
  <2>1. ~DeleteHook(n)
    BY <1>2 DEF DeleteHook, Memory
  <2> QED BY <1>13, <2>1 DEF Age, Train, tableVars
<1>14. CASE BeginList \/ Visit \/ Answer \/ AnswerFails \/ AnswerNames \/ StopTraining
              \/ SaveCheckpoint \/ RemoveDirFails
  BY <1>14 DEF BeginList, Begin, Visit, Answer, AnswerFails, AnswerNames, StopTraining,
               SaveCheckpoint, RemoveDirFails, tableVars
<1>15. ASSUME NEW ns \in Batches, Delete(ns) \/ DeleteEntries(ns) \/ BeginGet(ns)
       PROVE  Entries(table') \subseteq Entries(table)
  BY <1>15 DEF Delete, DeleteEntries, BeginGet, Begin, tableVars
<1> QED BY <1>7, <1>8, <1>9, <1>10, <1>11, <1>12, <1>13, <1>14, <1>15 DEF Next

LEMMA RequestKeeps ==
  ASSUME Inv, RequestInv, Next
  PROVE  RequestInv'
<1>1. ASSUME http.on # "nothing" PROVE ~(Walking /\ kind # "hooks")
  BY <1>1 DEF RequestInv, Idle
<1>2. ASSUME walk' = walk, kind' = kind, client' = client,
             http' = http \/ http.on # "nothing" \/ Free
      PROVE  RequestInv'
  BY <1>1, <1>2 DEF RequestInv, Walking, Free
<1>3. ASSUME NEW n \in Names, NEW v \in Values,
             CreateDir(n, v) \/ Patch(n, v) \/ RegisterJob(n, v) \/ ChangeJob(n, v)
               \/ PutBucket(n, v) \/ PutScheduled(n, v) \/ SetHook(n, v)
      PROVE  RequestInv'
  BY <1>2, <1>3 DEF CreateDir, Patch, RegisterJob, ChangeJob, PutBucket, PutScheduled, SetHook,
                    walkVars, otherVars
<1>4. CASE WriteSettings \/ RemoveFiles \/ RemoveDir \/ RemoveDirFails \/ RemoveEntry
             \/ ClearScheduled
  BY <1>2, <1>4 DEF WriteSettings, RemoveFiles, RemoveDir, RemoveDirFails, RemoveEntry,
                    ClearScheduled, walkVars, otherVars
<1>5. ASSUME NEW ns \in Batches, Delete(ns) \/ DeleteEntries(ns)
      PROVE  RequestInv'
  BY <1>2, <1>5 DEF Delete, DeleteEntries, walkVars, otherVars
<1>6. ASSUME NEW n \in Names, DeleteHook(n) \/ Age(n) \/ Train(n)
      PROVE  RequestInv'
  BY <1>2, <1>6 DEF DeleteHook, Age, Train, walkVars, otherVars
<1>7. CASE TimerStep \/ SaveDir \/ SaveSettings \/ SaveCheckpoint \/ StopTraining
  BY <1>2, <1>7 DEF TimerStep, SaveDir, SaveSettings, SaveCheckpoint, StopTraining, walkVars,
                    otherVars
<1>8. ASSUME NEW foreign \in SUBSET Names, Restart(foreign)
      PROVE  RequestInv'
  BY <1>8 DEF Restart, RequestInv, Walking, Idle
<1>9. CASE BeginList
  <2>1. /\ walk'.on = "list" /\ ~client.done /\ client' = client
        /\ kind' = kind /\ http' = http /\ (kind = "hooks" \/ http = Idle)
    BY <1>9 DEF BeginList, Begin, otherVars
  <2> QED BY <2>1 DEF RequestInv
<1>10. ASSUME NEW ns \in Batches, BeginGet(ns) PROVE RequestInv'
  <2>1. /\ walk'.on = "get" /\ client' = client
        /\ kind' = kind /\ http' = http /\ (kind = "hooks" \/ http = Idle)
    BY <1>10 DEF BeginGet, Begin, otherVars
  <2> QED BY <2>1 DEF RequestInv
<1>11. CASE Visit
  <2>1. walk \in Walks
    BY <1>11 DEF Visit, Inv, WalkInv, Walking, Idle, Failed
  <2>2. walk'.on = walk.on \/ walk' = Failed
    BY <1>11, <2>1, VisitIs DEF Take, Skip, Walks
  <2>3. client' = client /\ kind' = kind /\ http' = http
    BY <1>11 DEF Visit, otherVars
  <2> QED BY <2>2, <2>3 DEF RequestInv, Walking, Failed
<1>12. CASE Answer \/ AnswerFails \/ AnswerNames
  BY <1>12 DEF Answer, AnswerFails, AnswerNames, Abort, RequestInv, Walking, Idle, Failed
<1> QED BY <1>3, <1>4, <1>5, <1>6, <1>7, <1>8, <1>9, <1>10, <1>11, <1>12 DEF Next

-----------------------------------------------------------------------------
\* The steps that keep it: changes of the table.

\* The table becomes another one, outside or inside a listing.
LEMMA PagesBecome ==
  ASSUME Inv, PageInv, NEW t, IsTable(t), Becomes(t), client' = client, query' = query,
         walk'.on = "list" => walk.on = "list"
  PROVE  PageInv'
<1>1. IsTable(table) /\ HistoryInv
  BY DEF Inv, TableInv
<1>2. /\ table' = t
      /\ seen'.once = seen.once /\ seen'.twice = seen.twice
      /\ seen'.fell = seen.fell \cup {n \in Reading : Place(t, n) < Place(table, n)}
      /\ seen'.rose = seen.rose \cup {n \in Reading : Place(t, n) > Place(table, n)}
      /\ seen'.always = IF client.done THEN seen.always ELSE seen.always \cap WholeNames(t)
      /\ seen.torn => seen'.torn
  BY <1>1, SeenIs
<1>3. \A n : Place(table, n)' = Place(t, n)
  BY <1>2, QueryStays
<1>4. \A n : Place(table, n) \in Nat /\ Place(t, n) \in Nat
  BY <1>1, PlaceIs
<1>5. client.page * PerPage \in Nat
  BY <1>1, PageBounds DEF HistoryInv
<1>6. seen.once \subseteq Names /\ seen.always \subseteq Names
  BY <1>1 DEF HistoryInv
<1>7. client.page = 0 /\ ~client.done => seen'.once = {} /\ seen'.twice = {}
  BY <1>2 DEF PageInv
<1> DEFINE b == client.page * PerPage
<1> HIDE DEF b
<1>8. ASSUME ~seen'.torn
      PROVE  /\ seen'.twice \subseteq seen'.rose
             /\ client.done => seen'.always \subseteq seen'.once \cup seen'.fell
  BY <1>2, <1>8 DEF PageInv
<1>9. ASSUME ~seen'.torn, ~client.done, NEW n \in seen'.once \ seen'.rose
      PROVE  Place(t, n) <= b
  <2>1. n \in seen.once /\ n \notin seen.rose /\ client.page # 0
    BY <1>2, <1>9 DEF PageInv
  <2>2. n \in Reading
    BY <1>6, <1>9, <2>1 DEF Reading
  <2>3. ~(Place(t, n) > Place(table, n))
    BY <1>2, <1>9, <2>2
  <2>4. Place(table, n) <= b
    BY <1>2, <1>9, <2>1 DEF PageInv, b
  <2> QED BY <1>4, <1>5, <2>3, <2>4 DEF b
<1>10. ASSUME ~seen'.torn, ~client.done, client.page # 0 \/ walk.on = "list"
       PROVE  /\ seen'.always \subseteq WholeNames(t)
              /\ \A n \in seen'.always \ (seen'.once \cup seen'.fell) : Place(t, n) > b
  <2>1. seen'.always \subseteq WholeNames(t)
    BY <1>2, <1>10
  <2>2. ASSUME NEW n \in seen'.always \ (seen'.once \cup seen'.fell)
        PROVE  Place(t, n) > b
    <3>1. n \in seen.always /\ n \notin seen.once /\ n \notin seen.fell
      BY <1>2, <1>10
    <3>2. n \in Reading
      BY <1>6, <1>10, <3>1 DEF Reading
    <3>3. ~(Place(t, n) < Place(table, n))
      BY <1>2, <3>2
    <3>4. Place(table, n) > b
      BY <1>2, <1>10, <3>1 DEF PageInv, b
    <3> QED BY <1>4, <1>5, <3>3, <3>4 DEF b
  <2> QED BY <2>1, <2>2
<1> QED BY <1>2, <1>3, <1>7, <1>8, <1>9, <1>10 DEF PageInv, b

\* The table stays.
LEMMA PagesStay ==
  ASSUME PageInv, table' = table, client' = client, query' = query,
         seen'.once = seen.once, seen'.twice = seen.twice, seen'.fell = seen.fell,
         seen'.rose = seen.rose, seen'.always = seen.always, seen'.torn = seen.torn,
         walk'.on = "list" => walk.on = "list"
  PROVE  PageInv'
<1>1. \A n : Place(table, n)' = Place(table, n)
  BY QueryStays
<1> QED BY <1>1 DEF PageInv

\* A listing that goes on while the table only grows.
Grows(t) ==
  /\ Preserves(table, t)
  /\ \E m : WholeNames(t) \subseteq WholeNames(table) \cup {m}
  /\ kind = "jobs" => Len(t) = Len(table)

LEMMA FoundKept ==
  ASSUME NEW t, IsTable(t), NEW u, IsTable(u), Preserves(t, u),
         NEW out, NEW todo, Found(t, out, todo)
  PROVE  Found(u, out, todo)
<1>1. \A i \in DOMAIN out : out[i] \in Entries(t) /\ out[i].name \in NamesOf(t)
  BY EntryIs DEF Found
<1>2. \A i \in DOMAIN out : out[i] \in Entries(u) /\ out[i].is = "whole"
  BY PrecedesKept DEF Found
<1>3. \A i \in DOMAIN todo : todo[i] \in NamesOf(t) /\ todo[i] \in NamesOf(u)
  BY DEF Found, Preserves
<1>4. \A i, j \in DOMAIN out : i < j => At(u, out[i].name) < At(u, out[j].name)
  BY <1>1 DEF Found, Preserves
<1>5. \A i, j \in DOMAIN todo : i < j => At(u, todo[i]) < At(u, todo[j])
  BY <1>3 DEF Found, Preserves
<1>6. \A i \in DOMAIN out, j \in DOMAIN todo : At(u, out[i].name) < At(u, todo[j])
  BY <1>1, <1>3 DEF Found, Preserves
<1> QED BY <1>2, <1>3, <1>4, <1>5, <1>6 DEF Found

LEMMA ListBecomes ==
  ASSUME Inv, RequestInv, ListInv, NEW t, IsTable(t), Becomes(t),
         walk' = walk, client' = client, kind' = kind, query' = query,
         Listing' => Grows(t)
  PROVE  ListInv'
<1> SUFFICES ASSUME Listing'
             PROVE  /\ Found(table', walk.out, walk.todo)
                    /\ seen'.always \subseteq seen'.steady
                    /\ \A n \in WholeNames(table') \ seen'.rose :
                         /\ n \in seen'.steady
                         /\ \A m \in WholeNames(table') : Precedes(table, m, n)' => m \in seen'.steady
                    /\ \A n \in seen'.always \ (seen'.once \cup seen'.fell) :
                         Cardinality(Ahead(table, seen.steady, n)') >= client.page * PerPage
  BY DEF ListInv, Ahead
<1>1. IsTable(table) /\ HistoryInv
  BY DEF Inv, TableInv
<1>2. /\ table' = t
      /\ seen'.once = seen.once
      /\ seen'.fell = seen.fell \cup {n \in Reading : Place(t, n) < Place(table, n)}
      /\ seen'.rose = seen.rose \cup {n \in Reading : Place(t, n) > Place(table, n)}
      /\ seen'.always = IF client.done THEN seen.always ELSE seen.always \cap WholeNames(t)
      /\ seen'.steady = seen.steady \cap WholeNames(t)
      /\ seen.torn => seen'.torn
  BY <1>1, SeenIs
<1>3. /\ Preserves(table, t)
      /\ \E m : WholeNames(t) \subseteq WholeNames(table) \cup {m}
      /\ kind = "jobs" => Len(t) = Len(table)
  BY DEF Grows
<1>4. Listing
  BY <1>2, <1>3 DEF Listing
<1>5. Reading = Names /\ ~client.done
  BY <1>4 DEF RequestInv, Listing, Reading
<1>6. /\ \A m, n : Precedes(table, m, n)' <=> Precedes(t, m, n)
      /\ \A m, n \in NamesOf(table) : Precedes(t, m, n) <=> Precedes(table, m, n)
  BY <1>1, <1>2, <1>3, QueryStays, PrecedesKept DEF Precedes
<1>7. /\ WholeNames(table) \subseteq NamesOf(table) /\ WholeNames(table) \subseteq WholeNames(t)
      /\ WholeNames(t) \subseteq NamesOf(t) /\ NamesOf(t) \subseteq Names
  BY <1>1, <1>3, WholeIs, TableIs DEF Preserves
<1>8. seen.steady \subseteq WholeNames(table) /\ seen'.steady = seen.steady
  BY <1>2, <1>7 DEF Inv, WalkInv
<1>9. Found(t, walk.out, walk.todo)
  BY <1>1, <1>3, <1>4, FoundKept DEF ListInv
<1>10. seen'.always \subseteq seen'.steady
  BY <1>2, <1>4, <1>8 DEF ListInv
<1>11. ASSUME NEW n \in WholeNames(t) \ seen'.rose
       PROVE  /\ n \in seen'.steady
              /\ \A m \in WholeNames(t) : Precedes(t, m, n) => m \in seen'.steady
  <2>1. n \in Reading /\ n \notin seen.rose /\ ~(Place(t, n) > Place(table, n))
    BY <1>2, <1>5, <1>7
  <2>2. /\ Place(t, n) = Cardinality(Ahead(t, WholeNames(t), n)) + 1
        /\ Place(table, n) \in Nat
        /\ n \in WholeNames(table) =>
             Place(table, n) = Cardinality(Ahead(table, WholeNames(table), n)) + 1
        /\ n \notin WholeNames(table) => Place(table, n) = 0
    BY <1>1, PlaceIs
  <2>3. IsFiniteSet(WholeNames(t))
    BY NamesFinite
  <2>4. /\ IsFiniteSet(Ahead(t, WholeNames(t), n))
        /\ Cardinality(Ahead(t, WholeNames(t), n)) \in Nat
    BY <2>3, AheadIs
  <2>5. n \in WholeNames(table)
    BY <2>1, <2>2, <2>4
  <2>6. /\ n \in seen.steady
        /\ Ahead(table, WholeNames(table), n) \subseteq seen.steady
    BY <1>4, <2>1, <2>5 DEF ListInv
  <2>7. Ahead(table, WholeNames(table), n) \in SUBSET Ahead(t, WholeNames(t), n)
    BY <1>6, <1>7, <2>5 DEF Ahead
  <2>8. /\ Cardinality(Ahead(table, WholeNames(table), n)) <= Cardinality(Ahead(t, WholeNames(t), n))
        /\ Cardinality(Ahead(table, WholeNames(table), n)) = Cardinality(Ahead(t, WholeNames(t), n))
             => Ahead(table, WholeNames(table), n) = Ahead(t, WholeNames(t), n)
        /\ Cardinality(Ahead(table, WholeNames(table), n)) \in Nat
    BY <2>4, <2>7, FS_Subset, FS_CardinalityType
  <2>9. Cardinality(Ahead(table, WholeNames(table), n)) = Cardinality(Ahead(t, WholeNames(t), n))
    BY <2>1, <2>2, <2>4, <2>5, <2>8
  <2>10. Ahead(t, WholeNames(t), n) \subseteq seen.steady
    BY <2>6, <2>8, <2>9
  <2> QED BY <1>8, <2>6, <2>10 DEF Ahead
<1>12. ASSUME NEW n \in seen'.always \ (seen'.once \cup seen'.fell)
       PROVE  Cardinality(Ahead(table, seen.steady, n)') >= client.page * PerPage
  <2>1. n \in seen.always /\ n \notin seen.once /\ n \notin seen.fell
    BY <1>2, <1>5
  <2>2. Cardinality(Ahead(table, seen.steady, n)) >= client.page * PerPage
    BY <1>4, <2>1 DEF ListInv
  <2>3. n \in seen.steady
    BY <1>4, <2>1 DEF ListInv
  <2>4. Ahead(table, seen.steady, n)' = Ahead(table, seen.steady, n)
    BY <1>6, <1>7, <1>8, <2>3 DEF Ahead
  <2> QED BY <2>2, <2>4
<1> QED BY <1>2, <1>6, <1>9, <1>10, <1>11, <1>12

\* Everything but the steps of a walk and a crash: the table stays, or changes
\* in a way that a listing bears.
TableStep ==
  /\ walk' = walk /\ client' = client /\ kind' = kind /\ query' = query
  /\ \/ table' = table /\ seen' = seen
     \/ \E t : Becomes(t) /\ (Listing' => Grows(t))

LEMMA OutsideListing ==
  ASSUME walk' = walk, client' = client, kind' = kind, query' = query,
         ~(Walking /\ kind # "hooks"), NEW t, Becomes(t)
  PROVE  TableStep
<1>1. ~Listing'
  BY DEF Listing, Walking
<1> QED BY <1>1 DEF TableStep

LEMMA PutGrows ==
  ASSUME Inv, NEW e \in Resources, e.name \in NamesOf(table), e.is = "whole",
         Becomes(Put(table, e)), walk' = walk, Listing'
  PROVE  Grows(Put(table, e))
<1>1. IsTable(table) /\ HistoryInv
  BY DEF Inv, TableInv
<1> DEFINE u == Put(table, e)
<1>2. /\ table' = u
      /\ \A i \in DOMAIN table, j \in DOMAIN u :
           u[j].name = table[i].name => u[j].value = table[i].value
  <2>1. walk.on = "list" /\ ~seen'.torn
    BY DEF Listing
  <2> QED BY <1>1, <2>1, SeenIs
<1>3. table[At(table, e.name)].value = e.value
  <2>1. IsTable(u) /\ e \in Entries(u)
    BY <1>1, PutIs
  <2>2. PICK j \in DOMAIN u : u[j] = e
    BY <2>1 DEF Entries
  <2>3. At(table, e.name) \in DOMAIN table /\ table[At(table, e.name)].name = e.name
    BY <1>1, AtIs
  <2> QED BY <1>2, <2>2, <2>3
<1>4. Preserves(table, u) /\ WholeNames(u) = WholeNames(table) \cup {e.name}
  BY <1>1, <1>3, PutPreserves
<1>5. Len(u) = Len(table)
  BY <1>1, Replaced DEF Put
<1> QED BY <1>4, <1>5 DEF Grows

LEMMA TableSteps ==
  ASSUME Inv, RequestInv, Next
  PROVE  \/ TableStep
         \/ BeginList \/ Visit \/ Answer \/ AnswerFails \/ AnswerNames
         \/ \E ns \in Batches : BeginGet(ns)
         \/ \E foreign \in SUBSET Names : Restart(foreign)
<1>1. ASSUME Free PROVE ~(Walking /\ kind # "hooks")
  BY <1>1 DEF Free
<1>2. ASSUME http.on # "nothing" PROVE ~(Walking /\ kind # "hooks")
  BY <1>2 DEF RequestInv, Idle
<1>3. ASSUME NEW n \in Names, NEW v \in Values,
             CreateDir(n, v) \/ Patch(n, v) \/ RegisterJob(n, v)
               \/ PutBucket(n, v) \/ PutScheduled(n, v) \/ SetHook(n, v)
      PROVE  TableStep
  <2>1. /\ walk' = walk /\ client' = client /\ kind' = kind /\ query' = query /\ Free
    BY <1>3 DEF CreateDir, Patch, RegisterJob, PutBucket, PutScheduled, SetHook,
                walkVars, otherVars
  <2>2. UNCHANGED tableVars \/ \E t : Becomes(t)
    BY <1>3 DEF CreateDir, Patch, RegisterJob, PutBucket, PutScheduled, SetHook
  <2>3. CASE UNCHANGED tableVars
    BY <2>1, <2>3 DEF TableStep, tableVars
  <2>4. CASE \E t : Becomes(t)
    BY <1>1, <2>1, <2>4, OutsideListing
  <2> QED BY <2>2, <2>3, <2>4
<1>4. ASSUME NEW n \in Names, NEW v \in Values, ChangeJob(n, v)
      PROVE  TableStep
  <2>1. /\ walk' = walk /\ client' = client /\ kind' = kind /\ query' = query
        /\ n \in NamesOf(table) /\ Becomes(Put(table, Entry(n, v)))
    BY <1>4 DEF ChangeJob, walkVars, otherVars
  <2>2. Entry(n, v) \in Resources /\ Entry(n, v).name = n /\ Entry(n, v).is = "whole"
    BY EntryOf DEF Entry
  <2>3. Listing' => Grows(Put(table, Entry(n, v)))
    BY <2>1, <2>2, PutGrows
  <2> QED BY <2>1, <2>3 DEF TableStep
<1>5. CASE WriteSettings \/ RemoveFiles \/ RemoveDir \/ RemoveDirFails \/ RemoveEntry
  <2>1. /\ walk' = walk /\ client' = client /\ kind' = kind /\ query' = query
        /\ http.on # "nothing"
    BY <1>5 DEF WriteSettings, RemoveFiles, RemoveDir, RemoveDirFails, RemoveEntry, walkVars,
                otherVars
  <2>2. UNCHANGED tableVars \/ \E t : Becomes(t)
    BY <1>5 DEF WriteSettings, RemoveFiles, RemoveDir, RemoveDirFails, RemoveEntry
  <2>3. CASE UNCHANGED tableVars
    BY <2>1, <2>3 DEF TableStep, tableVars
  <2>4. CASE \E t : Becomes(t)
    BY <1>2, <2>1, <2>4, OutsideListing
  <2> QED BY <2>2, <2>3, <2>4
<1>6. CASE ClearScheduled
  <2>1. /\ walk' = walk /\ client' = client /\ kind' = kind /\ query' = query /\ Free
        /\ Becomes(<<>>)
    BY <1>6 DEF ClearScheduled, walkVars, otherVars
  <2> QED BY <1>1, <2>1, OutsideListing
<1>7. ASSUME NEW ns \in Batches, Delete(ns) \/ DeleteEntries(ns)
      PROVE  TableStep
  BY <1>7 DEF Delete, DeleteEntries, TableStep, tableVars, walkVars, otherVars
<1>8. ASSUME NEW n \in Names, DeleteHook(n)
      PROVE  TableStep
  <2>1. /\ walk' = walk /\ client' = client /\ kind' = kind /\ query' = query /\ Free
        /\ Becomes(Without(table, n))
    BY <1>8 DEF DeleteHook, walkVars, otherVars
  <2> QED BY <1>1, <2>1, OutsideListing
<1>9. ASSUME NEW n \in Names, Age(n) \/ Train(n)
      PROVE  TableStep
  BY <1>9 DEF Age, Train, TableStep, tableVars, walkVars, otherVars
<1>10. CASE StopTraining \/ SaveCheckpoint
  BY <1>10 DEF StopTraining, SaveCheckpoint, TableStep, tableVars, walkVars, otherVars
<1>11. CASE TimerStep
  <2>1. /\ walk' = walk /\ client' = client /\ kind' = kind /\ query' = query
    BY <1>11 DEF TimerStep, walkVars, otherVars
  <2>2. CASE UNCHANGED tableVars
    BY <2>1, <2>2 DEF TableStep, tableVars
  <2>3. ASSUME timer.on = "forget", NEW n \in timer.expired, Becomes(Without(table, n))
        PROVE  TableStep
    <3>1. kind = "jobs" /\ n \in NamesOf(table)
      BY <2>3 DEF Inv, TimerInv, Idle
    <3>2. IsTable(table) /\ HistoryInv
      BY DEF Inv, TableInv
    <3>3. table' = Without(table, n) /\ Len(table') = Len(table) - 1 /\ Len(table) \in Nat
      BY <2>3, <3>1, <3>2, SeenIs, WithoutIs, TableIs
    <3>4. ASSUME walk.on = "list" PROVE walk.size \in Nat /\ Len(table) <= walk.size
      BY <3>1, <3>4 DEF Inv, WalkInv, Walks, Idle, Failed
    <3>5. ~Listing'
      BY <2>1, <3>1, <3>3, <3>4 DEF Listing
    <3> QED BY <2>1, <2>3, <3>5 DEF TableStep
  <2> QED BY <1>11, <2>2, <2>3 DEF TimerStep, BeginScan, Scan, Forget
<1>12. CASE SaveDir
  <2> DEFINE d == [Entry(saver.name, saver.value) EXCEPT !.is = "empty"]
  <2>1. /\ walk' = walk /\ client' = client /\ kind' = kind /\ query' = query
        /\ saver.on = "dir"
    BY <1>12 DEF SaveDir, walkVars, otherVars
  <2>2. /\ kind = "models" /\ saver.name \in Names /\ saver.value \in Values
        /\ IsTable(table)
    BY <2>1 DEF Inv, SaverInv, TableInv, Idle
  <2>3. d \in Resources /\ d.name = saver.name /\ d.is = "empty"
    BY <2>2 DEF Entry, Resources, Stored
  <2>4. CASE UNCHANGED tableVars
    BY <2>1, <2>4 DEF TableStep, tableVars
  <2>5. CASE Is(saver.name) = "missing" /\ Becomes(Insert(table, d))
    <3>1. saver.name \notin NamesOf(table)
      <4>1. ASSUME saver.name \in NamesOf(table) PROVE Is(saver.name) \in Stored
        <5>1. table[At(table, saver.name)] \in Resources
          BY <2>2, <4>1, AtIs
        <5> QED BY <4>1, <5>1 DEF Is, Resources
      <4> QED BY <2>5, <4>1 DEF Stored
    <3> HIDE DEF d
    <3>2. /\ Preserves(table, Insert(table, d))
          /\ WholeNames(Insert(table, d)) = WholeNames(table)
      BY <2>2, <2>3, <3>1, InsertPreserves DEF Disk
    <3>3. Grows(Insert(table, d))
      BY <2>2, <3>2 DEF Grows
    <3> QED BY <2>1, <2>5, <3>3 DEF TableStep
  <2> QED BY <1>12, <2>4, <2>5 DEF SaveDir
<1>13. CASE SaveSettings
  <2> DEFINE e == Entry(saver.name, saver.value)
  <2>1. /\ walk' = walk /\ client' = client /\ kind' = kind /\ query' = query
        /\ saver.on = "settings"
    BY <1>13 DEF SaveSettings, walkVars, otherVars
  <2>2. saver.name \in Names /\ saver.value \in Values
    BY <2>1 DEF Inv, SaverInv, Idle
  <2>3. e \in Resources /\ e.name = saver.name /\ e.is = "whole"
    BY <2>2, EntryOf DEF Entry
  <2>4. CASE UNCHANGED tableVars
    BY <2>1, <2>4 DEF TableStep, tableVars
  <2>5. CASE Is(saver.name) # "missing" /\ Becomes(Put(table, e))
    <3>1. saver.name \in NamesOf(table)
      BY <2>5 DEF Is
    <3> HIDE DEF e
    <3>2. Listing' => Grows(Put(table, e))
      BY <2>1, <2>3, <2>5, <3>1, PutGrows
    <3> QED BY <2>1, <2>5, <3>2 DEF TableStep
  <2> QED BY <1>13, <2>4, <2>5 DEF SaveSettings
<1> QED BY <1>3, <1>4, <1>5, <1>6, <1>7, <1>8, <1>9, <1>10, <1>11, <1>12, <1>13 DEF Next

LEMMA TableStepKeeps ==
  ASSUME Inv, Inv', PagesInv, TableStep
  PROVE  PageInv' /\ ListInv'
<1>1. /\ walk' = walk /\ client' = client /\ kind' = kind /\ query' = query
      /\ RequestInv /\ PageInv /\ ListInv
  BY DEF TableStep, PagesInv
<1>2. CASE table' = table /\ seen' = seen
  <2>1. PageInv'
    BY <1>1, <1>2, PagesStay
  <2>2. Listing' = Listing
    BY <1>1, <1>2 DEF Listing
  <2>3. \A m, n : Precedes(table, m, n)' <=> Precedes(table, m, n)
    BY <1>1, <1>2, QueryStays
  <2>4. \A S, n : {m \in S : Precedes(table, m, n)'} = {m \in S : Precedes(table, m, n)}
    BY <2>3
  <2>5. /\ \A n : Ahead(table, WholeNames(table), n)' = Ahead(table, WholeNames(table), n)
        /\ \A n : Ahead(table, seen.steady, n)' = Ahead(table, seen.steady, n)
    BY <1>2, <2>4 DEF Ahead
  <2>6. ListInv'
    BY <1>1, <1>2, <2>2, <2>5 DEF ListInv
  <2> QED BY <2>1, <2>6
<1>3. ASSUME NEW t, Becomes(t), Listing' => Grows(t)
      PROVE  PageInv' /\ ListInv'
  <2>1. IsTable(t)
    BY <1>3, BecomesIs DEF Inv, TableInv
  <2> QED BY <1>1, <1>3, <2>1, PagesBecome, ListBecomes
<1> QED BY <1>2, <1>3 DEF TableStep

-----------------------------------------------------------------------------
\* The steps that keep it: the walks.

LEMMA FoundSkipped ==
  ASSUME NEW t, NEW out, NEW todo \in Seq(Names), todo # <<>>, Found(t, out, todo)
  PROVE  Found(t, out, Tail(todo))
<1> DEFINE r == Tail(todo)
           n == Len(todo)
<1>1. n \in Nat /\ DOMAIN todo = 1..n
  OBVIOUS
<1>2. /\ r \in Seq(Names) /\ Len(r) = n - 1
      /\ \A i \in 1..(n - 1) : r[i] = todo[i + 1]
  BY HeadTailProperties
<1>3. DOMAIN r = 1..(n - 1)
  BY <1>2
<1> HIDE DEF r, n
<1>4. \A i \in DOMAIN r : i \in Int /\ i + 1 \in DOMAIN todo /\ r[i] = todo[i + 1]
  BY <1>1, <1>2, <1>3
<1>5. \A i \in DOMAIN r : r[i] \in NamesOf(t)
  BY <1>4 DEF Found
<1>6. \A i, j \in DOMAIN r : i < j => At(t, r[i]) < At(t, r[j])
  <2> TAKE i, j \in DOMAIN r
  <2>1. i < j => i + 1 < j + 1
    BY <1>4
  <2> QED BY <1>4, <2>1 DEF Found
<1>7. \A i \in DOMAIN out, j \in DOMAIN r : At(t, out[i].name) < At(t, r[j])
  BY <1>4 DEF Found
<1>8. Found(t, out, r)
  BY <1>5, <1>6, <1>7 DEF Found
<1> QED BY <1>8 DEF r

LEMMA FoundTaken ==
  ASSUME NEW t, IsTable(t), NEW out \in Seq(Resources), NEW todo \in Seq(Names),
         todo # <<>>, Found(t, out, todo), Head(todo) \in WholeNames(t)
  PROVE  Found(t, Append(out, t[At(t, Head(todo))]), Tail(todo))
<1> DEFINE n == Head(todo)
           r == Tail(todo)
           e == t[At(t, n)]
           m == Len(out)
           w == Append(out, e)
<1>1. n \in NamesOf(t) /\ e \in Entries(t) /\ e \in Resources /\ e.name = n /\ e.is = "whole"
  BY WholeIs, AtIs
<1>2. Found(t, out, r)
  BY FoundSkipped
<1>3. 1 \in DOMAIN todo /\ todo[1] = n /\ r \in Seq(Names)
      /\ \A j \in DOMAIN r : j \in Int /\ 1 < j + 1 /\ j + 1 \in DOMAIN todo /\ r[j] = todo[j + 1]
  <2> DEFINE k == Len(todo)
  <2>1. k \in Nat /\ k >= 1 /\ DOMAIN todo = 1..k /\ todo[1] = n
    OBVIOUS
  <2>2. /\ r \in Seq(Names) /\ Len(r) = k - 1
        /\ \A i \in 1..(k - 1) : r[i] = todo[i + 1]
    BY HeadTailProperties
  <2>3. DOMAIN r = 1..(k - 1)
    BY <2>2
  <2> HIDE DEF n, r, k
  <2> QED BY <2>1, <2>2, <2>3
<1>4. \A i \in DOMAIN out : At(t, out[i].name) < At(t, n)
  BY <1>3 DEF Found
<1>5. \A j \in DOMAIN r : At(t, n) < At(t, r[j])
  BY <1>3 DEF Found
<1>6. /\ m \in Nat /\ DOMAIN out = 1..m /\ DOMAIN w = 1..(m + 1) /\ w[m + 1] = e
      /\ \A i \in 1..m : w[i] = out[i]
  BY <1>1
<1> HIDE DEF n, r, e, m, w
<1>7. \A i \in 1..(m + 1) : (i \in 1..m /\ w[i] = out[i]) \/ (i = m + 1 /\ w[i] = e)
  BY <1>6
<1>8. \A i \in DOMAIN w : w[i] \in Entries(t) /\ w[i].is = "whole"
  BY <1>1, <1>6, <1>7 DEF Found
<1>9. ASSUME NEW i \in DOMAIN w, NEW j \in DOMAIN w, i < j
      PROVE  At(t, w[i].name) < At(t, w[j].name)
  <2>1. i \in 1..m /\ w[i] = out[i]
    BY <1>6, <1>9
  <2>2. CASE j \in 1..m
    BY <1>6, <1>9, <2>1, <2>2 DEF Found
  <2>3. CASE j = m + 1
    BY <1>1, <1>4, <1>6, <2>1, <2>3
  <2> QED BY <1>6, <2>2, <2>3
<1>10. \A i \in DOMAIN w, j \in DOMAIN r : At(t, w[i].name) < At(t, r[j])
  BY <1>1, <1>2, <1>5, <1>6, <1>7 DEF Found
<1>11. Found(t, w, r)
  BY <1>2, <1>8, <1>9, <1>10 DEF Found
<1> QED BY <1>11 DEF w, r, e, n

\* What was taken is sorted as it is in the table.
LEMMA OutIs ==
  ASSUME NEW t, IsTable(t), NEW out \in Seq(Resources), NEW todo, Found(t, out, todo)
  PROVE  /\ IsTable(out) /\ NamesOf(out) \subseteq WholeNames(t)
         /\ \A i \in DOMAIN out :
              Rank(out, i) = Cardinality(Ahead(t, NamesOf(out), out[i].name))
<1>1. \A i \in DOMAIN out : i \in Int /\ out[i] \in Entries(t) /\ out[i].is = "whole"
  BY DEF Found
<1>2. \A i \in DOMAIN out : /\ out[i].name \in NamesOf(t) /\ out[i].name \in WholeNames(t)
                            /\ t[At(t, out[i].name)] = out[i]
                            /\ At(t, out[i].name) \in Int
  <2> TAKE i \in DOMAIN out
  <2>1. out[i].name \in NamesOf(t) /\ t[At(t, out[i].name)] = out[i]
    BY <1>1, EntryIs
  <2>2. out[i].name \in WholeNames(t)
    BY <1>1, WholeIs
  <2>3. At(t, out[i].name) \in DOMAIN t /\ DOMAIN t = 1..Len(t)
    BY <2>1, AtIs, TableIs
  <2>4. At(t, out[i].name) \in Int
    BY <2>3
  <2> QED BY <2>1, <2>2, <2>4
<1>3. \A i, j \in DOMAIN out : i < j <=> At(t, out[i].name) < At(t, out[j].name)
  <2> TAKE i, j \in DOMAIN out
  <2>1. i < j \/ i = j \/ j < i
    BY <1>1
  <2>2. /\ i < j => At(t, out[i].name) < At(t, out[j].name)
        /\ j < i => At(t, out[j].name) < At(t, out[i].name)
    BY DEF Found
  <2> QED BY <1>1, <1>2, <2>1, <2>2
<1>4. IsTable(out)
  <2>1. \A i, j \in DOMAIN out : out[i].name = out[j].name => i = j
    <3> TAKE i, j \in DOMAIN out
    <3>1. i < j \/ i = j \/ j < i
      BY <1>1
    <3> QED BY <1>2, <1>3, <3>1
  <2> QED BY <2>1 DEF IsTable
<1>5. NamesOf(out) \subseteq WholeNames(t)
  BY <1>2 DEF NamesOf
<1>6. \A i, j \in DOMAIN out : Before(out, j, i) <=> Precedes(t, out[j].name, out[i].name)
  <2> TAKE i, j \in DOMAIN out
  <2>1. /\ SortKey(out, i) = SortKey(t, At(t, out[i].name))
        /\ SortKey(out, j) = SortKey(t, At(t, out[j].name))
    BY <1>2 DEF SortKey
  <2> QED BY <1>3, <2>1 DEF Before, Precedes
<1>7. ASSUME NEW i \in DOMAIN out
      PROVE  Rank(out, i) = Cardinality(Ahead(t, NamesOf(out), out[i].name))
  <2> DEFINE S == {j \in DOMAIN out : Before(out, j, i)}
  <2>1. {out[j].name : j \in S} = Ahead(t, NamesOf(out), out[i].name)
    BY <1>6 DEF Ahead, NamesOf
  <2>2. S \in SUBSET DOMAIN out /\ Rank(out, i) = Cardinality(S)
    BY DEF Rank
  <2> HIDE DEF S
  <2>3. Cardinality({out[j].name : j \in S}) = Cardinality(S)
    BY <1>4, <2>2, NamesCounted
  <2> QED BY <2>1, <2>2, <2>3
<1> QED BY <1>4, <1>5, <1>7

LEMMA PagesVisit ==
  ASSUME Inv, PagesInv, Visit
  PROVE  PageInv' /\ ListInv'
<1> DEFINE n == Head(walk.todo)
<1>1. /\ Walking /\ walk.todo # <<>>
      /\ table' = table /\ seen' = seen /\ client' = client /\ kind' = kind /\ query' = query
  BY DEF Visit, tableVars, otherVars
<1>2. walk \in Walks
  BY <1>1 DEF Inv, WalkInv, Walking, Idle, Failed
<1>3. IsTable(table)
  BY DEF Inv, TableInv
<1>4. walk'.on = "list" => walk.on = "list" /\ walk'.size = walk.size
  <2>1. CASE walk' = Failed
    BY <2>1 DEF Failed
  <2>2. ASSUME NEW e, walk' = [walk EXCEPT !.todo = Tail(@), !.out = Append(@, e)]
        PROVE  walk'.on = walk.on /\ walk'.size = walk.size
    BY <1>2, <2>2 DEF Walks
  <2>3. ASSUME walk' = [walk EXCEPT !.todo = Tail(@)]
        PROVE  walk'.on = walk.on /\ walk'.size = walk.size
    BY <1>2, <2>3 DEF Walks
  <2> QED BY <2>1, <2>2, <2>3, VisitIs DEF Take, Skip
<1>5. PageInv'
  BY <1>1, <1>4, PagesStay DEF PagesInv
<1>6. ASSUME Listing' PROVE Listing /\ Found(table, walk'.out, walk'.todo)
  <2>1. Listing
    BY <1>1, <1>4, <1>6 DEF Listing
  <2>2. Found(table, walk.out, walk.todo)
    BY <2>1 DEF PagesInv, ListInv
  <2>3. walk.out \in Seq(Resources) /\ walk.todo \in Seq(Names)
    BY <1>2 DEF Walks
  <2>4. CASE walk' = Failed
    BY <1>6, <2>4 DEF Listing, Failed
  <2>5. CASE n \in NamesOf(table) /\ Take(n) /\ (kind \notin Memory => n \in WholeNames(table))
    <3>1. n \in WholeNames(table)
      <4>1. CASE kind \in Memory
        <5>1. table[At(table, n)] \in Entries(table)
          BY <1>3, <2>5, AtIs
        <5> QED BY <1>3, <2>5, <4>1, <5>1, WholeIs DEF PagesInv, MemoryInv
      <4> QED BY <2>5, <4>1
    <3>2. Found(table, Append(walk.out, table[At(table, n)]), Tail(walk.todo))
      BY <1>1, <1>3, <2>2, <2>3, <3>1, FoundTaken
    <3>3. walk'.out = Append(walk.out, table[At(table, n)]) /\ walk'.todo = Tail(walk.todo)
      BY <1>2, <2>5 DEF Take, Walks
    <3> QED BY <2>1, <3>2, <3>3
  <2>6. CASE Skip
    <3>1. walk'.out = walk.out /\ walk'.todo = Tail(walk.todo)
      BY <1>2, <2>6 DEF Skip, Walks
    <3> QED BY <1>1, <2>1, <2>2, <2>3, <3>1, FoundSkipped
  <2> QED BY <2>4, <2>5, <2>6, VisitIs
<1>7. \A m, k : Precedes(table, m, k)' <=> Precedes(table, m, k)
  BY <1>1, QueryStays
<1>8. \A S, k : {m \in S : Precedes(table, m, k)'} = {m \in S : Precedes(table, m, k)}
  BY <1>7
<1>9. /\ \A k : Ahead(table, WholeNames(table), k)' = Ahead(table, WholeNames(table), k)
      /\ \A k : Ahead(table, seen.steady, k)' = Ahead(table, seen.steady, k)
  BY <1>1, <1>8 DEF Ahead
<1>10. ListInv'
  BY <1>1, <1>6, <1>9 DEF PagesInv, ListInv
<1> QED BY <1>5, <1>10

LEMMA PagesBeginList ==
  ASSUME Inv, PagesInv, BeginList
  PROVE  PageInv' /\ ListInv'
<1> DEFINE ns == [i \in DOMAIN table |-> table[i].name]
           now == WholeNames(table)
<1>1. /\ ~client.done
      /\ walk' = [on |-> "list", todo |-> ns, size |-> Len(table), out |-> <<>>]
      /\ table' = table /\ client' = client /\ kind' = kind /\ query' = query
      /\ seen' = [seen EXCEPT !.fell = IF client.page = 0 THEN {} ELSE @,
                              !.rose = IF client.page = 0 THEN {} ELSE @,
                              !.always = IF client.page = 0 THEN now ELSE @,
                              !.torn = client.page # 0 /\ @,
                              !.steady = now]
  BY DEF BeginList, Begin, otherVars
<1>2. IsTable(table) /\ HistoryInv
  BY DEF Inv, TableInv
<1>3. /\ seen'.once = seen.once /\ seen'.twice = seen.twice /\ seen'.steady = now
      /\ seen'.fell = IF client.page = 0 THEN {} ELSE seen.fell
      /\ seen'.rose = IF client.page = 0 THEN {} ELSE seen.rose
      /\ seen'.always = IF client.page = 0 THEN now ELSE seen.always
  BY <1>1, <1>2 DEF HistoryInv
<1>4. client.page # 0 => seen'.torn = seen.torn
  <2>1. seen'.torn = (client.page # 0 /\ seen.torn)
    BY <1>1, <1>2 DEF HistoryInv
  <2>2. seen.torn \in BOOLEAN
    BY <1>2 DEF HistoryInv
  <2> QED BY <2>1, <2>2
<1>5. /\ walk'.on = "list" /\ walk'.todo = ns /\ walk'.out = <<>>
  BY <1>1
<1>6. Found(table, <<>>, ns)
  <2> DEFINE m == Len(table)
  <2>1. m \in Nat /\ DOMAIN table = 1..m
    BY <1>2, TableIs
  <2>2. DOMAIN ns = DOMAIN table /\ \A i \in DOMAIN table : ns[i] = table[i].name
    OBVIOUS
  <2>3. \A i \in DOMAIN table : ns[i] \in NamesOf(table) /\ At(table, ns[i]) = i
    <3> TAKE i \in DOMAIN table
    <3>1. table[i].name \in NamesOf(table)
      BY DEF NamesOf
    <3> QED BY <1>2, <2>2, <3>1, AtIs
  <2>4. DOMAIN <<>> = {}
    OBVIOUS
  <2> HIDE DEF ns, m
  <2> QED BY <2>2, <2>3, <2>4 DEF Found
<1> HIDE DEF ns
<1>7. now \subseteq NamesOf(table) /\ IsFiniteSet(now)
  BY <1>2, WholeIs, NamesFinite
<1>8. \A n : /\ Place(table, n) \in Nat
             /\ n \in now => Place(table, n) = Cardinality(Ahead(table, now, n)) + 1
             /\ Cardinality(Ahead(table, now, n)) \in Nat
  BY <1>2, <1>7, PlaceIs, AheadIs
<1>9. /\ client.page \in Nat /\ client.page * PerPage \in Nat
      /\ client.page = 0 => client.page * PerPage = 0
  BY <1>2, PageBounds, ListingBounds DEF HistoryInv
<1>10. \A n : Place(table, n)' = Place(table, n)
  BY <1>1, QueryStays
<1>11. \A S, n : {m \in S : Precedes(table, m, n)'} = Ahead(table, S, n)
  BY <1>1, QueryStays DEF Ahead
<1>12. /\ \A n : Ahead(table, WholeNames(table), n)' = Ahead(table, now, n)
       /\ \A n : Ahead(table, seen.steady, n)' = Ahead(table, now, n)
  BY <1>1, <1>3, <1>11 DEF Ahead
<1> DEFINE b == client.page * PerPage
<1> HIDE DEF b, now
<1>13. CASE client.page = 0
  <2>1. /\ seen'.once = {} /\ seen'.twice = {} /\ seen'.always = now /\ b = 0
    BY <1>1, <1>3, <1>9, <1>13 DEF PagesInv, PageInv, b
  <2>2. \A n \in now : Place(table, n) > b /\ Cardinality(Ahead(table, now, n)) >= b
    BY <1>8, <2>1
  <2>3. PageInv'
    BY <1>1, <1>10, <2>1, <2>2 DEF PageInv, b, now
  <2>4. ListInv'
    <3>1. Found(table', walk'.out, walk'.todo)
      BY <1>1, <1>5, <1>6
    <3>2. \A n : Ahead(table, now, n) \subseteq now
      BY DEF Ahead
    <3> QED BY <1>1, <1>3, <1>12, <2>1, <2>2, <3>1, <3>2 DEF ListInv, b, now
  <2> QED BY <2>3, <2>4
<1>14. CASE client.page # 0
  <2>1. /\ seen'.fell = seen.fell /\ seen'.rose = seen.rose /\ seen'.always = seen.always
        /\ seen'.torn = seen.torn
    BY <1>3, <1>4, <1>14
  <2>2. ASSUME ~seen.torn
        PROVE  /\ seen.always \subseteq now
               /\ \A n \in seen.always \ (seen.once \cup seen.fell) : Place(table, n) > b
    BY <1>1, <1>14, <2>2 DEF PagesInv, PageInv, b, now
  <2>3. PageInv'
    BY <1>1, <1>3, <1>10, <1>14, <2>1 DEF PagesInv, PageInv
  <2>4. ListInv'
    <3>1. Found(table', walk'.out, walk'.todo)
      BY <1>1, <1>5, <1>6
    <3>2. \A n : Ahead(table, now, n) \subseteq now
      BY DEF Ahead
    <3>3. ASSUME ~seen.torn, NEW n \in seen.always \ (seen.once \cup seen.fell)
          PROVE  Cardinality(Ahead(table, now, n)) >= b
      <4>1. n \in now /\ Place(table, n) > b
        BY <2>2, <3>3
      <4> QED BY <1>8, <1>9, <4>1 DEF b
    <3>4. ASSUME Listing' PROVE ~seen.torn
      BY <2>1, <3>4 DEF Listing
    <3> QED BY <1>1, <1>3, <1>12, <2>1, <2>2, <3>1, <3>2, <3>3, <3>4 DEF ListInv, b, now
  <2> QED BY <2>3, <2>4
<1> QED BY <1>13, <1>14

\* A page is answered.
LEMMA PagesAnswer ==
  ASSUME Inv, PagesInv, Answer
  PROVE  PageInv' /\ ListInv'
<1> DEFINE page == Page(walk.out, client.page)
           out == walk.out
           a == client.page * PerPage
           b == (client.page + 1) * PerPage
<1>1. /\ walk.on = "list" /\ walk.todo = <<>> /\ kind # "hooks" /\ walk' = Idle
      /\ kind = "jobs" => Len(table) = walk.size
      /\ seen' = [seen EXCEPT !.once = @ \cup page,
                              !.twice = @ \cup (seen.once \cap page),
                              !.steady = {}]
      /\ client' = IF Cardinality(page) < PerPage
                   THEN [client EXCEPT !.done = TRUE]
                   ELSE [client EXCEPT !.page = @ + 1]
      /\ table' = table /\ query' = query
  BY DEF Answer, otherVars
<1>2. ListInv'
  BY <1>1 DEF ListInv, Listing, Idle
<1>3. IsTable(table) /\ HistoryInv /\ client \in [page: Nat, done: BOOLEAN]
  BY DEF Inv, TableInv, HistoryInv
<1>4. ~client.done
  BY <1>1 DEF PagesInv, RequestInv
<1>5. /\ seen'.once = seen.once \cup page /\ seen'.twice = seen.twice \cup (seen.once \cap page)
      /\ seen'.fell = seen.fell /\ seen'.rose = seen.rose /\ seen'.always = seen.always
      /\ seen'.torn = seen.torn
  <2> HIDE DEF page
  <2> QED BY <1>1, <1>3 DEF HistoryInv
<1>6. \/ client'.done /\ Cardinality(page) < PerPage
      \/ ~client'.done /\ client'.page = client.page + 1
  <2> HIDE DEF page
  <2> QED BY <1>1, <1>3, <1>4
<1>7. a \in Nat /\ b \in Nat /\ b = a + PerPage /\ PerPage \in Nat /\ client.page \in Nat
  BY <1>3, PageBounds
<1>8. client'.page = 0 => client'.done
  BY <1>6, <1>7
<1>9. \A n : Place(table, n)' = Place(table, n)
  BY <1>1, QueryStays
<1>10. ASSUME seen.torn PROVE PageInv'
  <2> HIDE DEF page, a, b
  <2> QED BY <1>5, <1>8, <1>10 DEF PageInv
<1>11. ASSUME ~seen.torn PROVE PageInv'
  <2>1. Listing
    BY <1>1, <1>11 DEF Listing
  <2>2. out \in Seq(Resources) /\ seen.steady \subseteq NamesOf(out)
    <3>1. walk \in Walks
      BY <1>1 DEF Inv, WalkInv, Idle, Failed
    <3>2. ToSet(walk.todo) = {} /\ Walking
      BY <1>1 DEF ToSet, Walking
    <3> QED BY <3>1, <3>2 DEF Inv, WalkInv, Walks
  <2>3. /\ IsTable(out) /\ NamesOf(out) \subseteq WholeNames(table)
        /\ \A i \in DOMAIN out :
             Rank(out, i) = Cardinality(Ahead(table, NamesOf(out), out[i].name))
    BY <1>3, <2>1, <2>2, OutIs DEF PagesInv, ListInv
  <2>4. IsFiniteSet(WholeNames(table)) /\ IsFiniteSet(NamesOf(out))
    BY <1>3, <2>3, NamesFinite
  <2>5. ASSUME NEW i \in DOMAIN out
        PROVE  /\ Rank(out, i) \in Nat /\ Place(table, out[i].name) \in Nat
               /\ Place(table, out[i].name) >= Rank(out, i) + 1
               /\ out[i].name \notin seen.rose => Place(table, out[i].name) = Rank(out, i) + 1
               /\ out[i].name \in seen.always \ (seen.once \cup seen.fell) => Rank(out, i) >= a
    <3> DEFINE n == out[i].name
    <3>1. n \in NamesOf(out) /\ n \in WholeNames(table)
      BY <2>3 DEF NamesOf
    <3>2. Place(table, n) = Cardinality(Ahead(table, WholeNames(table), n)) + 1
      BY <1>3, <3>1, PlaceIs
    <3>3. Rank(out, i) = Cardinality(Ahead(table, NamesOf(out), n))
      BY <2>3
    <3> HIDE DEF n
    <3>4. /\ Cardinality(Ahead(table, NamesOf(out), n)) \in Nat
          /\ Cardinality(Ahead(table, WholeNames(table), n)) \in Nat
          /\ Cardinality(Ahead(table, NamesOf(out), n))
               <= Cardinality(Ahead(table, WholeNames(table), n))
      BY <2>3, <2>4, AheadIs
    <3>5. ASSUME n \notin seen.rose PROVE Place(table, n) = Rank(out, i) + 1
      <4>1. Ahead(table, WholeNames(table), n) \subseteq NamesOf(out)
        BY <2>1, <2>2, <3>1, <3>5 DEF PagesInv, ListInv
      <4>2. Ahead(table, WholeNames(table), n) = Ahead(table, NamesOf(out), n)
        BY <2>3, <4>1 DEF Ahead
      <4> QED BY <3>2, <3>3, <4>2
    <3>6. ASSUME n \in seen.always \ (seen.once \cup seen.fell) PROVE Rank(out, i) >= a
      <4>1. Cardinality(Ahead(table, seen.steady, n)) >= a
        BY <2>1, <3>6 DEF PagesInv, ListInv
      <4>2. /\ Cardinality(Ahead(table, seen.steady, n)) \in Nat
            /\ Cardinality(Ahead(table, seen.steady, n)) <= Cardinality(Ahead(table, NamesOf(out), n))
        BY <2>2, <2>4, AheadIs
      <4> HIDE DEF a
      <4> QED BY <1>7, <3>3, <3>4, <4>1, <4>2
    <3> QED BY <3>2, <3>3, <3>4, <3>5, <3>6 DEF n
  <2>6. \A n \in page : \E i \in DOMAIN out :
          out[i].name = n /\ Rank(out, i) >= a /\ Rank(out, i) < b
    BY DEF Page
  <2>7. \A i \in DOMAIN out : Rank(out, i) >= a /\ Rank(out, i) < b => out[i].name \in page
    BY DEF Page
  <2>8. ASSUME NEW k \in DOMAIN out, Rank(out, k) >= b PROVE Cardinality(page) >= PerPage
    BY <1>7, <2>3, <2>8, FullPage
  <2>9. Cardinality(page) \in Nat
    <3> DEFINE I == {j \in DOMAIN out : Rank(out, j) >= a /\ Rank(out, j) < b}
    <3>1. page = {out[i].name : i \in I} /\ I \in SUBSET DOMAIN out
      BY DEF Page
    <3> HIDE DEF I, page
    <3> QED BY <2>3, <3>1, NamesCounted, FS_CardinalityType
  <2> HIDE DEF page, a, b
  <2>10. seen'.twice \subseteq seen'.rose
    <3>1. ASSUME NEW n \in seen.once \cap page, n \notin seen.rose PROVE FALSE
      <4>1. Place(table, n) <= a
        BY <1>4, <1>11, <3>1 DEF PagesInv, PageInv, a
      <4>2. PICK i \in DOMAIN out : out[i].name = n /\ Rank(out, i) >= a
        BY <2>6
      <4> QED BY <1>7, <2>5, <4>1, <4>2
    <3>2. seen.twice \subseteq seen.rose
      BY <1>11 DEF PagesInv, PageInv
    <3> QED BY <1>5, <3>1, <3>2
  <2>11. ASSUME NEW n \in seen'.always \ (seen'.once \cup seen'.fell)
         PROVE  \E i \in DOMAIN out : out[i].name = n /\ Rank(out, i) >= b
    <3>1. n \in seen.always /\ n \notin seen.once /\ n \notin page /\ n \notin seen.fell
      BY <1>5
    <3>2. n \in NamesOf(out)
      BY <2>1, <2>2, <3>1 DEF PagesInv, ListInv
    <3>3. PICK i \in DOMAIN out : out[i].name = n
      BY <3>2 DEF NamesOf
    <3>4. Rank(out, i) \in Nat /\ Rank(out, i) >= a
      BY <2>5, <3>1, <3>3
    <3>5. ~(Rank(out, i) < b)
      BY <2>7, <3>1, <3>3, <3>4
    <3> QED BY <1>7, <3>3, <3>4, <3>5
  <2>12. ASSUME client'.done
         PROVE  seen'.always \subseteq seen'.once \cup seen'.fell
    <3>1. Cardinality(page) < PerPage
      BY <1>6, <2>12
    <3> QED BY <1>7, <2>8, <2>9, <2>11, <3>1
  <2>13. ASSUME ~client'.done, NEW n \in seen'.once \ seen'.rose
         PROVE  Place(table, n) <= b
    <3>1. CASE n \in seen.once
      <4>1. Place(table, n) <= a /\ Place(table, n) \in Nat
        BY <1>3, <1>4, <1>5, <1>11, <2>13, <3>1, PlaceIs DEF PagesInv, PageInv, a
      <4> QED BY <1>7, <4>1
    <3>2. CASE n \in page
      <4>1. PICK i \in DOMAIN out : out[i].name = n /\ Rank(out, i) < b
        BY <2>6, <3>2
      <4>2. Place(table, n) = Rank(out, i) + 1 /\ Rank(out, i) \in Nat
        BY <1>5, <2>5, <2>13, <4>1
      <4> QED BY <1>7, <4>1, <4>2
    <3> QED BY <1>5, <2>13, <3>1, <3>2
  <2>14. ASSUME ~client'.done
         PROVE  /\ seen'.always \subseteq WholeNames(table)
                /\ \A n \in seen'.always \ (seen'.once \cup seen'.fell) : Place(table, n) > b
    <3>1. seen.always \subseteq WholeNames(table)
      BY <1>1, <1>4, <1>11 DEF PagesInv, PageInv
    <3>2. ASSUME NEW n \in seen'.always \ (seen'.once \cup seen'.fell)
          PROVE  Place(table, n) > b
      <4>1. PICK i \in DOMAIN out : out[i].name = n /\ Rank(out, i) >= b
        BY <2>11
      <4>2. /\ Place(table, n) \in Nat /\ Rank(out, i) \in Nat
            /\ Place(table, n) >= Rank(out, i) + 1
        BY <2>5, <4>1
      <4> QED BY <1>7, <4>1, <4>2
    <3> QED BY <1>5, <3>1, <3>2
  <2>15. ~client'.done => client'.page * PerPage = b
    BY <1>6 DEF b
  <2>16. table' = table /\ walk'.on # "list"
    BY <1>1 DEF Idle
  <2>17. WholeNames(table)' = WholeNames(table)
    BY <2>16
  <2> QED BY <1>8, <1>9, <2>10, <2>12, <2>13, <2>14, <2>15, <2>16, <2>17 DEF PageInv
<1> QED BY <1>2, <1>10, <1>11

LEMMA PagesKeep ==
  ASSUME Inv, Inv', PagesInv, Next
  PROVE  PagesInv'
<1>1. MemoryInv' /\ RequestInv'
  BY MemoryKeeps, RequestKeeps DEF PagesInv
<1>2. ASSUME TableStep PROVE PageInv' /\ ListInv'
  BY <1>2, TableStepKeeps
<1>3. ASSUME NEW ns \in Batches, BeginGet(ns)
      PROVE  PageInv' /\ ListInv'
  <2>1. /\ table' = table /\ client' = client /\ query' = query /\ walk'.on = "get"
        /\ seen' = [seen EXCEPT !.steady = WholeNames(table) \cap ToSet(ns)]
    BY <1>3 DEF BeginGet, Begin, otherVars
  <2>2. /\ seen'.once = seen.once /\ seen'.twice = seen.twice /\ seen'.fell = seen.fell
        /\ seen'.rose = seen.rose /\ seen'.always = seen.always /\ seen'.torn = seen.torn
    BY <2>1 DEF Inv, HistoryInv
  <2>3. PageInv'
    BY <2>1, <2>2, PagesStay DEF PagesInv
  <2>4. ListInv'
    BY <2>1 DEF ListInv, Listing
  <2> QED BY <2>3, <2>4
<1>4. ASSUME AnswerFails \/ AnswerNames PROVE PageInv' /\ ListInv'
  <2>1. /\ table' = table /\ client' = client /\ query' = query
        /\ walk' = Failed \/ walk' = Idle
        /\ seen' = seen \/ seen' = [seen EXCEPT !.steady = {}]
    BY <1>4 DEF AnswerFails, AnswerNames, Abort, otherVars, tableVars
  <2>2. /\ seen'.once = seen.once /\ seen'.twice = seen.twice /\ seen'.fell = seen.fell
        /\ seen'.rose = seen.rose /\ seen'.always = seen.always /\ seen'.torn = seen.torn
    BY <2>1 DEF Inv, HistoryInv
  <2>3. walk'.on # "list"
    BY <2>1 DEF Failed, Idle
  <2>4. PageInv'
    BY <2>1, <2>2, <2>3, PagesStay DEF PagesInv
  <2>5. ListInv'
    BY <2>3 DEF ListInv, Listing
  <2> QED BY <2>4, <2>5
<1>5. ASSUME NEW foreign \in SUBSET Names, Restart(foreign)
      PROVE  PageInv' /\ ListInv'
  <2>1. /\ \E t : Becomes(t)
        /\ client' = client /\ query' = query /\ walk' = Idle
    BY <1>5 DEF Restart, otherVars
  <2>2. PICK t : Becomes(t)
    BY <2>1
  <2>3. IsTable(t)
    BY <2>2, BecomesIs DEF Inv, TableInv
  <2>4. walk'.on # "list"
    BY <2>1 DEF Idle
  <2>5. PageInv'
    BY <2>1, <2>2, <2>3, <2>4, PagesBecome DEF PagesInv
  <2>6. ListInv'
    BY <2>4 DEF ListInv, Listing
  <2> QED BY <2>5, <2>6
<1>6. PageInv' /\ ListInv'
  BY <1>2, <1>3, <1>4, <1>5, TableSteps, PagesVisit, PagesBeginList, PagesAnswer DEF PagesInv
<1> QED BY <1>1, <1>6 DEF PagesInv

LEMMA PagesInit == Init => PagesInv
<1> SUFFICES ASSUME Init PROVE PagesInv
  OBVIOUS
<1>1. \A e \in Entries(table) : e.is = "whole"
  BY AtStartIs DEF Init
<1>2. MemoryInv /\ RequestInv
  BY <1>1 DEF Init, MemoryInv, RequestInv, Walking, Idle
<1>3. PageInv
  BY DEF Init, PageInv, Idle
<1>4. ListInv
  BY DEF Init, ListInv, Listing, Idle
<1> QED BY <1>2, <1>3, <1>4 DEF PagesInv

LEMMA PagesStutter == PagesInv /\ UNCHANGED vars => PagesInv'
<1> SUFFICES ASSUME PagesInv, UNCHANGED vars PROVE PagesInv'
  OBVIOUS
<1>1. /\ kind' = kind /\ query' = query /\ table' = table /\ seen' = seen
      /\ http' = http /\ walk' = walk /\ client' = client
  BY DEF vars, otherVars, tableVars, walkVars
<1>2. MemoryInv' /\ RequestInv'
  BY <1>1 DEF PagesInv, MemoryInv, RequestInv, Walking
<1>3. PageInv'
  BY <1>1, PagesStay DEF PagesInv
<1>4. \A S, n : {m \in S : Precedes(table, m, n)'} = Ahead(table, S, n)
  BY <1>1, QueryStays DEF Ahead
<1>5. /\ \A n : Ahead(table, WholeNames(table), n)' = Ahead(table, WholeNames(table), n)
      /\ \A n : Ahead(table, seen.steady, n)' = Ahead(table, seen.steady, n)
  BY <1>1, <1>4 DEF Ahead
<1>6. Listing' <=> Listing
  BY <1>1 DEF Listing
<1>7. ListInv'
  BY <1>1, <1>5, <1>6 DEF PagesInv, ListInv
<1> QED BY <1>2, <1>3, <1>7 DEF PagesInv

-----------------------------------------------------------------------------
(* The theorems                                                              *)

\* Names stay unique, whoever writes to the table, and a request always finds
\* what its next step needs: a name, and the directory that rmtree has emptied.
THEOREM TypeCorrect == Spec => []TypeOK
<1>1. Inv => TypeOK
  <2> SUFFICES ASSUME Inv PROVE TypeOK
    OBVIOUS
  <2>1. kind \in Kinds /\ query \in Queries
    BY DEF Inv, KindInv
  <2>2. IsTable(table) /\ stale \subseteq Names /\ promised \subseteq Names
        /\ changes \in 0..MaxChanges
    BY DEF Inv, TableInv
  <2>3. table \in Seq([name: Names, value: Values, is: Stored])
    BY <2>2 DEF IsTable, Resources
  <2>4. IsInjective([i \in DOMAIN table |-> table[i].name])
    BY <2>2 DEF IsTable, IsInjective
  <2>5. /\ http.on \in {"nothing", "create", "delete", "rmdir", "full", "pop"}
        /\ http.on \in {"delete", "rmdir", "pop"} => http.names # <<>>
        /\ http.on = "rmdir" => Head(http.names) \in NamesOf(table)
    BY DEF Inv, HttpInv, Requests, Idle
  <2>6. walk.on \in {"nothing", "failed", "list", "get"}
    BY DEF Inv, WalkInv, Walks, Idle, Failed
  <2>7. client.page \in Nat
    BY DEF Inv, HistoryInv
  <2> QED BY <2>1, <2>2, <2>3, <2>4, <2>5, <2>6, <2>7 DEF TypeOK
<1> QED BY <1>1, Invariance, PTL

\* What a request was answered to have created is there, with its files, until
\* a request begins to remove it: for any number of models, trainings that save
\* over them and crashes.
THEOREM PromisesKept == Spec => []PromiseKept
<1>1. Inv => PromiseKept
  <2> SUFFICES ASSUME Inv, NEW n \in promised
               PROVE  n \in NamesOf(table) /\ table[At(table, n)].is # "empty"
    BY DEF PromiseKept
  <2>1. PICK e \in Entries(table) : e.name = n /\ e.is # "empty"
    BY DEF Inv, PromiseInv
  <2>2. e.name \in NamesOf(table) /\ table[At(table, e.name)] = e
    BY EntryIs DEF Inv, TableInv
  <2> QED BY <2>1, <2>2
<1> QED BY <1>1, Invariance, PTL

\* An answer, and the hooks of an evaluation, hold everything that was there
\* from the first name of the walk to the last.
THEOREM SteadyIsAnswered == Spec => SteadyAnswered
<1>1. Inv /\ [Next]_vars =>
        [Answer \/ AnswerNames => seen.steady \subseteq NamesOf(walk.out)]_vars
  <2> SUFFICES ASSUME Inv, Answer \/ AnswerNames
               PROVE  seen.steady \subseteq NamesOf(walk.out)
    OBVIOUS
  <2>1. Walking /\ walk.todo = <<>>
    BY DEF Answer, AnswerNames, Walking
  <2>2. ToSet(walk.todo) = {}
    BY <2>1 DEF ToSet
  <2> QED BY <2>1, <2>2 DEF Inv, WalkInv
<1> QED BY <1>1, Invariance, PTL DEF Spec, SteadyAnswered

\* A client that reads page after page misses a resource that was there all the
\* time only if its place fell meanwhile, and gets a resource twice only if its
\* place rose: for any number of resources and pages, and whatever requests,
\* trainings, expiries and crashes do between two pages or within a listing.
THEOREM PagesMissOnlyWhatFell == Spec => []OnlyOvertaken
<1>1. Init => Inv /\ PagesInv
  BY InitInv, PagesInit
<1>2. Inv /\ PagesInv /\ [Next]_vars => Inv' /\ PagesInv'
  BY StepInv, PagesKeep, PagesStutter
<1>3. PagesInv => OnlyOvertaken
  BY DEF PagesInv, PageInv, OnlyOvertaken
<1> QED BY <1>1, <1>2, <1>3, PTL DEF Spec
=============================================================================
