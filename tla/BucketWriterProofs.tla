-------------------------- MODULE BucketWriterProofs --------------------------
(***************************************************************************)
(* Theorems about BucketWriter, for every adapter, any number of requests  *)
(* and any size of the bulk, whenever the seconds pass and whatever part   *)
(* of a bulk the database carries out when a call fails.                   *)
(***************************************************************************)
EXTENDS BucketWriter, TLAPS

\* The numbers of the requests of s.
Nbs(s) == {s[i].nb : i \in DOMAIN s}

\* The requests of s are in their order.
Ordered(s) == \A i, j \in DOMAIN s : i < j => s[i].nb < s[j].nb

\* The requests of s are those that follow the first n.
Numbered(s, n) == \A i \in DOMAIN s : s[i].nb = n + i

\* The requests of s have the flags of their points.
Flagged(s) == \A i \in DOMAIN s : s[i].anomaly = anomaly[pointOf[s[i].nb]]

\* The requests that were made and have left the buffer.
Sentoff == next - 1 - Len(pending)

\* As long as no call has raised, the pending requests are the last that were
\* made, and the database had its say on all before them.
Waiting ==
  job # "failed" =>
    Sentoff \in Nat /\ Numbered(pending, Sentoff) /\ Stored \cup refused = 1..Sentoff

\* The inductive invariant: the properties say nothing of the flags and the
\* order of the pending requests, which become stored ones.
IInv ==
  /\ TypeOK
  /\ WrittenOnceInOrder
  /\ PendingBounded
  /\ Waiting
  /\ ~KeepsTags => Flagged(stored) /\ Flagged(pending)

-----------------------------------------------------------------------------
(* What the database takes of a bulk                                        *)

\* The requests an adapter sends are as many as those it is given, with the
\* same numbers; an adapter that copies the tags sends each with its own.
LEMMA SentFacts ==
  ASSUME NEW requests \in Seq(Requests), tags' \in BOOLEAN
  PROVE  \A i \in DOMAIN requests :
           /\ Sent(requests)[i] \in Requests /\ Sent(requests)[i].nb = requests[i].nb
           /\ ~KeepsTags => Sent(requests)[i] = requests[i]
<1>1. \A i \in DOMAIN requests : requests[i] \in Requests
  OBVIOUS
<1>2. CASE KeepsTags
  BY <1>1, <1>2 DEF Sent, SentKept, Requests
<1>3. CASE ~KeepsTags
  BY <1>1, <1>3 DEF Sent, SentCopied
<1> QED BY <1>2, <1>3

\* Whatever is taken of n requests is some of them.
LEMMA TakenFacts ==
  ASSUME NEW n \in Nat
  PROVE  Taken(n) \subseteq Some(n) /\ TakenOrLogged(n) \subseteq Some(n)
<1>1. ASSUME NEW m \in 0..n PROVE All(m) \in Some(n)
  <2>1. All(m) \in [1..m -> 1..n] /\ DOMAIN All(m) = 1..m
        /\ \A i, j \in 1..m : i < j => All(m)[i] < All(m)[j]
    BY DEF All
  <2> QED BY <2>1 DEF Some
<1>2. n \in 0..n
  OBVIOUS
<1> QED BY <1>1, <1>2 DEF Taken, TakenOrLogged, First

LEMMA SomeFacts ==
  ASSUME NEW n \in Nat, NEW f \in Some(n)
  PROVE  \E m \in 0..n :
           /\ DOMAIN f = 1..m /\ f \in [1..m -> 1..n]
           /\ \A i, j \in 1..m : i < j => f[i] < f[j]
<1>1. PICK m \in 0..n : f \in [1..m -> 1..n]
  BY DEF Some
<1>2. DOMAIN f = 1..m
  BY <1>1
<1> QED BY <1>1, <1>2 DEF Some

\* When some requests of a bulk are carried out, those are added to the stored
\* ones in their order; they and the others are the whole bulk.
LEMMA SendPart ==
  ASSUME NEW requests \in Seq(Requests), tags' \in BOOLEAN, stored \in Seq(Requests),
         NEW n \in Nat, Ordered(stored), Nbs(stored) \subseteq 1..n, Numbered(requests, n),
         ~KeepsTags => Flagged(stored) /\ Flagged(requests),
         NEW f \in Some(Len(requests)), CarryOut(requests, f)
  PROVE  /\ stored' \in Seq(Requests) /\ Ordered(stored')
         /\ Nbs(stored) \subseteq Nbs(stored')
         /\ Nbs(stored') \cup Others(requests, f) =
              Nbs(stored) \cup ((n + 1)..(n + Len(requests)))
         /\ Nbs(stored') \cap Others(requests, f) = {}
         /\ Others(requests, f) \subseteq (n + 1)..(n + Len(requests))
         /\ ~KeepsTags =>
              \A i \in DOMAIN stored' : stored'[i].anomaly = anomaly[pointOf[stored'[i].nb]]
<1> DEFINE l == Len(stored)
           part == [i \in DOMAIN f |-> Sent(requests)[f[i]]]
<1>1. /\ Len(requests) \in Nat /\ DOMAIN requests = 1..Len(requests)
      /\ l \in Nat /\ DOMAIN stored = 1..l
  OBVIOUS
<1>2. PICK m \in 0..Len(requests) :
        /\ DOMAIN f = 1..m /\ f \in [1..m -> 1..Len(requests)]
        /\ \A i, j \in 1..m : i < j => f[i] < f[j]
  BY <1>1, SomeFacts
<1>3. \A i \in 1..m :
        /\ f[i] \in 1..Len(requests) /\ part[i] \in Requests /\ part[i].nb = n + f[i]
        /\ ~KeepsTags => part[i] = requests[f[i]]
  <2>1. \A i \in 1..m : f[i] \in DOMAIN requests /\ part[i] = Sent(requests)[f[i]]
    BY <1>1, <1>2
  <2> HIDE DEF part
  <2> QED BY <1>1, <2>1, SentFacts DEF Numbered
<1>4. part \in Seq(Requests) /\ Len(part) = m
  <2>1. part = [i \in 1..m |-> part[i]]
    BY <1>2
  <2> HIDE DEF part
  <2>2. part \in [1..m -> Requests]
    BY <1>3, <2>1
  <2> QED BY <1>2, <2>2
<1>5. stored' = stored \o part
  BY DEF CarryOut
<1> HIDE DEF part
<1>6. /\ stored' \in Seq(Requests) /\ DOMAIN stored' = 1..(l + m)
      /\ \A i \in 1..l : stored'[i] = stored[i]
      /\ \A i \in 1..m : stored'[l + i] = part[i]
  <2> DEFINE s == stored \o part
  <2>1. /\ s \in Seq(Requests) /\ Len(s) = Len(stored) + m
        /\ \A i \in 1..Len(stored) : s[i] = stored[i]
        /\ \A i \in 1..m : s[Len(stored) + i] = part[i]
    BY <1>4
  <2>2. s = stored'
    BY <1>5
  <2> HIDE DEF s
  <2>3. DOMAIN s = 1..Len(s)
    BY <2>1
  <2> QED BY <2>1, <2>2, <2>3
<1> HIDE DEF l
<1>7. \A i \in 1..(l + m) : i \in 1..l \/ (i - l \in 1..m /\ i = l + (i - l))
  BY <1>1, <1>2
<1>8. ASSUME NEW i \in 1..(l + m)
      PROVE  \/ i \in 1..l /\ stored'[i] = stored[i] /\ stored[i].nb \in 1..n
             \/ /\ i - l \in 1..m /\ stored'[i] = part[i - l]
                /\ stored'[i].nb = n + f[i - l] /\ f[i - l] \in 1..Len(requests)
  <2>1. CASE i \in 1..l
    BY <1>1, <1>6, <2>1 DEF Nbs
  <2>2. CASE i - l \in 1..m /\ i = l + (i - l)
    BY <1>3, <1>6, <2>2
  <2> QED BY <1>7, <2>1, <2>2
<1>9. Ordered(stored')
  <2>1. ASSUME NEW i \in 1..(l + m), NEW j \in 1..(l + m), i < j
        PROVE  stored'[i].nb < stored'[j].nb
    <3>1. CASE i \in 1..l /\ j \in 1..l
      BY <1>1, <1>6, <2>1, <3>1 DEF Ordered
    <3>2. CASE i \in 1..l /\ j - l \in 1..m
      <4>1. /\ stored'[i].nb \in 1..n /\ stored'[j].nb = n + f[j - l]
            /\ f[j - l] \in 1..Len(requests)
        BY <1>1, <1>2, <1>8, <3>2
      <4> QED BY <1>1, <4>1
    <3>3. CASE i - l \in 1..m /\ j - l \in 1..m
      <4>1. /\ stored'[i].nb = n + f[i - l] /\ f[i - l] \in 1..Len(requests)
            /\ stored'[j].nb = n + f[j - l] /\ f[j - l] \in 1..Len(requests)
        BY <1>1, <1>2, <1>8, <3>3
      <4>2. i - l < j - l
        BY <1>1, <1>2, <2>1
      <4>3. f[i - l] < f[j - l]
        BY <1>2, <3>3, <4>2
      <4> QED BY <1>1, <4>1, <4>3
    <3> QED BY <1>1, <1>2, <1>8, <2>1, <3>1, <3>2, <3>3
  <2> QED BY <1>6, <2>1 DEF Ordered
<1>10. Nbs(stored) \subseteq Nbs(stored')
  BY <1>1, <1>2, <1>6 DEF Nbs
<1>11. \A x \in Nbs(stored') : x \in Nbs(stored) \/ \E k \in 1..m : x = n + f[k]
  <2>1. ASSUME NEW i \in 1..(l + m)
        PROVE  stored'[i].nb \in Nbs(stored) \/ \E k \in 1..m : stored'[i].nb = n + f[k]
    BY <1>1, <1>8 DEF Nbs
  <2> QED BY <1>6, <2>1 DEF Nbs
<1>12. \A k \in 1..m : n + f[k] \in Nbs(stored')
  <2>1. ASSUME NEW k \in 1..m PROVE n + f[k] \in Nbs(stored')
    <3>1. l + k \in DOMAIN stored' /\ stored'[l + k].nb = n + f[k]
      BY <1>1, <1>2, <1>3, <1>6
    <3> QED BY <3>1 DEF Nbs
  <2> QED BY <2>1
<1>13. \A x : x \in Others(requests, f) <=>
                 \E k \in 1..Len(requests) : x = n + k /\ \A j \in 1..m : f[j] # k
  BY <1>1, <1>2 DEF Others, Numbered
<1>14. Nbs(stored') \cup Others(requests, f) = Nbs(stored) \cup ((n + 1)..(n + Len(requests)))
  <2>1. ASSUME NEW x \in Nbs(stored') \cup Others(requests, f)
        PROVE  x \in Nbs(stored) \cup ((n + 1)..(n + Len(requests)))
    BY <1>1, <1>3, <1>11, <1>13
  <2>2. ASSUME NEW x \in (n + 1)..(n + Len(requests))
        PROVE  x \in Nbs(stored') \cup Others(requests, f)
    <3>1. x - n \in 1..Len(requests) /\ x = n + (x - n)
      BY <1>1
    <3>2. CASE \E k \in 1..m : f[k] = x - n
      BY <1>12, <3>1, <3>2
    <3>3. CASE \A k \in 1..m : f[k] # x - n
      BY <1>13, <3>1, <3>3
    <3> QED BY <3>2, <3>3
  <2> QED BY <1>10, <2>1, <2>2
<1>15. Nbs(stored') \cap Others(requests, f) = {}
  <2>1. ASSUME NEW x \in Nbs(stored'), x \in Others(requests, f) PROVE FALSE
    <3>1. PICK k \in 1..Len(requests) : x = n + k /\ \A j \in 1..m : f[j] # k
      BY <1>13, <2>1
    <3>2. x \notin 1..n
      BY <1>1, <3>1
    <3>3. PICK j \in 1..m : x = n + f[j]
      BY <1>11, <3>2
    <3> QED BY <1>1, <1>3, <3>1, <3>3
  <2> QED BY <2>1
<1>16. Others(requests, f) \subseteq (n + 1)..(n + Len(requests))
  BY <1>1, <1>13
<1>17. ASSUME ~KeepsTags, NEW i \in DOMAIN stored'
       PROVE  stored'[i].anomaly = anomaly[pointOf[stored'[i].nb]]
  <2>1. CASE i \in 1..l
    BY <1>1, <1>6, <1>17, <2>1 DEF Flagged
  <2>2. CASE i - l \in 1..m
    <3>1. stored'[i] = requests[f[i - l]] /\ f[i - l] \in DOMAIN requests
      BY <1>1, <1>3, <1>6, <1>7, <1>17, <2>2
    <3> QED BY <1>17, <3>1 DEF Flagged
  <2> QED BY <1>6, <1>7, <2>1, <2>2
<1> QED BY <1>6, <1>9, <1>10, <1>14, <1>15, <1>16, <1>17

\* When all of a bulk is carried out there are no others.
LEMMA NoOthers ==
  ASSUME NEW requests \in Seq(Requests)
  PROVE  Others(requests, All(Len(requests))) = {}
<1>1. /\ DOMAIN requests = 1..Len(requests)
      /\ DOMAIN All(Len(requests)) = 1..Len(requests)
      /\ \A i \in 1..Len(requests) : All(Len(requests))[i] = i
  BY DEF All
<1> QED BY <1>1 DEF Others

-----------------------------------------------------------------------------
(* The invariant                                                            *)

\* The requests of a bulk, which are those that have not left the buffer when
\* the one that is made next is number k.
Bulk(requests, k) ==
  /\ requests \in Seq(Requests) /\ Len(requests) \in Nat
  /\ Sentoff \in Nat /\ Sentoff + Len(requests) = k - 1
  /\ Numbered(requests, Sentoff)
  /\ ~KeepsTags => Flagged(requests)

\* What the invariant says of the pending requests of a running job.
LEMMA PendingBulk ==
  ASSUME IInv, job = "running"
  PROVE  Bulk(pending, next)
<1>1. pending \in Seq(Requests) /\ next \in Nat
  BY WriterAssumption DEF IInv, TypeOK
<1>2. Len(pending) \in Nat
  BY <1>1
<1>3. Sentoff \in Nat /\ Numbered(pending, Sentoff)
  BY DEF IInv, Waiting
<1>4. Sentoff + Len(pending) = next - 1
  BY <1>1, <1>2 DEF Sentoff
<1> QED BY <1>1, <1>2, <1>3, <1>4 DEF IInv, Bulk

\* The request of the next turn continues the pending ones.
LEMMA AppendNext ==
  ASSUME IInv, MakeRequest
  PROVE  /\ Bulk(Append(pending, Made), next')
         /\ Len(Append(pending, Made)) = Len(pending) + 1 /\ Len(pending) \in Nat
         /\ tags' \in BOOLEAN /\ next' \in 1..(NbRequests + 1)
         /\ prediction' = prediction /\ job = "running"
<1> DEFINE request == Made
           requests == Append(pending, request)
<1>1. /\ job = "running" /\ next <= NbRequests /\ next' = next + 1
      /\ tags' = anomaly[pointOf[next]] /\ prediction' = prediction
  BY DEF MakeRequest
<1>2. TypeOK /\ next \in Numbers /\ next \in Nat /\ NbRequests \in Nat
  BY <1>1, WriterAssumption DEF IInv, TypeOK, Numbers
<1>3. tags' \in BOOLEAN
  BY <1>1, <1>2 DEF TypeOK
<1>4. /\ request \in Requests /\ request.nb = next
      /\ request.anomaly = anomaly[pointOf[next]]
  BY <1>1, <1>2, <1>3 DEF Made, Requests
<1>5. Bulk(pending, next)
  BY <1>1, PendingBulk
<1> HIDE DEF request
<1>6. /\ pending \in Seq(Requests) /\ Len(pending) \in Nat
      /\ Sentoff \in Nat /\ Sentoff + Len(pending) = next - 1
      /\ Numbered(pending, Sentoff)
      /\ ~KeepsTags => Flagged(pending)
  BY <1>5 DEF Bulk
<1>7. /\ requests \in Seq(Requests)
      /\ Len(requests) = Len(pending) + 1
      /\ \A i \in 1..Len(pending) : requests[i] = pending[i]
      /\ requests[Len(pending) + 1] = request
  BY <1>4, <1>6
<1>8. DOMAIN requests = 1..(Len(pending) + 1) /\ DOMAIN pending = 1..Len(pending)
  BY <1>6, <1>7
<1> HIDE DEF requests
<1>9. Numbered(requests, Sentoff)
  <2> SUFFICES ASSUME NEW i \in 1..(Len(pending) + 1)
               PROVE  requests[i].nb = Sentoff + i
    BY <1>8 DEF Numbered
  <2>1. CASE i \in 1..Len(pending)
    BY <2>1, <1>6, <1>7, <1>8 DEF Numbered
  <2>2. CASE i = Len(pending) + 1
    BY <2>2, <1>2, <1>4, <1>6, <1>7
  <2> QED BY <1>6, <2>1, <2>2
<1>10. ASSUME ~KeepsTags PROVE Flagged(requests)
  <2> SUFFICES ASSUME NEW i \in 1..(Len(pending) + 1)
               PROVE  requests[i].anomaly = anomaly[pointOf[requests[i].nb]]
    BY <1>8 DEF Flagged
  <2>1. CASE i \in 1..Len(pending)
    BY <2>1, <1>6, <1>7, <1>8, <1>10 DEF Flagged
  <2>2. CASE i = Len(pending) + 1
    BY <2>2, <1>4, <1>7
  <2> QED BY <1>6, <2>1, <2>2
<1>11. Sentoff + Len(requests) = next' - 1 /\ Len(requests) \in Nat
  BY <1>1, <1>2, <1>6, <1>7
<1>12. Bulk(requests, next')
  BY <1>7, <1>6, <1>9, <1>10, <1>11 DEF Bulk
<1>13. next' \in 1..(NbRequests + 1)
  BY <1>1, <1>2
<1> QED BY <1>1, <1>3, <1>6, <1>7, <1>12, <1>13 DEF requests, request

\* The empty buffer.
LEMMA Empty == <<>> \in Seq(Requests) /\ Len(<<>>) = 0 /\ DOMAIN <<>> = {}
  OBVIOUS

\* Nothing is inserted yet.
LEMMA IInvInit == Init => IInv
<1> SUFFICES ASSUME Init PROVE IInv
  OBVIOUS
<1>1. TypeOK
  <2>1. next \in 1..(NbRequests + 1)
    BY WriterAssumption DEF Init
  <2>2. pending \in Seq(Requests) /\ stored \in Seq(Requests)
    BY Empty DEF Init
  <2>3. pointOf \in [Numbers -> Numbers]
    BY DEF Init, ValueByValue
  <2> QED BY <2>1, <2>2, <2>3 DEF Init, TypeOK
<1>2. next = 1 /\ pending = <<>> /\ stored = <<>> /\ refused = {} /\ job = "running"
  BY DEF Init
<1>3. Stored = {} /\ Pending = {}
  BY <1>2, Empty DEF Stored, Pending
<1>4. WrittenOnceInOrder
  BY <1>2, <1>3, Empty DEF WrittenOnceInOrder
<1>5. PendingBounded
  BY <1>2, WriterAssumption, Empty DEF PendingBounded
<1>6. Waiting
  <2>1. Sentoff = 0
    <3>1. next - 1 = 0 /\ Len(pending) = 0
      BY <1>2, Empty
    <3>2. Sentoff = 0 - 0
      BY <3>1 DEF Sentoff
    <3> QED BY <3>2
  <2>2. Numbered(pending, Sentoff)
    BY <1>2, Empty DEF Numbered
  <2>3. Stored \cup refused = {} /\ 1..0 = {}
    BY <1>2, <1>3
  <2> QED BY <2>1, <2>2, <2>3 DEF Waiting
<1>7. Flagged(stored) /\ Flagged(pending)
  BY <1>2, Empty DEF Flagged
<1> QED BY <1>1, <1>4, <1>5, <1>6, <1>7 DEF IInv

\* A call that returns: the requests of the bulk are stored, but for those that
\* are refused in an answer that is logged.
LEMMA CommitStep ==
  ASSUME IInv, job = "running", NEW requests, Bulk(requests, next'), Commit(requests),
         tags' \in BOOLEAN, next' \in 1..(NbRequests + 1), prediction' = prediction,
         job' = "running" \/ (job' = "done" /\ next' = NbRequests + 1)
  PROVE  IInv'
<1> DEFINE n == Sentoff
           L == Len(requests)
<1>1. /\ requests \in Seq(Requests) /\ L \in Nat /\ n \in Nat /\ n + L = next' - 1
      /\ Numbered(requests, n) /\ (~KeepsTags => Flagged(requests))
  BY DEF Bulk
<1>2. PICK f \in TakenOrLogged(L) :
        CarryOut(requests, f) /\ refused' = refused \cup Others(requests, f)
  BY DEF Commit
<1>3. pending' = <<>> /\ due' = FALSE
  BY DEF Commit
<1>4. f \in Some(L)
  BY <1>1, <1>2, TakenFacts
<1>5. /\ stored \in Seq(Requests) /\ Ordered(stored) /\ Stored = Nbs(stored)
      /\ Nbs(stored) \cup refused = 1..n /\ Nbs(stored) \cap refused = {}
      /\ (refused # {} => LogsRefusals) /\ (~KeepsTags => Flagged(stored))
  BY DEF IInv, TypeOK, WrittenOnceInOrder, Waiting, Ordered, Stored, Nbs
<1> HIDE DEF n, L
<1>6. /\ stored' \in Seq(Requests) /\ Ordered(stored')
      /\ Nbs(stored') \cup Others(requests, f) = Nbs(stored) \cup ((n + 1)..(n + L))
      /\ Nbs(stored') \cap Others(requests, f) = {}
      /\ Others(requests, f) \subseteq (n + 1)..(n + L)
      /\ ~KeepsTags =>
           \A i \in DOMAIN stored' : stored'[i].anomaly = anomaly[pointOf[stored'[i].nb]]
  BY <1>1, <1>2, <1>4, <1>5, SendPart DEF L
<1>7. adapter' = adapter /\ pointOf' = pointOf /\ anomaly' = anomaly
  BY DEF prediction
<1>8. Stored' = Nbs(stored') /\ Pending' = {} /\ Len(pending') = 0
  BY <1>3, Empty DEF Stored, Pending, Nbs
<1>9. Stored' \cup refused' = 1..(next' - 1)
  <2>1. Stored' \cup refused' = (1..n) \cup ((n + 1)..(n + L))
    BY <1>2, <1>5, <1>6, <1>8
  <2>2. (1..n) \cup ((n + 1)..(n + L)) = 1..(n + L)
    BY <1>1
  <2> QED BY <1>1, <2>1, <2>2
<1>10. Stored' \cap refused' = {}
  <2>1. ASSUME NEW x \in Nbs(stored'), x \in refused PROVE FALSE
    <3>1. x \in 1..n /\ x \notin Nbs(stored)
      BY <1>5, <2>1
    <3>2. x \in (n + 1)..(n + L)
      BY <1>6, <3>1
    <3> QED BY <1>1, <3>1, <3>2
  <2> QED BY <1>2, <1>6, <1>8, <2>1
<1>11. refused' # {} => LogsRefusals'
  <2>1. CASE LogsRefusals
    BY <1>7, <2>1 DEF LogsRefusals
  <2>2. CASE ~LogsRefusals
    <3>1. f = All(L)
      BY <1>2, <2>2 DEF TakenOrLogged
    <3>2. Others(requests, f) = {}
      BY <1>1, <3>1, NoOthers DEF L
    <3> QED BY <1>2, <1>5, <2>2, <3>2
  <2> QED BY <2>1, <2>2
<1>12. TypeOK'
  <2>1. adapter' \in Stores /\ pointOf' \in [Numbers -> Numbers]
    BY <1>7 DEF IInv, TypeOK
  <2>2. anomaly' \in [Numbers -> BOOLEAN]
    BY <1>7 DEF IInv, TypeOK
  <2>3. refused' \subseteq Numbers
    <3>1. refused' \subseteq 1..(next' - 1)
      BY <1>9
    <3> DEFINE k == next'
    <3>2. k \in 1..(NbRequests + 1)
      OBVIOUS
    <3> HIDE DEF k
    <3>3. ASSUME NEW x \in 1..(k - 1) PROVE x \in 1..NbRequests
      BY <3>2, WriterAssumption
    <3> QED BY <3>1, <3>3 DEF Numbers, k
  <2>4. pending' \in Seq(Requests) /\ due' \in BOOLEAN /\ job' \in {"running", "done", "failed"}
    BY <1>3, Empty
  <2> QED BY <1>6, <2>1, <2>2, <2>3, <2>4 DEF TypeOK
<1>13. WrittenOnceInOrder'
  <2>1. \A i, j \in DOMAIN stored' : i < j => (stored'[i]).nb < (stored'[j]).nb
    BY <1>6 DEF Ordered
  <2> QED BY <1>3, <1>8, <1>9, <1>10, <1>11, <2>1 DEF WrittenOnceInOrder
<1>14. PendingBounded'
  BY <1>8, WriterAssumption DEF PendingBounded
<1>15. Waiting'
  <2>1. Sentoff' = next' - 1 - 0
    BY <1>8 DEF Sentoff
  <2>3. next' - 1 \in Nat /\ next' - 1 - 0 = next' - 1
    <3> DEFINE k == next'
    <3>1. k \in 1..(NbRequests + 1) /\ NbRequests \in Nat
      BY WriterAssumption
    <3> HIDE DEF k
    <3>2. k - 1 \in Nat /\ k - 1 - 0 = k - 1
      BY <3>1
    <3> QED BY <3>2 DEF k
  <2>2. DOMAIN pending' = {}
    BY <1>3, Empty
  <2> QED BY <1>9, <2>1, <2>2, <2>3 DEF Waiting, Numbered
<1>16. ~KeepsTags' => Flagged(stored)' /\ Flagged(pending)'
  <2>1. DOMAIN pending' = {}
    BY <1>3, Empty
  <2> QED BY <1>6, <1>7, <2>1 DEF Flagged, KeepsTags
<1> QED BY <1>12, <1>13, <1>14, <1>15, <1>16 DEF IInv

\* A call that raises: some requests of the bulk are stored, all stay in the
\* buffer.
LEMMA CommitFailsStep ==
  ASSUME IInv, job = "running", NEW requests, Bulk(requests, next'), CommitFails(requests),
         tags' \in BOOLEAN, next' \in 1..(NbRequests + 1), prediction' = prediction,
         SendsEarly => Len(requests) <= BulkSize
  PROVE  IInv'
<1> DEFINE n == Sentoff
           L == Len(requests)
<1>1. /\ requests \in Seq(Requests) /\ L \in Nat /\ n \in Nat /\ n + L = next' - 1
      /\ Numbered(requests, n) /\ (~KeepsTags => Flagged(requests))
  BY DEF Bulk
<1>2. PICK f \in Taken(L) : CarryOut(requests, f)
  BY DEF CommitFails
<1>3. pending' = requests /\ job' = "failed" /\ refused' = refused /\ due' = due
  BY DEF CommitFails
<1>4. f \in Some(L)
  BY <1>1, <1>2, TakenFacts
<1>5. /\ stored \in Seq(Requests) /\ Ordered(stored) /\ Stored = Nbs(stored)
      /\ Nbs(stored) \cup refused = 1..n /\ Nbs(stored) \cap refused = {}
      /\ (refused # {} => LogsRefusals) /\ (~KeepsTags => Flagged(stored))
  BY DEF IInv, TypeOK, WrittenOnceInOrder, Waiting, Ordered, Stored, Nbs
<1> HIDE DEF n, L
<1>6. /\ stored' \in Seq(Requests) /\ Ordered(stored')
      /\ Nbs(stored) \subseteq Nbs(stored')
      /\ Nbs(stored') \cup Others(requests, f) = Nbs(stored) \cup ((n + 1)..(n + L))
      /\ ~KeepsTags =>
           \A i \in DOMAIN stored' : stored'[i].anomaly = anomaly[pointOf[stored'[i].nb]]
  BY <1>1, <1>2, <1>4, <1>5, SendPart DEF L
<1>7. adapter' = adapter /\ pointOf' = pointOf /\ anomaly' = anomaly
  BY DEF prediction
<1>8. Stored' = Nbs(stored') /\ Pending' = Nbs(requests)
  BY <1>3 DEF Stored, Pending, Nbs
<1>9. Nbs(requests) = (n + 1)..(n + L)
  <2>1. DOMAIN requests = 1..L /\ \A i \in 1..L : requests[i].nb = n + i
    BY <1>1 DEF Numbered, L
  <2>2. \A x \in (n + 1)..(n + L) : x - n \in 1..L /\ x = n + (x - n)
    BY <1>1
  <2>3. \A x \in (n + 1)..(n + L) : x \in Nbs(requests)
    BY <2>1, <2>2 DEF Nbs
  <2>4. \A x \in Nbs(requests) : x \in (n + 1)..(n + L)
    BY <1>1, <2>1 DEF Nbs
  <2> QED BY <2>3, <2>4
<1>10. Stored' \cup Pending' \cup refused' = 1..(next' - 1)
  <2>1. Stored' \cup Pending' \cup refused' = (1..n) \cup ((n + 1)..(n + L))
    BY <1>3, <1>5, <1>6, <1>8, <1>9
  <2>2. (1..n) \cup ((n + 1)..(n + L)) = 1..(n + L)
    BY <1>1
  <2> QED BY <1>1, <2>1, <2>2
<1>11. Stored' \cap refused' = {}
  <2>1. ASSUME NEW x \in Nbs(stored'), x \in refused PROVE FALSE
    <3>1. x \in 1..n /\ x \notin Nbs(stored)
      BY <1>5, <2>1
    <3>2. x \in (n + 1)..(n + L)
      BY <1>6, <3>1
    <3> QED BY <1>1, <3>1, <3>2
  <2> QED BY <1>3, <1>8, <2>1
<1>12. TypeOK'
  <2>1. adapter' \in Stores /\ pointOf' \in [Numbers -> Numbers]
    BY <1>7 DEF IInv, TypeOK
  <2>2. anomaly' \in [Numbers -> BOOLEAN] /\ due' \in BOOLEAN
    BY <1>3, <1>7 DEF IInv, TypeOK
  <2>3. refused' \subseteq Numbers
    BY <1>3 DEF IInv, TypeOK
  <2> QED BY <1>1, <1>3, <1>6, <2>1, <2>2, <2>3 DEF TypeOK
<1>13. WrittenOnceInOrder'
  <2>1. \A i, j \in DOMAIN stored' : i < j => (stored'[i]).nb < (stored'[j]).nb
    BY <1>6 DEF Ordered
  <2>2. refused' # {} => LogsRefusals'
    BY <1>3, <1>5, <1>7 DEF LogsRefusals
  <2> QED BY <1>3, <1>10, <1>11, <2>1, <2>2 DEF WrittenOnceInOrder
<1>14. PendingBounded'
  BY <1>3, <1>7 DEF PendingBounded, SendsEarly
<1>15. Waiting'
  BY <1>3 DEF Waiting
<1>16. ~KeepsTags' => Flagged(stored)' /\ Flagged(pending)'
  <2>1. ~KeepsTags => \A i \in DOMAIN requests :
                        requests[i].anomaly = anomaly[pointOf[requests[i].nb]]
    BY <1>1 DEF Flagged
  <2> QED BY <1>3, <1>6, <1>7, <2>1 DEF Flagged, KeepsTags
<1> QED BY <1>12, <1>13, <1>14, <1>15, <1>16 DEF IInv

\* The request is held: the pending ones continue those that have left.
LEMMA HoldStep ==
  ASSUME IInv, job = "running", NEW requests, Bulk(requests, next'), Hold(requests),
         tags' \in BOOLEAN, next' \in 1..(NbRequests + 1), prediction' = prediction,
         job' = job, SendsEarly => Len(requests) < BulkSize
  PROVE  IInv'
<1> DEFINE n == Sentoff
           L == Len(requests)
<1>1. /\ requests \in Seq(Requests) /\ L \in Nat /\ n \in Nat /\ n + L = next' - 1
      /\ Numbered(requests, n) /\ (~KeepsTags => Flagged(requests))
  BY DEF Bulk
<1>2. pending' = requests /\ stored' = stored /\ refused' = refused /\ due' = due
  BY DEF Hold
<1>3. /\ stored \in Seq(Requests) /\ Ordered(stored) /\ Stored = Nbs(stored)
      /\ Stored \cup refused = 1..n /\ Stored \cap refused = {}
      /\ (refused # {} => LogsRefusals) /\ (~KeepsTags => Flagged(stored))
  BY DEF IInv, TypeOK, WrittenOnceInOrder, Waiting, Ordered, Stored, Nbs
<1>4. adapter' = adapter /\ pointOf' = pointOf /\ anomaly' = anomaly
  BY DEF prediction
<1> HIDE DEF n
<1>5. DOMAIN requests = 1..L /\ \A i \in 1..L : requests[i].nb = n + i
  BY <1>1 DEF Numbered
<1> HIDE DEF L
<1>6. Stored' = Stored /\ Pending' = Nbs(requests)
  BY <1>2 DEF Stored, Pending, Nbs
<1>7. Nbs(requests) = (n + 1)..(n + L)
  <2>2. \A x \in (n + 1)..(n + L) : x - n \in 1..L /\ x = n + (x - n)
    BY <1>1
  <2>3. \A x \in (n + 1)..(n + L) : x \in Nbs(requests)
    BY <1>5, <2>2 DEF Nbs
  <2>4. \A x \in Nbs(requests) : x \in (n + 1)..(n + L)
    BY <1>1, <1>5 DEF Nbs
  <2> QED BY <2>3, <2>4
<1>8. Stored' \cup Pending' \cup refused' = 1..(next' - 1)
  <2>1. Stored' \cup Pending' \cup refused' = (1..n) \cup ((n + 1)..(n + L))
    BY <1>2, <1>3, <1>6, <1>7
  <2>2. (1..n) \cup ((n + 1)..(n + L)) = 1..(n + L)
    BY <1>1
  <2> QED BY <1>1, <2>1, <2>2
<1>9. Stored' \cap refused' = {} /\ Pending' \cap (Stored' \cup refused') = {}
  <2>1. Pending' \cap (1..n) = {}
    BY <1>1, <1>6, <1>7
  <2> QED BY <1>2, <1>3, <1>6, <2>1
<1>10. TypeOK'
  <2>1. adapter' \in Stores /\ pointOf' \in [Numbers -> Numbers]
    BY <1>4 DEF IInv, TypeOK
  <2>2. anomaly' \in [Numbers -> BOOLEAN] /\ due' \in BOOLEAN
    BY <1>2, <1>4 DEF IInv, TypeOK
  <2>3. refused' \subseteq Numbers
    BY <1>2 DEF IInv, TypeOK
  <2> QED BY <1>1, <1>2, <1>3, <2>1, <2>2, <2>3 DEF TypeOK
<1>11. WrittenOnceInOrder'
  <2>1. \A i, j \in DOMAIN stored' : i < j => (stored'[i]).nb < (stored'[j]).nb
    BY <1>2, <1>3 DEF Ordered
  <2>2. refused' # {} => LogsRefusals'
    BY <1>2, <1>3, <1>4 DEF LogsRefusals
  <2> QED BY <1>8, <1>9, <2>1, <2>2 DEF WrittenOnceInOrder
<1>12. PendingBounded'
  BY <1>1, <1>2, <1>4, WriterAssumption DEF PendingBounded, SendsEarly, L
<1>13. Waiting'
  <2>1. Sentoff' = n
    <3> DEFINE k == next'
    <3>1. Sentoff' = k - 1 - L
      BY <1>2 DEF Sentoff, L
    <3>2. k \in 1..(NbRequests + 1) /\ n \in Nat /\ L \in Nat /\ n + L = k - 1
      BY <1>1
    <3> HIDE DEF k
    <3> QED BY <3>1, <3>2, WriterAssumption
  <2>2. \A i \in DOMAIN pending' : (pending'[i]).nb = n + i
    BY <1>2, <1>5
  <2>3. (Stored \cup refused)' = 1..n
    BY <1>2, <1>3, <1>6
  <2> QED BY <1>1, <2>1, <2>2, <2>3 DEF Waiting, Numbered
<1>14. ~KeepsTags' => Flagged(stored)' /\ Flagged(pending)'
  BY <1>1, <1>2, <1>3, <1>4 DEF Flagged, KeepsTags
<1> QED BY <1>10, <1>11, <1>12, <1>13, <1>14 DEF IInv

\* A turn of the loop: the request is held, or the bulk is sent for it.
LEMMA MakeStep == IInv /\ (Insert \/ InsertFails) => IInv'
<1> SUFFICES ASSUME IInv, Insert \/ InsertFails PROVE IInv'
  OBVIOUS
<1> DEFINE requests == Append(pending, Made)
<1>1. MakeRequest
  BY DEF Insert, InsertFails
<1>2. /\ Bulk(requests, next') /\ Len(requests) = Len(pending) + 1 /\ Len(pending) \in Nat
      /\ tags' \in BOOLEAN /\ next' \in 1..(NbRequests + 1)
      /\ prediction' = prediction /\ job = "running"
  BY <1>1, AppendNext
<1>3. \/ MustCommit(requests) /\ Commit(requests) /\ job' = job
      \/ ~MustCommit(requests) /\ Hold(requests) /\ job' = job
      \/ CommitFails(requests)
  BY DEF Insert, InsertFails
<1> HIDE DEF requests
<1>4. SendsEarly => Len(requests) <= BulkSize
  <2>1. SendsEarly => Len(pending) < BulkSize
    BY <1>2 DEF IInv, PendingBounded
  <2> QED BY <1>2, <2>1, WriterAssumption
<1>5. CASE Commit(requests) /\ job' = job
  BY <1>2, <1>5, CommitStep
<1>6. CASE ~MustCommit(requests) /\ Hold(requests) /\ job' = job
  <2>1. SendsEarly => Len(requests) < BulkSize
    BY <1>2, <1>6, WriterAssumption DEF MustCommit
  <2> QED BY <1>2, <1>6, <2>1, HoldStep
<1>7. CASE CommitFails(requests)
  BY <1>2, <1>4, <1>7, CommitFailsStep
<1> QED BY <1>3, <1>5, <1>6, <1>7

\* The commit after the loop.
LEMMA LastStep == IInv /\ (LastCommit \/ LastCommitFails) => IInv'
<1> SUFFICES ASSUME IInv, LastCommit \/ LastCommitFails PROVE IInv'
  OBVIOUS
<1>1. /\ job = "running" /\ next > NbRequests /\ tags' = tags /\ next' = next
      /\ prediction' = prediction
  BY DEF LastCommit, LastCommitFails
<1>2. TypeOK /\ NbRequests \in Nat /\ BulkSize \in Nat
  BY WriterAssumption DEF IInv
<1>3. Bulk(pending, next')
  BY <1>1, PendingBulk
<1>4. tags' \in BOOLEAN
  BY <1>1, <1>2 DEF TypeOK
<1>5. next' \in 1..(NbRequests + 1) /\ next' = NbRequests + 1
  BY <1>1, <1>2 DEF TypeOK
<1>6. CASE LastCommit
  <2>1. Commit(pending) /\ job' = "done"
    BY <1>6 DEF LastCommit
  <2> QED BY <1>1, <1>3, <1>4, <1>5, <2>1, CommitStep
<1>7. CASE LastCommitFails
  <2>1. CommitFails(pending)
    BY <1>7 DEF LastCommitFails
  <2>2. SendsEarly => Len(pending) <= BulkSize
    BY DEF IInv, PendingBounded
  <2> QED BY <1>1, <1>3, <1>4, <1>5, <2>1, <2>2, CommitFailsStep
<1> QED BY <1>6, <1>7

\* Neither the clock nor a stuttering step changes what the invariant is about.
LEMMA OtherStep == IInv /\ (Second \/ UNCHANGED vars) => IInv'
<1> SUFFICES ASSUME IInv, Second \/ UNCHANGED vars PROVE IInv'
  OBVIOUS
<1>1. /\ adapter' = adapter /\ pointOf' = pointOf /\ anomaly' = anomaly /\ next' = next
      /\ tags' = tags /\ pending' = pending /\ stored' = stored /\ refused' = refused
      /\ job' = job
  BY DEF Second, vars, prediction
<1>2. due' \in BOOLEAN
  BY DEF Second, vars, IInv, TypeOK
<1>3. TypeOK'
  BY <1>1, <1>2 DEF IInv, TypeOK
<1>4. WrittenOnceInOrder'
  BY <1>1 DEF IInv, WrittenOnceInOrder, Stored, Pending, LogsRefusals
<1>5. PendingBounded'
  BY <1>1 DEF IInv, PendingBounded, SendsEarly
<1>6. Waiting'
  BY <1>1 DEF IInv, Waiting, Sentoff, Numbered, Stored
<1>7. ~KeepsTags' => Flagged(stored)' /\ Flagged(pending)'
  BY <1>1 DEF IInv, Flagged, KeepsTags
<1> QED BY <1>3, <1>4, <1>5, <1>6, <1>7 DEF IInv

\* Every step keeps the invariant.
LEMMA IInvStep == IInv /\ [Next]_vars => IInv'
  BY MakeStep, LastStep, OtherStep DEF Next

\* The invariant holds in every reachable state.
LEMMA Invariant == Spec => []IInv
  BY IInvInit, IInvStep, PTL DEF Spec

\* The variables of the writer keep their types.
THEOREM TypeCorrect == Spec => []TypeOK
<1>1. IInv => TypeOK
  BY DEF IInv
<1> QED BY <1>1, Invariant, PTL

-----------------------------------------------------------------------------
\* The requests of a prediction are carried out in their order and none twice,
\* whatever part of a bulk a call that raises leaves behind; when
\* save_timeseries_prediction returns, none is missing but those that the
\* client of OpenTSDB logged as refused.
THEOREM WrittenOnce == Spec => []WrittenOnceInOrder
<1>1. IInv => WrittenOnceInOrder
  BY DEF IInv
<1> QED BY <1>1, Invariant, PTL

\* The buffer of a bucket that sends from enqueue never has more than a bulk.
THEOREM BufferBounded == Spec => []PendingBounded
<1>1. IInv => PendingBounded
  BY DEF IInv
<1> QED BY <1>1, Invariant, PTL

\* Where the adapter copies the tags, each request that is carried out has the
\* flag of its point.
THEOREM FlagsOfCopies == Spec => []CopiedFlagsAreRight
<1>1. IInv => CopiedFlagsAreRight
  BY DEF IInv, CopiedFlagsAreRight, FlagsAreRight, Flagged
<1> QED BY <1>1, Invariant, PTL
=============================================================================
