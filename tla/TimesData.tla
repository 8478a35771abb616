------------------------------ MODULE TimesData ------------------------------
(***************************************************************************)
(* What the adapters of the time-series databases answer to get_times_data *)
(* (loudml/membucket.py, influx.py, elastic.py, opentsdb.py, prometheus.py,*)
(* mongo.py, warp10.py). The points of a bucket are pairs <<feature, time>>*)
(* and the value of a feature in a row is the set of the points that the   *)
(* database aggregates there: {} stands for NaN. What a database does with *)
(* a query is not in the repository: the operators named after a database  *)
(* say how the adapter uses it.                                            *)
(***************************************************************************)
EXTENDS Integers, Sequences, FiniteSets

CONSTANTS
  Interval,   (* bucket_interval                                            *)
  NbFeatures  (* the number of features of a query                          *)

ASSUME IntervalAssumption == Interval \in Nat \ {0}
ASSUME FeaturesAssumption == NbFeatures \in Nat

Features == 1..NbFeatures

Adapters == {"mem", "influx", "elastic", "opentsdb", "prometheus", "mongo", "warp10"}

\* DateRange.build_date_range, and the floor of opentsdb.py.
Floor(t) == (t \div Interval) * Interval
Ceil(t) == Floor(t + Interval - 1)
Buckets(from, to) == (to - from) \div Interval

Of(points, f) == {p \in points : p[1] = f}
From(points, from, to) == {p \in points : from <= p[2] /\ p[2] < to}
Bin(points, t) == From(points, t, t + Interval)

\* The elements of a finite set of numbers, the smallest first.
InOrder(S) ==
  [i \in 1..Cardinality(S) |-> CHOOSE x \in S : Cardinality({y \in S : y <= x}) = i]

NoRows == <<>>
Row(t, points) == [time |-> t, val |-> [f \in Features |-> Of(points, f)]]

\* One result of a query for one feature: samples on the grid from first on.
Binned(points, first, n) ==
  [k \in 1..n |-> LET t == first + (k - 1) * Interval
                  IN  [time |-> t, val |-> Bin(points, t)]]

Longest(results) ==
  CHOOSE n \in {Len(results[i]) : i \in DOMAIN results} \cup {0} :
    \A i \in DOMAIN results : Len(results[i]) <= n

\* The merge of InfluxBucket, OpenTSDBBucket and PrometheusBucket: point j of
\* the result i is the value of the feature i in row j, whatever its time; the
\* row has the time of the first result that reaches it.
Merge(results) ==
  [j \in 1..Longest(results) |->
    [time |-> LET i == CHOOSE i \in DOMAIN results :
                         /\ j <= Len(results[i])
                         /\ \A h \in 1..(i - 1) : j > Len(results[h])
              IN  results[i][j].time,
     val  |-> [f \in Features |->
                IF f \in DOMAIN results /\ j <= Len(results[f])
                THEN results[f][j].val ELSE {}]]]

\* OpenTSDBClient.query is a loop over the features; the answer to a query that
\* the database refuses is logged and left out of the list of the results. These
\* are the features that have a result, PrometheusClient.query does the same.
Answered(refused) == InOrder(Features \ refused)

\* get_times_buckets: the entries from from on that are before the end of the
\* bucket, and that no bucket before it has taken.
MemBucket(points, from, k) ==
  {p \in points : /\ from <= p[2] /\ p[2] < from + k * Interval
                  /\ \A j \in 1..(k - 1) : from + j * Interval <= p[2]}

MemAnswer(points, from, to) ==
  [k \in 1..Buckets(from, to + Interval - 1) |->
    Row(from + (k - 1) * Interval, MemBucket(points, from, k))]

\* GROUP BY time() fills the range with nulls, unless no point matches.
InfluxResult(points, f, from, to) ==
  LET found == From(Of(points, f), from, to)
  IN  IF found = {} THEN <<>>
      ELSE Binned(found, Floor(from), Buckets(Floor(from), Ceil(to)))

\* Mutant: a feature without points has no result in the list.
InfluxFoundOnly(points, from, to) ==
  Merge(SelectSeq([f \in Features |-> InfluxResult(points, f, from, to)],
                  LAMBDA result : result # <<>>))

InfluxAnswer(points, from, to) ==
  Merge([f \in Features |-> InfluxResult(points, f, from, to)])

\* Mutant: extended_bounds goes to the end of the range.
ElasticToTheEnd(points, from, to) ==
  LET found == From(points, from, to)
  IN  IF found = {} THEN NoRows
      ELSE [k \in 1..(Buckets(Floor(from), Floor(to)) + 1) |->
             LET t == Floor(from) + (k - 1) * Interval IN Row(t, Bin(found, t))]

\* A date_histogram has the buckets of its documents and of extended_bounds.
ElasticHistogram(found, from, to) ==
  LET bounds == {Floor(from), Floor(to - Interval)} \cup {Floor(p[2]) : p \in found}
      last == CHOOSE t \in bounds : \A u \in bounds : u <= t
  IN  [k \in 1..(Buckets(Floor(from), last) + 1) |->
        LET t == Floor(from) + (k - 1) * Interval IN Row(t, Bin(found, t))]

ElasticAnswer(points, from, to) ==
  LET found == From(points, from, to)
  IN  IF found = {} THEN NoRows ELSE ElasticHistogram(found, from, to)

\* A downsampler with the fill policy nan answers from start to end included.
OpenTSDBResult(points, f, from, to) ==
  LET start == Floor(from)
      end == Floor(to) - Interval
      found == From(Of(points, f), start, end + Interval)
  IN  IF found = {} THEN <<>>
      ELSE Binned(found, start, Buckets(start, end) + 1)

OpenTSDBAnswer(points, from, to, refused) ==
  LET answered == Answered(refused)
  IN  Merge([i \in DOMAIN answered |-> OpenTSDBResult(points, answered[i], from, to)])

\* build_url_params: query_range evaluates at start, start + step ... up to end
\* included.
PrometheusSteps(from, to) ==
  {from + (k - 1) * Interval : k \in 1..(Buckets(from, to) + 1)}

\* A step has the last sample of the Lookback before it, or is left out.
Lookback == Interval
PrometheusResult(points, f, from, to) ==
  LET Recent(t) == {p \in Of(points, f) : p[2] <= t /\ p[2] > t - Lookback}
      steps == InOrder({t \in PrometheusSteps(from, to) : Recent(t) # {}})
  IN  [j \in DOMAIN steps |->
        [time |-> steps[j],
         val  |-> {p \in Recent(steps[j]) : \A q \in Recent(steps[j]) : q[2] <= p[2]}]]

PrometheusAnswer(points, from, to, refused) ==
  LET answered == Answered(refused)
  IN  Merge([i \in DOMAIN answered |-> PrometheusResult(points, answered[i], from, to)])

\* $bucket groups by the boundaries; rows after the last group are cut off.
MongoAnswer(points, from, to) ==
  LET found == From(points, Floor(from), Ceil(to))
      groups == {Buckets(Floor(from), Floor(p[2])) : p \in found}
      n == IF groups = {} THEN 0 ELSE 1 + CHOOSE j \in groups : \A i \in groups : i <= j
  IN  [k \in 1..n |->
        LET t == Floor(from) + (k - 1) * Interval IN Row(t, Bin(found, t))]

\* Mutant: the names of the buckets are not moved.
Warp10Unmoved(points, from, to) ==
  [k \in 1..Buckets(Floor(from), Ceil(to)) |->
    LET t == Floor(from) + (k - 1) * Interval
    IN  Row(t, {p \in points : p[2] > t - Interval /\ p[2] <= t})]

\* The script of build_multi_fetch: FETCH includes both ends, and BUCKETIZE names
\* the bucket ]t - Interval, t] by t.
Warp10Bucket(points, t, from, to) ==
  {p \in points : from <= p[2] /\ p[2] <= to /\ t - Interval < p[2] /\ p[2] <= t}

\* The adapter moves the names to the left and skips the bucket that ends at
\* from.
Warp10Answer(points, from, to) ==
  LET first == Floor(from)
      rows == [k \in 1..Buckets(first, Ceil(to)) |->
                LET t == first + (k - 1) * Interval
                IN  Row(t, Warp10Bucket(points, t + Interval, first, Ceil(to)))]
  IN  IF \A k \in DOMAIN rows, f \in Features : rows[k].val[f] = {} THEN NoRows ELSE rows

\* refused: the features whose query the database refuses (OpenTSDB, Prometheus).
TimesDataOf(adapter, points, from, to, refused) ==
  CASE adapter = "mem"        -> MemAnswer(points, from, to)
    [] adapter = "influx"     -> InfluxAnswer(points, from, to)
    [] adapter = "elastic"    -> ElasticAnswer(points, from, to)
    [] adapter = "opentsdb"   -> OpenTSDBAnswer(points, from, to, refused)
    [] adapter = "prometheus" -> PrometheusAnswer(points, from, to, refused)
    [] adapter = "mongo"      -> MongoAnswer(points, from, to)
    [] adapter = "warp10"     -> Warp10Answer(points, from, to)

\* MongoBucket and Warp10Bucket raise NoData where the others return no row.
RaisesNoData(adapter, rows) == adapter \in {"mongo", "warp10"} /\ rows = NoRows
=============================================================================
