----------------------------- MODULE BucketRead -----------------------------
(***************************************************************************)
(* The jobs that write to and read from a bucket (POST /buckets/_write and *)
(* /buckets/_read, Worker.write_to_bucket and read_from_bucket): what is in*)
(* the rows of a read, for each adapter, while points arrive.              *)
(***************************************************************************)
EXTENDS BucketState

CONSTANTS
  Refusable,  (* the features whose query the database may refuse           *)
  Bulk,       (* bound: points in one write job                             *)
  MaxTime     (* bound: the last time of a point or a range                 *)

ASSUME ReadBounds == MaxTime \in Nat /\ Bulk \in Nat /\ Refusable \subseteq Features

VARIABLE
  answer      (* the result of a read; dropped when the database changes    *)

vars == <<adapter, points, answer>>

Times == 0..MaxTime
Points == Features \X Times
NoAnswer == [from |-> 0, to |-> 0, refused |-> {}, rows |-> NoRows, error |-> FALSE]

TypeOK ==
  /\ adapter \in Stores
  /\ points \subseteq Points
  /\ answer.from \in Times /\ answer.to \in Times /\ answer.error \in BOOLEAN
  /\ answer.refused \subseteq Refusable
  /\ \A k \in DOMAIN answer.rows :
       /\ answer.rows[k].time \in Int
       /\ DOMAIN answer.rows[k].val = Features

Init ==
  /\ adapter \in Stores
  /\ points = {}
  /\ answer = NoAnswer

\* The agents that feed the database.
Arrive(p) ==
  /\ points' = points \cup {p}
  /\ answer' = NoAnswer
  /\ UNCHANGED adapter

\* MemBucket.insert_times_data has another signature and PrometheusClient.put
\* is not implemented: their write jobs fail.
Writable == Adapters \ {"mem", "prometheus"}

\* WriteBucketJob: the points are committed before the job ends.
Write(ps) ==
  /\ adapter \in Writable
  /\ points' = points \cup ps
  /\ answer' = NoAnswer
  /\ UNCHANGED adapter

\* ReadBucketJob.
Read(from, to, refused) ==
  LET rows == TimesDataOf(adapter, points, from, to, refused)
  IN  /\ refused = {} \/ adapter \in {"opentsdb", "prometheus"}
      /\ answer' = [from |-> from, to |-> to, refused |-> refused, rows |-> rows,
                    error |-> RaisesNoData(adapter, rows)]
      /\ UNCHANGED <<adapter, points>>

Next ==
  \/ \E p \in Points : Arrive(p)
  \/ \E ps \in SUBSET Points : Cardinality(ps) \in 1..Bulk /\ Write(ps)
  \/ \E from \in Times, to \in Times, refused \in SUBSET Refusable :
       from < to /\ Read(from, to, refused)

Spec == Init /\ [][Next]_vars

-----------------------------------------------------------------------------
\* The part of the points that the query asks for: Mongo and Warp10 widen the
\* range to whole buckets, OpenTSDB moves both ends back.
Asked(from, to) ==
  CASE adapter = "mongo"    -> From(points, Floor(from), Ceil(to))
    [] adapter = "warp10"   -> {p \in points : Floor(from) < p[2] /\ p[2] <= Ceil(to)}
    [] adapter = "opentsdb" -> From(points, Floor(from), Floor(to))
    [] adapter = "mem"      -> {p \in points : from <= p[2]}
    [] OTHER                -> From(points, from, to)

\* The answer is exact: every row holds the points of its own bucket and no
\* others, feature by feature, although the results of the features are put
\* together by position; and a point that is asked for is in one of the rows.
RowsExact ==
  adapter \in Gridded /\ answer.refused = {} =>
    LET asked == Asked(answer.from, answer.to)
    IN  /\ \A k \in DOMAIN answer.rows, f \in Features :
             answer.rows[k].val[f] = Of(asked \cap InRowOf(answer.rows[k].time), f)
        /\ \A p \in From(asked, answer.from, answer.to) :
             \E k \in DOMAIN answer.rows : p \in answer.rows[k].val[p[1]]

\* The row k is the bucket k of the range and there are no more rows than
\* buckets: DonutModel puts the row k in the cell k of an array of that size.
\* Prometheus leaves holes out and has the end of the range too, which is one
\* row more than there are cells.
RowsFitTheRange ==
  LET start == IF adapter = "mem" THEN answer.from ELSE Floor(answer.from)
      buckets == Buckets(Floor(answer.from), Ceil(answer.to))
  IN  IF adapter = "prometheus" THEN Len(answer.rows) <= buckets + 1
      ELSE /\ Len(answer.rows) <= buckets
           /\ \A k \in DOMAIN answer.rows : answer.rows[k].time = start + (k - 1) * Interval

\* The values of a feature come from its own points (the contract in
\* loudml/bucket.py: "there is one aggregated float value for each feature"),
\* as long as the database refuses neither its query nor one before it.
ValuesUnderTheirFeature ==
  \A k \in DOMAIN answer.rows, f \in Features :
    answer.refused \cap 1..f = {} => \A p \in answer.rows[k].val[f] : p[1] = f

(* A statement of the code that it does not keep                             *)

\* loudml/bucket.py: one value for each feature, whatever is refused.
ValuesOfTheFeature ==
  \A k \in DOMAIN answer.rows, f \in Features :
    \A p \in answer.rows[k].val[f] : p[1] = f
=============================================================================
