----------------------------- MODULE DonutSeries -----------------------------
(***************************************************************************)
(* From the rows of a bucket to a prediction: train, predict and forecast  *)
(* of loudml/donut.py, with the settings and the state that a worker loads *)
(* for each job. The model has one feature. A number is abstracted to the  *)
(* points it comes from, and an estimate of the network to the window that *)
(* it is computed from.                                                    *)
(***************************************************************************)
EXTENDS BucketState

CONSTANTS
  PointTimes,  (* the times that may have a point                           *)
  Spans,       (* the values of the span setting, AutoSpan for "auto"         *)
  MinSpan,     (* min_span and max_span of a model whose span is auto       *)
  MaxSpan,
  RangeTimes,  (* the times that begin or end the range of a job            *)
  WindowTimes  (* the times that begin or end an abnormal window            *)

AutoSpan == 0

ASSUME SeriesAssumption ==
  /\ PointTimes \subseteq Nat /\ RangeTimes \subseteq Nat
  /\ WindowTimes \subseteq Nat /\ Spans \subseteq Nat
  /\ MinSpan \in Nat \ {0} /\ MaxSpan \in Nat \ {0}

VARIABLES
  windows,     (* the annotations of abnormal time windows                  *)
  default,     (* the default of the feature: none, previous or a value     *)
  span,        (* the span in the settings on disk                          *)
  net,         (* the state on disk: the network's width and what it learned*)
  out          (* the result of the last job                                *)

seriesVars == <<adapter, points, windows, default, span, net, out>>

Untrained == [width |-> 0, from |-> 0, to |-> 0, learned |-> {}, cells |-> 0]
NoResult == [kind |-> "none", from |-> 0, to |-> 0, times |-> <<>>, observed |-> <<>>,
             predicted |-> <<>>]
NoSeries(kind) == [NoResult EXCEPT !.kind = kind]

\* DonutModel.__init__ refuses a model that has not exactly one feature.
SeriesInit ==
  /\ NbFeatures = 1
  /\ adapter \in Stores
  /\ points \in {Features \X ts : ts \in SUBSET PointTimes}
  /\ default \in {"none", "previous", "value"}
  /\ windows \in {{}} \cup {{w} : w \in {w \in WindowTimes \X WindowTimes : w[1] < w[2]}}
  /\ windows # {} => adapter = "influx"
  /\ span \in Spans
  /\ net = Untrained
  /\ out = NoResult

-----------------------------------------------------------------------------
\* The data that a job works on.

\* The loop that fills the dataset, one cell per row; np.resize cuts it to what
\* was found.
Found(from, to) ==
  LET rows == TimesDataOf(adapter, points, from, to, {})
  IN  [k \in DOMAIN rows |-> [time |-> rows[k].time, val |-> rows[k].val[1]]]

Missing == {}
DefaultValue == {<<1, -1>>}
Values(rows) == [k \in DOMAIN rows |-> rows[k].val]
LastBefore(x, k) ==
  CHOOSE j \in 1..(k - 1) : x[j] # Missing /\ \A i \in (j + 1)..(k - 1) : x[i] = Missing

DefaultOf(x, k) ==
  IF default = "value" THEN DefaultValue
  ELSE IF default = "previous" /\ \E j \in 1..(k - 1) : x[j] # Missing
       THEN x[LastBefore(x, k)] ELSE Missing

ApplyDefaults(x) ==
  [k \in DOMAIN x |-> IF x[k] # Missing THEN x[k] ELSE DefaultOf(x, k)]

\* The series that a network sees.
Dataset(from, to) == ApplyDefaults(Values(Found(from, to)))

\* _get_index is int(), which truncates towards zero.
GetIndex(t, from) == IF t >= from THEN (t - from) \div Interval ELSE -((from - t) \div Interval)

\* Mutant: a start before the range is a Python index from the end.
ClipFromEnd(i, size) == IF i < 0 THEN size + i ELSE IF i > size THEN size ELSE i

Clip(i, size) == IF i < 0 THEN 0 ELSE IF i > size THEN size ELSE i

\* _build_annotations_query: the time of an annotation is that of its end.
Annotated(w, from, to) == from <= w[2] /\ w[2] < to

ListAnomalies(from, to) == {w \in windows : Annotated(w, from, to)}

\* The cells of abnormal that are True, numbered from 1.
FormatWindows(from, to, listed) ==
  LET size == GetIndex(to, from)
  IN  {k \in 1..size : \E w \in listed :
         Clip(GetIndex(w[1], from), size) < k /\ k <= Clip(GetIndex(w[2], from), size)}

\* _format_dataset: the windows of a dataset.
FormatDataset(x, w) == [i \in 1..(Len(x) - w + 1) |-> SubSeq(x, i, i + w - 1)]

-----------------------------------------------------------------------------
\* Training.

\* get_hp_span: hp.randint excludes its upper bound; without a range to choose
\* from the search space is the setting itself.
HpSpans == IF span # AutoSpan THEN {span} ELSE MinSpan..(MaxSpan - 1)

\* round(len(dataset) * 0.67)
TrainSize(n) == (67 * n + 50) \div 100

\* An evaluation fails without a window to train on or one to validate with.
Trainable(n, w) == TrainSize(n) >= w /\ n - TrainSize(n) >= w

\* The points of the windows of the training part that are not hidden from the
\* network: missing values are, and abnormal ones.
Learned(x, abnormal, w) ==
  LET part == SubSeq(x, 1, TrainSize(Len(x)))
  IN  UNION {UNION {part[k] : k \in (i..(i + w - 1)) \ abnormal} :
               i \in 1..(Len(part) - w + 1)}

\* The state that a training leaves, whatever the width that hyperopt keeps.
Trained(w, from, to) ==
  LET x == Dataset(Floor(from), Ceil(to))
      abnormal == FormatWindows(Floor(from), Ceil(to), ListAnomalies(from, to))
  IN  [width |-> w, from |-> from, to |-> to, cells |-> Len(x),
       learned |-> Learned(x, abnormal, w)]

\* Worker.train and DonutModel.train: hyperopt keeps any width that works.
Train(from, to) ==
  LET x == Dataset(Floor(from), Ceil(to))
      good == {w \in HpSpans : Trainable(Len(x), w)}
  IN  /\ IF x = <<>> \/ good = {}
         THEN /\ out' = NoSeries("no_data")
              /\ UNCHANGED net
         ELSE /\ \E w \in good : net' = Trained(w, from, to)
              /\ out' = NoSeries("trained")
      /\ UNCHANGED <<adapter, points, windows, default, span>>

-----------------------------------------------------------------------------
\* Inference.

\* _span and _window: the width of the trained network. W: the setting.
Window == net.width - 1
W == span

HistFrom(start) == start - Window * Interval

\* Mutant: a whole window is cut off.
CutWindow(x) == SubSeq(x, net.width + 1, Len(x))

\* X[_window:], real[_window:]: the part of the history before the range is cut.
Cut(x) == SubSeq(x, net.width, Len(x))

\* Mutant: a row must end before the end of the range.
BeforeEnded(rows, end) ==
  Cardinality({k \in DOMAIN rows : rows[k].time + Interval < end})

Before(rows, end) == Cardinality({k \in DOMAIN rows : rows[k].time < end})

\* X_until is None where no row is before the end: then all rows are used.
Until(rows, end) == IF Before(rows, end) = 0 THEN Len(rows) ELSE Before(rows, end)

\* The exceptions in their order: ModelNotTrained, IndexError of the dataset,
\* NoData, TypeError of a span that is not a number, "not enough data", and the
\* network's refusal of windows of another width.
Failure(rows, cells, end) ==
  IF net.width = 0 THEN "not_trained"
  ELSE IF Len(rows) > cells THEN "overrun"
  ELSE IF rows = <<>> THEN "no_data"
  ELSE IF W = AutoSpan THEN "width"
  ELSE IF Until(rows, end) < W THEN "not_enough"
  ELSE IF W # net.width THEN "width" ELSE "none"

\* The last column of every window is declared missing and estimated.
PredictWindows(x) ==
  LET data == FormatDataset(x, W) IN [j \in DOMAIN data |-> <<"window", data[j]>>]

\* The first window is rolled, once per window of the history: bucket j is
\* estimated from the first window and the j - 1 estimates before it.
ForecastWindows(x) ==
  LET data == FormatDataset(x, W) IN [j \in DOMAIN data |-> <<"rolled", j - 1, data[1]>>]

Estimates(kind, x) == IF kind = "predict" THEN PredictWindows(x) ELSE ForecastWindows(x)

\* y has a cell per bucket of the range; those without an estimate get the
\* default as the missing values of a dataset do.
Padded(y, size) ==
  [j \in 1..size |->
    IF j <= Len(y) THEN y[j]
    ELSE IF default = "previous" /\ y # <<>> THEN y[Len(y)] ELSE <<default>>]

\* What predict and forecast have in common: the range, the history, the rows
\* before the end of the range, and the series that are returned.
Result(kind, start, end) ==
  LET rows == Found(HistFrom(start), end)
      x == Dataset(HistFrom(start), end)
      Times(seen) == [k \in DOMAIN seen |-> seen[k].time]
      failure == Failure(rows, Buckets(HistFrom(start), end), end)
  IN  IF failure # "none" THEN NoSeries(failure)
      ELSE [kind |-> kind, from |-> start, to |-> end,
            times |-> Times(Cut(SubSeq(rows, 1, Before(rows, end)))),
            observed |-> Cut(x),
            predicted |-> Padded(Estimates(kind, SubSeq(x, 1, Until(rows, end))),
                                 Buckets(start, end))]

Infer(kind, from, to) ==
  /\ out' = Result(kind, Floor(from), Ceil(to))
  /\ UNCHANGED <<adapter, points, windows, default, span, net>>

\* The job of a worker: it loads the settings and the state, and infers.
Predict(from, to) == Infer("predict", from, to)
Forecast(from, to) == Infer("forecast", from, to)

\* PATCH of the model saves the settings and not the state.
PatchSpan(s) ==
  /\ s # span
  /\ span' = s
  /\ out' = NoResult
  /\ UNCHANGED <<adapter, points, windows, default, net>>

SeriesNext ==
  \/ \E from \in RangeTimes, to \in RangeTimes : from < to /\ Train(from, to)
  \/ \E from \in RangeTimes, to \in RangeTimes : from < to /\ Predict(from, to)
  \/ \E from \in RangeTimes, to \in RangeTimes : from < to /\ Forecast(from, to)
  \/ \E s \in Spans : PatchSpan(s)

SeriesSpec == SeriesInit /\ [][SeriesNext]_seriesVars

-----------------------------------------------------------------------------
SeriesTypeOK ==
  /\ adapter \in Stores /\ default \in {"none", "previous", "value"} /\ span \in Spans
  /\ points \subseteq Features \X PointTimes
  /\ windows \subseteq WindowTimes \X WindowTimes
  /\ net.width \in {0} \cup Spans \cup (MinSpan..(MaxSpan - 1)) /\ net.cells \in Nat
  /\ net.learned \subseteq points \cup DefaultValue
  /\ \A k \in DOMAIN out.observed : out.observed[k] \subseteq points \cup DefaultValue
  /\ \A k \in DOMAIN out.times : out.times[k] \in Int

\* The value of the bucket at t in a history that begins at hist, defaults
\* applied: with "previous", that of the last bucket which has one.
ValueAt(t, hist) ==
  LET full == {u \in {hist + k * Interval : k \in 0..Buckets(hist, t)} : InRowOf(u) # Missing}
  IN  IF InRowOf(t) # Missing THEN InRowOf(t)
      ELSE IF default = "value" THEN DefaultValue
      ELSE IF default = "previous" /\ full # {}
           THEN InRowOf(CHOOSE u \in full : \A v \in full : v <= u) ELSE Missing

\* Whatever the adapter, the range, the span and the missing values: the entry k
\* of a prediction is the bucket k of the range, next to the value observed in
\* that bucket and the estimate made from the span of buckets that ends there.
PredictionAligned ==
  out.kind \in {"predict", "forecast"} /\ adapter \in Gridded =>
    LET hist == HistFrom(out.from)
        SpanAt(n, t) == [i \in 1..n |-> ValueAt(t - (n - i) * Interval, hist)]
    IN  \A k \in DOMAIN out.times :
          /\ out.times[k] = out.from + (k - 1) * Interval
          /\ out.observed[k] = ValueAt(out.times[k], hist)
          /\ out.predicted[k] =
               IF out.kind = "predict" THEN <<"window", SpanAt(net.width, out.times[k])>>
               ELSE <<"rolled", k - 1, SpanAt(net.width, out.from)>>

\* "This is the number of buckets that the function MUST return"
\* (loudml/donut.py): one entry per bucket of the range, and no entry is left to
\* the default; and a database that has any data never makes the job fail, unless
\* the range is too short for a span that was changed after the training. Only
\* MongoDB's adapter cuts rows off.
WholeRange ==
  adapter \in Gridded \ {"mongo"} =>
    /\ out.kind # "overrun"
    /\ out.kind = "not_enough" => span # net.width
    /\ out.kind \in {"predict", "forecast"} =>
         /\ Len(out.times) = Buckets(out.from, out.to)
         /\ Len(out.observed) = Len(out.times)
         /\ \A k \in DOMAIN out.times : out.predicted[k][1] \in {"window", "rolled"}

\* The buckets of the training part of the dataset of the last training.
TrainedBuckets ==
  {Floor(net.from) + (k - 1) * Interval : k \in 1..TrainSize(net.cells)}

Within(t, w) == w[1] <= t /\ t + Interval <= w[2]
Touches(t, w) == w[1] < t + Interval /\ t < w[2]

\* Of the training part, the network sees the points of every bucket that no
\* abnormal window touches, and (without a default that copies values) none of
\* a bucket that lies in a window which ends in the range of the training.
MaskIsTheWindows ==
  adapter \in Gridded =>
    \A t \in TrainedBuckets :
      /\ (\A w \in windows : ~Touches(t, w)) => InRowOf(t) \subseteq net.learned
      /\ default # "previous" /\ (\E w \in windows : Within(t, w) /\ w[2] < net.to)
           => InRowOf(t) \cap net.learned = {}

\* "set user defined abnormal data points to zero" (loudml/donut.py): the
\* network never learns from a bucket that lies in an abnormal window.
AbnormalNotLearned ==
  \A t \in TrainedBuckets :
    (\E w \in windows : Within(t, w)) => InRowOf(t) \cap net.learned = {}

\* A model whose span is "auto" (docs/reference/release-notes/1.3.0.asciidoc:85)
\* is used with the width that its training has chosen.
WidthIsTrained == out.kind # "width"
=============================================================================
