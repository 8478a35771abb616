# TLA+ models of the Loud ML server

Loud ML is a server for machine learning on time series: it stores models,
trains them in worker processes, evaluates them at intervals, detects anomalies
and writes predictions back to a time-series database. This directory holds TLA+
models of the parts of the server whose behaviour is decided by interleavings,
by the order of file operations, or by the arithmetic of time ranges; the TLC
configurations that check them on small instances; and proofs, checked by TLAPS,
of the most important properties for every value of the constants.

Paths are relative to `src/`. Line numbers are those of the modelled commit;
`PROJECT.json` maps every definition to the lines that it stands for.

## 1. The system

### Processes and threads

| actor | what it runs | code |
|---|---|---|
| HTTP thread | every request handler, one after the other (gevent's WSGIServer without monkey patching: a handler that blocks in `job.result()` blocks all requests) | `loudml/server.py` |
| timer thread(s) | `read_messages` (progress of the workers), `daemon_clear_jobs`, the scheduler's `run_pending` | `RepeatingTimer`, `server.py:240-259` |
| threads of the pools | complete futures and run `Job._done_cb` | pebble's `ProcessPool`, two of them: `g_training_pool`, `g_pool` |
| worker processes | `Worker.run`: train, predict, forecast, read from and write to a bucket | `loudml/worker.py` |
| database | the points, the annotations, the predictions | behind the adapters of `loudml/bucket.py` |

No lock protects anything that these actors share: the fields of a `Job`,
`g_jobs`, `g_training`, `g_scheduled_jobs`, and the files of a model, which are
written by the HTTP thread and the workers.

### Components

| component | state | operations | what makes it correct | module |
|---|---|---|---|---|
| job server | `Job.state`, `progress`, result, `g_jobs`, `g_training`, futures, `g_queue` | start, cancel, messages, callback, clear | a job has one outcome, answered once, and what a user reads agrees with it; every job ends; the HTTP thread comes back | `JobServer`, `JobLedger` |
| model store | checkpoints, their modification times, the link `state.json` | save, load, restore | the current version is always complete; no training is lost | `ModelStore` |
| activation and scheduled jobs | settings on disk (`run`, `interval`), `g_scheduled_jobs`, timers of `schedule` | `_start`, `_stop`, PATCH, DELETE, training, restart | the three agree: a stopped model does not run, a started one does, once per interval | `ModelActivation` |
| periodic evaluation | the automaton of anomalies, hooks, annotations, output | predict with detection | hooks and annotations follow the scores, in every order of failures | `PeriodicEval` |
| bucket writer | `_pending`, `_last_commit`, the dictionary of tags | insert, commit, send | each point once, in order, with its own flag; bounded buffer | `BucketWriter` |
| adapters | none | `get_times_data` | rows are the buckets of the range, features are not mixed up, nothing is lost | `TimesData`, `BucketState`, `BucketRead` |
| time-series model | settings (span), state (network width) | train, predict, forecast | a prediction is aligned with its observations; abnormal data is not learned | `DonutSeries` |
| neural network, scores | weights | numeric | out of reach | - |
| timers, shutdown, metrics | `RepeatingTimer`, the events of `schedule`, `g_app_stop` | tick, run the due events, post to the server itself, stop | the one timer thread survives every event, no event waits for ever, the process ends when told | `Scheduler` |
| REST resources, templates, buckets' configuration, hooks' settings | directories, dictionaries | create, PATCH, DELETE, list in pages, GET by names | what was created stays complete; lists and pages leave out nothing that stayed where it was | `Listings` |
| settings, schemas, conversions, telemetry | little or none | validation, parsing | pure functions | not modelled |

How they interact: a request makes a `Job`; the job calls a method of `Worker`
in a process of a pool; the worker loads the model from the store, reads rows
through an adapter, runs the model, calls hooks, saves the state in the store
and the output through the bucket writer; it reports to the server with
messages. The scheduler posts requests to the server itself.

### What is hard about it

- three kinds of threads assign `Job.state` without a lock;
- messages of a worker may be older than the verdict on its job;
- a query enters `g_jobs` after it has entered its pool, a training before;
- the one HTTP thread waits for workers, and requests of the server to itself
  wait for that thread;
- `save_model` and `_set_current_ckpt` are sequences of file operations that two
  processes run at the same time and that a kill may cut anywhere;
- a worker writes back, after hours, settings that it read at the beginning;
- schedules live in memory and are made again from the settings at a restart;
- a hook may raise in the middle of the calls, with effects in the database;
- one mutable dictionary of tags is shared by requests that wait in a buffer;
- seven databases have seven conventions about the ends of a range, about empty
  buckets and about missing features, and the model code relies on positions;
- the width of a window is in three places (settings, state, network);
- one thread runs every scheduled job, reads the messages of the workers and
  sends metrics to a foreign host, each of which may keep it from the others;
- dictionaries are walked through by one thread while another changes them;
- a directory of a model exists before its settings do, and may stay without;
- each page of a list is cut from a list of its own.

## 2. The modules

### JobServer, JobLedger, MCJobServer, JobServerProofs

`JobServer` has one variable per shared field (`state`, `eval`, `registered` for
`g_jobs`, `training` for `g_training`, `queue` for `g_queue`) and the program
counters of the actors (`http`, `timer`, `callback`, `worker`). An action is one
access to `Job.state`, or a group of accesses that no other thread can tell
apart: `Job.cancel` is `CancelJob` (the test), `MarkCanceling` (the assignment)
and `CancelFuture`; `Job._done_cb` is `AnswerCallback` (result and `done_dt`)
and `StateCallback` (the state); `set_job_state` is `TakeMessage` (its tests)
and `ApplyMessage` (its assignments). `add_done_callback` on a complete future
runs the callback in the HTTP thread (`AttachCallback`, `AttachedCallbackOver`).
A future is pending, finished, error or cancelled; the errors of a worker
(exception, kill, timeout) are one outcome.

`JobLedger` is the abstract specification: a job is submitted, gets one outcome,
is answered, and may be forgotten after that. `JobServer` implements it under a
refinement mapping (`Phase`) from the future, the answer and `g_jobs`. The
visible `Job.state` is deliberately not part of the ledger, because the code
does not protect it; what does hold of it is `VerdictMatchesOutcome`.

### ModelStore, ModelStoreProofs

The files of one model at the grain of system calls: pick a name, write the
checkpoint (a write and an atomic rename), unlink `state.json`, link it again,
`utime`. Trainers and request handlers interleave; `CrashSpec` stops processes
anywhere; `SerialCrashSpec` has one operation at a time. `Symlink` has the two
outcomes of `os.symlink` (made, or `FileExistsError`).

### ModelActivation, ModelActivationProofs

Four things that must agree about a model: its settings on disk (`stored`), its
entry in `g_scheduled_jobs`, its timers in the `schedule` library, and what the
user was told last (`told`, a history variable). Handlers that first load and
then save are two actions, because a worker may save in between. `QuietSpec` is
the specification in which users do not change a model while it is trained.

### Scheduler, MCScheduler, SchedulerProofs

The timer thread and what it meets. Its steps are those of `read_messages`:
`RunPending` collects the due events of the schedule library, `NextEvent` looks
the entry of one up in `g_scheduled_jobs`, `Send`, `Connected`, `Refused`,
`TimedOut` and `ConnectionLost` are the request to the server itself,
`MetricsEnd` the one to the telemetry service, `Read` the queue of the workers.
Beside it, requests post and delete scheduled jobs, the HTTP server takes the
connections of its backlog one at a time and answers when it likes, and the main
thread starts, serves, fails or is interrupted. Time is counted in seconds of
the timer and passes (`Tick`) only while the thread sleeps or waits.

### Listings, ListingsProofs

Six kinds of resources in one module, because the question is the same for all:
what do a request that walks through them and a client that reads page after
page see, while they change? `table` holds the resources in the order in which
the code meets them: sorted by name for what lies in directories (models,
templates), by insertion for what lies in dictionaries (jobs, buckets, scheduled
jobs) or in a glob (hooks). A walk is `BeginList` or `BeginGet`, one `Visit` per
resource (by kind: `VisitModel`, ...), and `Answer` (sort and page) or `Abort`.
Creation and removal of a directory are two steps each (`CreateDir`,
`WriteSettings`; `RemoveFiles`, `RemoveDir`); of a dictionary, entries go one at
a time (`RemoveEntry`) or by prefix (`ClearScheduled`). The buckets and the
scheduled jobs begin as the configuration and the started models leave them
(`AtStart`), and a restart begins them again; it reads the directories again
(`Reread`). A dictionary that changed in size breaks its iterator, and so does a
scheduled job into which the timer thread writes while it is copied
(`VisitScheduled`). Beside the HTTP thread, `daemon_clear_jobs` forgets jobs,
callbacks change them, a training saves its model and an evaluation loads hooks.
The training makes the directory, writes the settings and then a checkpoint
(`SaveDir`, `SaveSettings`, `SaveCheckpoint`); a checkpoint that comes between the
two steps of a DELETE leaves a directory that cannot be removed and has no
settings (`RemoveDirFails`). `Restart` may come at any moment, with other plug-ins.

### PeriodicEval, MCPeriodicEval, PeriodicEvalProofs

`Worker.predict` with `detect_anomalies`: per bucket of time a score that is
high, mid or low, the automaton with its two thresholds and grace period, the
calls of the hooks one by one, the output. A step has one effect outside of the
worker at most: the annotation hook at a start inserts a point in InfluxDB
(`HookStart`) and then keeps it in the object of the model (`KeepPoints`); at an
end it marks the point of the object deleted (`HookEnd`), writes it at the end
(`WriteEnd`) and deletes the object (`ForgetPoints`). The hook may raise before or
after each of them (`HookStartFails`, `KeepFails`, which are logged;
`HookEndFails`, `EndIsCut`, which fail the job), and the worker may be killed
between any two (`Killed`). InfluxDB is the map `points` from a place, the type of
the hook and a time, to the annotation shown there: a point takes the place of
another. All annotation hooks of a model share one object. The history `cut` has
the annotations of which a call was cut off after an effect, or whose start
raised before one. Evaluations over any of the configured ranges follow each
other.

### BucketWriter, BucketWriterProofs

`save_timeseries_prediction` request by request through the adapters in which a
flagged prediction can be saved: InfluxDB, Elasticsearch, MongoDB, OpenTSDB
(Prometheus cannot be written to, and Warp10 refuses a tag that is not text).
They differ in four ways. InfluxDB keeps the dictionary of tags of the caller in
the pending request, the others copy it (`KeepsTags`). OpenTSDB has a request per
value and not per point (`pointOf`). `Bucket.enqueue` sends a full bulk, the
`enqueue` of MongoDB keeps everything until `commit` (`SendsEarly`). And they
differ in what a call leaves behind. `Taken` says which requests are carried out
when `send_bulk` raises: the first ones where MongoDB stops at the one that it
refuses, any of them with the others, none or all when only the answer is
lost. `TakenOrLogged` says which are when it returns: all, but OpenTSDB's client
logs a refused write and returns, whereupon `commit` clears the buffer; these
requests are in `refused` and lost.

### TimesData, BucketState, BucketRead, BucketReadProofs

`TimesData` has no variables. Its operators say what each adapter answers to
`get_times_data` for a set of points: a value is the set of points that the
database aggregates in it, so that a property can say *which* points a row has.
`Merge` and `Answered` are the loops that `influx.py`, `opentsdb.py` and
`prometheus.py` share. What a database does with a query is not in the
repository: `InfluxResult` and `Lookback` are marked external, the other
operators contain the part of it that the adapter relies on (open and closed
ends, `extended_bounds`, steps without samples). `BucketState` declares the
bucket that the next two modules share, its adapter and its points, and says
without the adapters what a row stands for. `BucketRead` lets points arrive
while read and write jobs run, and lets OpenTSDB and Prometheus refuse some of
the queries of a read, which their adapters log and leave out.

### DonutSeries

`train`, `predict` and `forecast` of `donut.py` over the rows of `TimesData`:
the range, the dataset, the defaults, the abnormal windows, the width that
hyperopt chooses, the history, the failures in their order, and the series that
are returned. An estimate of the network is abstracted to the window that it is
computed from, and what the network learned to the set of points that it saw;
this is what makes alignment and masking checkable. `predict` and `forecast`
are the same code twice in the source and share `Infer`, `Result` and
`Estimates` here; `Dataset` is the series that each of the three jobs makes of
the rows, and `Trained` the state that a training leaves. The names of its
specification begin with `Series` (`SeriesInit`, `SeriesNext`, `SeriesSpec`),
because `BucketReadProofs` extends it together with `BucketRead`: the theorems
about it rest on what is proved there of the rows. `SeriesInit` has
`NbFeatures = 1`, as `DonutModel.__init__` refuses any other model.

## 3. What is checked

Deadlock is not checked in the runs of systems that end (a bounded number of
jobs, trainings, points or evaluations).

| run | module | instance | what it shows |
|---|---|---|---|
| `scheduler` | MCScheduler | two jobs with periods of two and three seconds, two timers, the hourly event, a start that may fail, limits of a second | the thread survives everything, delays are bounded, a deleted job is sent at most once more, the process ends |
| `listings` | Listings | two names, two values, pages of one, four changes, any table at the start, for each of six kinds (1.3 million states) | pages miss or repeat only what was overtaken, answers and promises are kept, expired jobs go |
| `jobs_trainings` | MCJobServer | two trainings of one model, one worker, one report each | the safety of the job server, and the ledger with its liveness |
| `jobs_requests` | MCJobServer | two queries, one worker | no canceled request handler, every job settles, the HTTP thread returns |
| `store_race` | ModelStore | two trainers, one handler, restores | the link is never dangling, never lost for good |
| `store_crash` | ModelStore | one trainer, one handler, kills anywhere, four trainings | no training is lost |
| `activation_quiet` | ModelActivation | two models (one patched), one user job, two restarts | the disk, the table and the timers agree |
| `eval` | MCPeriodicEval | two annotation hooks that may raise between any two of their effects, two evaluations of ranges that overlap, kills between any two effects (1.8 million states) | hooks follow the scores; annotations of calls that were not cut off are closed, once and for good |
| `writer_copied` | BucketWriter | four adapters, five requests, bulks of three, bulks that fail with holes, refusals that are only logged (290,504 states) | order, no duplicates, nothing lost without an exception or a log, bounded buffer, flags |
| `read` | BucketRead | seven adapters, two features, times 0..4, buckets of 2 | rows and features are right, nothing lost |
| `series` | DonutSeries | five adapters, every subset of five points, three defaults, an abnormal window, spans 1, 2 and auto | alignment, completeness, masking |
| `activation_stop` | ModelActivation | requests during trainings | *violated*: see findings |

Types. `TypeOK` (`SeriesTypeOK` in `DonutSeries`) is proved for every module that
has actions but the abstract `JobLedger`; no run checks it.

Why the bounds are enough. Jobs interact through the worker, the queue and the
HTTP thread: two jobs meet in each of them, and one message of each is enough to
be early, late or out of order; the safety part is proved for any number. For
the store, two processes and a handler are the least for which a name can be
picked twice and a link be raced for; the checkpoint numbers are bounded by
`MaxName`. For activation, one restart after a stale save is the shortest
counterexample known and two are allowed. In `eval`, four buckets of time hold
an anomaly, its end, a grace period and a second anomaly; the second range lies
within the first, so that the second evaluation meets the object and the points
that the first has left; two annotation hooks are the least that share an object.
In `writer_copied`, five requests are more than a bulk, and a bulk of three is the
least in which a hole has requests on both sides. In `read` and `series`,
`Interval = 2` gives aligned and unaligned ends and points on a boundary and
inside a bucket; two features are the least for which one can take the place of
the other, and each may be refused; the ranges of `series` (0..7, 0..8, 7..8 and
those that end at 18) give histories of zero and one bucket, a range of a single
bucket that is shorter than a span, trailing and leading holes, and every
placement of a window with respect to the range. With that range `WholeRange`
says exactly when rows are too few: `not_enough` only where the span was changed
after the training. In `scheduler`, two timers
are two different names or one name twice (posted again), a limit of one second
lets a request be queued, refused, answered or given up, and a backlog of one is
full at once. In `listings`, two resources and pages of one are a page boundary
with something on each side of it; four changes are enough to create both, move
one behind the other between two pages and cut a removal by a restart.

### Fairness

- `JobServer!FairSpec`: a handler that has begun goes on (it is a thread);
  the pool takes a waiting job when a worker is free, tasks end (training has a
  number of evaluations, queries have timeouts) and callbacks run (weak fairness
  of `Pool(j)`); the timer fires every second. Nobody has to send a request, and
  no worker has to report progress.
- `ModelStore!FairSpec`: a process in the middle of a file operation goes on.
- `Scheduler!Spec`: the timer thread and the main thread go on (threads), time
  passes; nothing obliges the HTTP server to answer, nor users to do anything.
  That the telemetry service answers within `Telemetry` seconds is an assumption
  of the instance, which the code does not enforce: with `Telemetry = None`,
  `MCScheduler_hang` shows the thread waiting for ever.
- `Listings!Spec`: the timer thread goes on; nothing else has to.
- The other modules have safety properties only and assume no fairness.

### Violated statements that are not runs of PROJECT.json

The same modules state more of what the documentation and comments say, and TLC
finds these violated by what the code does. The `.cfg` files are here, one per
statement, to be run with `tlc -config X.cfg M`:

| cfg | statement | what happens |
|---|---|---|
| `MCJobServer_running` | `running` means that the result is not yet ready (jobs.asciidoc:48) | `set_job_state` ignores late messages for done and failed jobs only: one for a canceled job makes it running for ever, and `daemon_clear_jobs` never forgets it |
| `MCJobServer_waiting` | `waiting` means waiting to be scheduled (jobs.asciidoc:47) | the message of a query that is taken before `g_jobs` has the job is dropped, and the job waits until it is done |
| `MCJobServer_stopped` | "job is already stopped" (server.py:355) | a job that ends between the test of `cancel` and its assignment is canceling for ever |
| `MCModelStore_lost` | past versions can be restored at any time (train.asciidoc:59) | a restore touches the old checkpoint; the next training is named after it and overwrites its successor |
| `MCModelActivation_delete` | DELETE deletes all data (delete-model.asciidoc:4) | a training that saves after DELETE creates the model again |
| `MCModelActivation_params` | a started model is evaluated every interval (models.asciidoc:103) | PATCH of the interval schedules it again without `from` and `to`: every evaluation is an error |
| `MCModelActivation_patch` | the same | PATCH drops `run` from the settings: not scheduled after a restart |
| `MCModelActivation_repost` | a job runs every `count` units (scheduled_jobs.asciidoc:63) | posting a name again leaves the old timer: it runs twice |
| `MCPeriodicEval_agree` | hooks are told of starting and ending anomalies (hooks.asciidoc) | a hook that raises at the end keeps the hooks after it from being told |
| `MCPeriodicEval_grace` | new anomalies are ignored in the grace period (1.4.2.asciidoc:33) | the period is forgotten with the evaluation |
| `MCPeriodicEval_output` | output goes to `default_bucket` or `output_bucket` (models.asciidoc:116) | an absent `output_bucket` of `_start` becomes the text `None` |
| `MCPeriodicEval_alternate` | hooks are called when anomalies are starting or ending (hooks.asciidoc) | the state of the anomaly is thrown away with each evaluation (`save_run_state=False`): hooks hear twice that one anomaly starts |
| `MCBucketWriter_kept` | `is_anomaly` flags the data point (getting-started.asciidoc:245) | all points of a bulk get the flag of the last one |
| `MCBucketWriter_refused` | a job that is done has saved its output (models.asciidoc:116) | OpenTSDB's client logs a refused write (opentsdb.py:279): the commit clears the buffer and the job is done without these values |
| `MCBucketRead_refused` | one value for each feature (bucket.py:181) | a refused query is left out of the results and the next features take its place |
| `MCDonutSeries_auto` | a trained model predicts with the width it was trained with | `W` returns the setting and not the trained width: a model with span `auto` cannot predict after it was loaded |
| `MCDonutSeries_abnormal` | abnormal data points are set to zero (donut.py:972) | a window that ends after the range of the training is not listed, and the default `previous` copies abnormal values into empty buckets |
| `MCScheduler_hang` | a job runs every `count` units (scheduled_jobs.asciidoc:63) | `send_metrics` posts without a limit: while the telemetry service does not answer, no event runs and no message is read |
| `MCScheduler_failed` | a start that fails exits (`sys.exit` in `main`) | the interpreter waits for the timer thread, which nothing has cancelled |
| `MCListings_expired` | GET /jobs lists the jobs | a job that expires while they are listed breaks the iterator of the dictionary, and the request is an error |
| `MCListings_halfmade` | GET /models lists the models | a POST cut by a kill leaves a directory without settings: its name is taken and every list is 404 |
| `MCListings_torn` | a list is the state of one moment | jobs that change while they are listed are sorted by values of two moments, and a client is shown one twice that was never overtaken |

### Findings in PROJECT.json

- `activation_stop`: a training that ends after `_stop` writes `run` back; the
  next restart starts the model again.

## 4. What is proved

The proofs are in modules that extend the modelled component. They assume only
the named assumptions on the constants. Every safety property and every action
property of the passing runs is a theorem.

One caution about tlapm 1.4.5: its SMT translation takes two `CASE` expressions
for equal when their first arms are. No proof here compares two `CASE`
expressions as wholes: each arm is unfolded under its own condition
(`GriddedIsRight`), and definitions that proofs compare are written with `IF`.

**JobServerProofs.** `TypeCorrect`, `VerdictCorrect`, `NoCancelUnderRequest`,
`EndDateSet`, `LiveListed` for any jobs, models, workers and reports;
`Refinement`: `Spec => JobLedger!Spec` under the mapping; `ProgressNeverGoesBack`.
The inductive invariant `IInv` is the type invariant, the verdict,
`BlockedRequestNotCanceled` and two facts that none of these imply:
`CallbackOrder` (the callback is ready only when the future is complete, and the
answer is set exactly from its first part on) and `Registration` (where a job is
between its creation, the end of `start` and its expiry). Without
`Registration`, a handler could wait for a job canceled before it was listed.
The refinement follows: each action either leaves the phases alone (`Stutter`)
or is one step of the ledger (`SubmitStep`, `SettleStep`, `AnswerStep`,
`ForgetStep`). Progress needs an invariant of its own, `OrderInv`: the numbers in
`g_queue`, in the hand of the timer and in the job are sorted per job.

**SchedulerProofs.** `TypeCorrect`, `DeletedIsLast`, `StatusCorrect`,
`ThreadSurvives` for any jobs, periods, limits and timers. `IInv` adds to the types
what the thread holds: an event while it runs one (`CallKnown`), an entry that is
still in the table and was asked once the request is out, unless it was disowned
by a deletion or a new post (`OwnIsThere`), and no request counted as late
before the one that is about to be sent (`LateIsLast`). `DelayIsBounded`: a due
event waits for one call of each other timer at most. `DueInv` is its inductive
form: the time that an event has been due is covered by the longest time of the
events of its pass that may have run before it, so that what is still ahead of it
is paid for (`Cost` counts events and never sums over a set; an event runs once in
a pass, because `Done` starts a period of at least a second); `TurnInv` says that
a pass holds due events only, each once, and what the clock is in each place. Its
hypothesis `Telemetry # None` is needed: `MCScheduler_hang` shows the thread
waiting for ever without it.

**ListingsProofs.** `TypeCorrect`; `PromisesKept`: what POST has answered is there,
with its settings, until something removes it, crashes included; `SteadyIsAnswered`: a
walk answers every resource that stayed during it; `PagesMissOnlyWhatFell`: reading page after
page, a client misses only what fell behind and is shown twice only what rose.
`Inv` has what each actor holds (`HttpInv`: the directory that `rmtree` has
emptied is still there; `TimerInv`: nobody else removes the jobs about to be
forgotten; `WalkInv`: a steady resource was taken or is on the way). `PagesInv` is
about places in the client's order: between pages, a resource that was shown and
did not rise keeps a place before the pages read, one that was not shown and did
not fall a place behind (`PageInv`); during a walk, the list that will be cut is
not the table any more, but resources are only added to it, so that those found
at the beginning still fill the pages before (`ListInv`). The operations on a
table (insert, append, remove, change) have a lemma each.

**BucketReadProofs**, the rows. `TypeCorrect`, `RowsFit`, `ValuesAreOwn` and
`RowsAreExact` for any interval, number of features, points and range. The state
invariant is only that an answer is that of the points there are (`Current`: a
write that changes the points drops the answer); the work is in one lemma per
adapter (`MemIsRight` to `Warp10IsRight`), each of which shows `Right`: row `k` is
bucket `k` of the grid, has what the query asks for in it, and every point that
is asked for is in a row. `Merged` and `MergedBins` say what the loop that merges
the features does, `RangeIs` and `BucketOf` where a range begins and ends.
Prometheus and refused queries have weaker lemmas (`PrometheusFits`,
`OpenTSDBFits`).

**BucketReadProofs**, the model (`DonutSeries`). `SeriesTypeCorrect`,
`PredictionsAligned`, `RangesAreWhole`, `MaskIsRight`, for any interval, points,
ranges, spans and windows. `NetInv` says that the network is untrained or
the outcome of a training of the data there is, `OutInv` that the result is none,
a failure, or that of a job on this data and this network (`PATCH` of the span
drops the result and keeps the network). From there on the argument is about
functions: the rows of a history are its first buckets (`FoundIs`, from the
adapters' lemmas); the default of a bucket is the value of the last full one
before it (`DefaultsAre`); the three cuts of a result, of times, observations and
estimates, meet at the same bucket (`ResultIs`, `SeriesIsAligned`). For the mask, an
index truncated towards zero and clipped falls on the right side of a bucket for
every end of a window, before, in or after the range (`IndexIs`, `ClippedIs`),
and the sliding windows of the training part cover it (`LearnedIs`).

**ModelActivationProofs.** For every behaviour, trainings and crashes included:
`TypeCorrect` and `OneTimer`, from `SafeInv`, which is inductive as it stands. For
users who change no model while it is trained (`QuietSpec`): `StopIsKept`,
`StartIsKept`, `DeleteIsKept`, `NothingIsLeft`, `IntervalIsKept`. None of these is
inductive: a restart reads the disk, so `QuietInv` says what is on disk for each
answer (`Stopped`, `Started`, `DeletedStaysDeleted`), that a model without files
has no entry (`Absent`), that only PATCH drops the params (`Params`), and that
neither a handler (`Untouched`) nor a worker (`Held`) has a stale copy of the
settings. `Held` is the condition that the counterexamples of the general
specification break.

**ModelStoreProofs.** `NoDanglingLink`: with crashes, for any processes.
`SwitchAlwaysPending`: without crashes. `SafeInv` adds `Progress` (what a process
has done by its program counter: a picked name has a file from `unlink` on);
`LinkedOrPending` strengthens `SwitchIsPending` by the processes that are about
to return and are not in `saved` yet. `TrainingsKept`: with crashes anywhere, but
one operation at a time and no restore, no successful training is overwritten;
`KeptInv` adds that the newest checkpoint has the greatest name (`NewestIsLast`)
and that a process writes under a name after all others (`Position`).
`TypeCorrect`: with crashes.

**PeriodicEvalProofs.** `TypeCorrect`, `OneAtATime`, `AnnotationsEnd`,
`EndsAreFinal` and `ToldWhatScoresSay`, for any hooks, scores, ranges and grace
period, with failing hooks and kills. `CallInv` relates the last call that each
hook has heard to the automaton (`LastCall`: hook `h` is inside an anomaly by the
step of the calls and its place among the hooks), and says that a new anomaly
starts a grace period after the last one (`Automaton`). `NotesInv` relates the points
and the object to the automaton, for any number of annotation hooks. `Marks`: nothing
names an annotation that is yet to be made, and that of the object is shown at
no end unless one of its calls was cut off. `ObjectFits`: an object of the
evaluation is of the anomaly in progress, and one of an older evaluation is there
only as long as the evaluation under way has kept none. `CurrentOpen`: in the evaluation under way each annotation of the anomaly
in progress is shown once, at its start, unless it is in `cut`, and the object is
the last of them. `PastClosed`: those of anomalies that are over are shown once,
at their end, unless they are in `cut` or were replaced by that of a later hook
(`Replaced`). The two exemptions are what the code does: a call cut off
between the point and the object leaves the annotation open, and of two hooks
that share the object only the last can close its annotation. Without them both
statements are false; the theorems say that nothing else goes wrong. `ScoreInv` says that what each hook has heard follows the scores looked
at so far; it rests on `Sequenced`, that calls go forward from evaluation to
evaluation and in time.

**BucketWriterProofs.** `WrittenOnce`, `BufferBounded`, `FlagsOfCopies`,
`TypeCorrect` for any number of requests, size of bulk and set of adapters. While
the job runs, the pending requests are the last ones made, and those that were
carried out or refused the ones before (`IInv`); a bulk that is sent is split by
the set of positions that the database takes, which `SendPart` shows to keep the
order and to leave the others, whatever it is: a prefix, one with holes, all. A
request that waits has its own flag where tags are copied.

**Only model-checked.** All liveness (`EveryJobSettles`, `ServerAnswers`,
`CurrentAgain`, `EventsKeepRunning`, `ServerExits`, `ExpiredForgotten`, and the
liveness of the fair ledger, whose safety part is `Refinement`): the prover has no
rule for fairness or `ENABLED`. The statements that the code violates are refuted
by TLC and have no proof.

## 5. What is not modelled

The numbers: weights, scores, aggregations, intervals of confidence. The text:
queries, descriptions, logs, formats. Validation and parsing of settings, dates
and expressions. Plug-ins' own code, the file of the configuration, the text of a
template. HEAD, `_top`, `_test`, the node's own pages, the list of versions.
Connections, retries of the drivers, authentication. Of the scheduler: calendar
units (`every().monday.at(...)`: an event has a period), the metrics that
`g_app_init` sends once before the timer starts, and the time that code of the
server itself takes (a second of the model passes only while the thread sleeps
or waits).
Incremental training, which the API does not reach. Prometheus is in the read
and series models, but the alignment properties exclude it: steps without
samples are left out of its answers and features are merged by position, and a
dense answer has one row more than the range (`overrun`). OpenTSDB never reads
the last bucket of an unaligned range; MongoDB cuts rows after the last group,
so that a prediction at the end of the data is shorter than its range; both
follow from the operators, and `WholeRange` excludes MongoDB for it.

## 6. Plan

Modules, in the order of what matters most to the server:

1. done: `JobServer` over `JobLedger`; `ModelStore`; `ModelActivation`;
   `PeriodicEval`; `BucketWriter`; `TimesData` and `BucketState` with
   `BucketRead` and `DonutSeries`; `Scheduler`; `Listings`.
2. `Scheduler` composed with `JobServer`: a scheduled request that times out
   while the job it made goes on and holds the HTTP thread.
3. An evaluation from the schedule to the output: `ModelActivation`,
   `PeriodicEval` and `BucketWriter` composed, with an abstract specification
   (every interval of a started model is evaluated at most once).
4. Pure algorithms against reference definitions: durations, constraints,
   seasonality, ranges, names of checkpoints as text.

Proofs, in order: every safety property of the runs is a theorem now. What is
left: the invariant of a step that the liveness arguments need (each handler that
waits has somebody who will wake it) as safety theorems; under which conditions
the violated statements hold, as `MCModelActivation_*` has with `QuietSpec`
(`AbnormalNotLearned` for windows that end in the range and no default that
copies; `WidthIsTrained` for a span that is a number and is not changed).

Seen in the source while modelling, and not modelled yet:

- the clients of Prometheus and OpenTSDB catch `requests.exceptions.SSLError`
  around `perform_request`, which raises `errors.SSLError` instead: the handler
  is never reached and the query fails;
- Elasticsearch gets the `match_all` of all features in one query, so that each
  filters the others;
- `MongoBucket.clear_pending` empties `_pending` and leaves `_nb_pending`;
- `hook_test` calls `model.load()` without its arguments;
- incremental training, which no request reaches, does not mask abnormal points;
- PATCH /buckets calls `Config.patch_bucket`, which does not exist: 500;
- a template name may have a dot, and `list_templates` lists it without what
  follows the dot: GET /templates is then 404;
- sorting a list by a field that one resource lacks is a 500, and so is a choice
  of `fields` without the settings for models;
- `_write_json` calls `os.fsync` before the buffer of the file is flushed: a
  rename may reach the disk before the content does.
