---------------------------- MODULE PeriodicEval ----------------------------
(***************************************************************************)
(* The evaluations of one model (loudml/worker.py, Worker.predict) and the *)
(* detection of anomalies in them (loudml/donut.py, detect_anomalies): the *)
(* automaton with two thresholds and a grace period, the hooks it calls at *)
(* the start and at the end of an anomaly, the object that annotation      *)
(* hooks keep in the storage between the two calls, and the bucket where   *)
(* the output is saved. g_pool has one worker unless it is configured, so  *)
(* one evaluation runs at a time. Each step has one effect outside of the  *)
(* worker, a write to InfluxDB or to the storage, and may be its last: the *)
(* hook may raise before or after it, the worker may be killed.            *)
(* Time is counted in buckets of the model, from 1. The annotation hooks   *)
(* of the model have the setting type each to itself: InfluxDB knows a     *)
(* point by its type and its time.                                         *)
(***************************************************************************)
EXTENDS Naturals, Sequences, FiniteSets

CONSTANTS
  NbHooks,      (* hooks of the model, called in the order 1, 2, ...          *)
  Annotators,   (* the hooks of class AnnotationHook                          *)
  Failing,      (* hooks that may raise                                       *)
  Grace,        (* the setting grace_period, in buckets                       *)
  Ranges,       (* the ranges <<from, to>> that are evaluated                 *)
  Outputs,      (* the argument output_bucket: a bucket, or None              *)
  Buckets,      (* the buckets of the configuration                           *)
  DefaultBucket,(* the setting default_bucket                                 *)
  MaxTime,      (* bound: the buckets of time                                 *)
  MaxEvals,     (* bound: evaluations                                         *)
  None

Hooks == 1..NbHooks
Times == 1..MaxTime
Evals == 1..MaxEvals

ASSUME HooksAssumption ==
  NbHooks \in Nat /\ Annotators \subseteq Hooks /\ Failing \subseteq Hooks
ASSUME TimeAssumption ==
  /\ Grace \in Nat /\ MaxTime \in Nat /\ MaxEvals \in Nat
  /\ Ranges \subseteq {r \in Times \X Times : r[1] <= r[2]}
ASSUME BucketsAssumption ==
  /\ DefaultBucket \in Buckets /\ None \notin Buckets /\ None \notin Times
  /\ Outputs \subseteq Buckets \cup {None}

VARIABLES
  scores,       (* the scores of the buckets of time that have data           *)
  evals,        (* evaluations started                                        *)
  job,          (* the evaluation in progress, or None                        *)
  notified,     (* history: the calls each hook has received                  *)
  points,       (* the points of InfluxDB: the annotation shown there, or     *)
                (* None: there is no point, or it is marked deleted           *)
  object,       (* the model object annotations.points: an annotation or None *)
  cut,          (* history: annotations of which a call raised or was killed  *)
                (* after its first effect, or whose start raised before it    *)
  saved         (* output points: <<bucket, time>>                            *)

vars == <<scores, evals, job, notified, points, object, cut, saved>>

\* high: score >= max_threshold; low: score < min_threshold.
Scores == {"low", "mid", "high"}
Events == [kind : {"start", "end"}, at : Times, eval : Evals]
\* An annotation: its hook, its evaluation and the start of its anomaly.
Notes == Hooks \X Evals \X Times
\* A point: the type of its hook and its time.
Places == Hooks \X Times
\* What urlencode makes of an output_bucket that is None: the name 'None'.
NoneAsText == "None"

Jobs == [at : 1..(MaxTime + 1), from : Times, to : Times,
         output : Buckets \cup {None, NoneAsText},
         anomaly : Times \cup {None},     (* state['anomaly']['start_ts']     *)
         last : Times \cup {None},        (* state['last_anomaly_ts']         *)
         call : {"none", "start", "end"}, hook : 1..(NbHooks + 1),
         step : {"call", "set", "move", "forget"}] (* the next effect of it   *)

ASSUME JobsAssumption == None \notin Jobs
ASSUME NotesAssumption == None \notin Notes

TypeOK ==
  /\ scores \in Seq(Scores) /\ Len(scores) <= MaxTime
  /\ evals \in 0..MaxEvals
  /\ job \in Jobs \cup {None}
  /\ notified \in [Hooks -> Seq(Events)]
  /\ points \in [Places -> Notes \cup {None}]
  /\ object \in Notes \cup {None}
  /\ cut \subseteq Notes
  /\ saved \subseteq Buckets \X Times

Init ==
  /\ scores = <<>>
  /\ evals = 0
  /\ job = None
  /\ notified = [h \in Hooks |-> <<>>]
  /\ points = [p \in Places |-> None]
  /\ object = None
  /\ cut = {}
  /\ saved = {}

-----------------------------------------------------------------------------
(* Starting an evaluation                                                   *)

\* A bucket of time gets its data.
NewBucket(s) ==
  /\ Len(scores) < MaxTime
  /\ scores' = Append(scores, s)
  /\ UNCHANGED <<evals, job, notified, points, object, cut, saved>>

\* Worker.predict loads the model. Nothing ever saved an anomaly with it: the
\* server evaluates with save_run_state=False.
LoadModel(range, output) ==
  /\ job = None
  /\ evals < MaxEvals
  /\ range[2] <= Len(scores)
  /\ evals' = evals + 1
  /\ job' = [at |-> range[1], from |-> range[1], to |-> range[2], output |-> output,
             anomaly |-> None, last |-> None, call |-> "none", hook |-> 1,
             step |-> "call"]
  /\ UNCHANGED <<scores, notified, points, object, cut, saved>>

\* A request of a user: an absent output_bucket is None.
UserEval(range, output) == LoadModel(range, output)

\* daemon_exec_scheduled_job: the params of _start, among them an output_bucket
\* that may be None, go through urlencode.
ScheduledEval(range, output) ==
  LoadModel(range, IF output = None THEN NoneAsText ELSE output)

-----------------------------------------------------------------------------
(* detect_anomalies                                                         *)

InGracePeriod == job.last # None /\ job.at - job.last < Grace

\* The bucket is flagged.
IsAnomaly == ~InGracePeriod /\ scores[job.at] = "high"

\* Mutant: one threshold, an anomaly ends as soon as the bucket is not flagged.
IsOverAtOnce == ~IsAnomaly

\* The anomaly in progress ends here.
IsOver == ~IsAnomaly /\ scores[job.at] = "low"

Detecting == job # None /\ job.call = "none" /\ job.at <= job.to

\* A new anomaly: the state is set before the hooks are called.
AnomalyStarts ==
  /\ Detecting
  /\ job.anomaly = None
  /\ IsAnomaly
  /\ job' = [job EXCEPT !.anomaly = job.at, !.call = "start", !.hook = 1]
  /\ UNCHANGED <<scores, evals, notified, points, object, cut, saved>>

\* The end of an anomaly: the state is reset after the hooks were called.
AnomalyEnds ==
  /\ Detecting
  /\ job.anomaly # None
  /\ IsOver
  /\ job' = [job EXCEPT !.call = "end", !.hook = 1]
  /\ UNCHANGED <<scores, evals, notified, points, object, cut, saved>>

\* Any other bucket leaves the anomaly, or its absence, as it is.
NextBucket ==
  /\ Detecting
  /\ IF job.anomaly = None THEN ~IsAnomaly ELSE ~IsOver
  /\ job' = [job EXCEPT !.at = @ + 1]
  /\ UNCHANGED <<scores, evals, notified, points, object, cut, saved>>

-----------------------------------------------------------------------------
(* The calls of the hooks                                                   *)

\* The hook whose turn it is may be called.
Calling(kind) ==
  job # None /\ job.call = kind /\ job.step = "call" /\ job.hook <= NbHooks

\* It is an annotation hook whose call has an effect to come.
Within(step) == job # None /\ job.step = step

Notify(kind) ==
  notified' = [notified EXCEPT ![job.hook] =
                 Append(@, [kind |-> kind, at |-> job.at, eval |-> evals])]

NextHook == job' = [job EXCEPT !.hook = @ + 1, !.step = "call"]
GoOn(step) == job' = [job EXCEPT !.step = step]

\* The annotation that the hook makes of the start.
NewNote == <<job.hook, evals, job.at>>

\* The two points of an annotation: that of its start, written by
\* insert_annotation and marked deleted by update_annotation, and that of its
\* end. A point that is written where there is one takes its place.
WriteAt(t, note) == points' = [points EXCEPT ![<<note[1], t>>] = note]
MarkDeleted(note) == points' = [points EXCEPT ![<<note[1], note[3]>>] = None]

\* set_object and delete_object: the file objects/annotations.points.json of
\* the model, whose key is the same for all hooks.
SetObject(note) == object' = note
DeleteObject == object' = None

\* on_anomaly_start. An annotation hook inserts an annotation of no length, ...
HookStart ==
  /\ Calling("start")
  /\ Notify("start")
  /\ IF job.hook \in Annotators
     THEN WriteAt(job.at, NewNote) /\ GoOn("set")
     ELSE NextHook /\ UNCHANGED points
  /\ UNCHANGED <<scores, evals, object, cut, saved>>

\* Mutant: the annotation is not remembered.
KeepNothing ==
  /\ Within("set")
  /\ NextHook
  /\ UNCHANGED <<scores, evals, notified, points, object, cut, saved>>

\* ... then it keeps its point in the object of the model.
KeepPoints ==
  /\ Within("set")
  /\ SetObject(NewNote)
  /\ NextHook
  /\ UNCHANGED <<scores, evals, notified, points, cut, saved>>

\* on_anomaly_start raises before its first effect; the exception is logged.
HookStartFails ==
  /\ Calling("start")
  /\ job.hook \in Failing
  /\ Notify("start")
  /\ cut' = IF job.hook \in Annotators THEN cut \cup {NewNote} ELSE cut
  /\ NextHook
  /\ UNCHANGED <<scores, evals, points, object, saved>>

\* It raises when the point is written, as set_object does or the client of
\* InfluxDB that gets no answer; the exception is logged.
KeepFails ==
  /\ Within("set")
  /\ job.hook \in Failing
  /\ cut' = cut \cup {NewNote}
  /\ NextHook
  /\ UNCHANGED <<scores, evals, notified, points, object, saved>>

\* on_anomaly_end. An annotation hook marks the point of the object deleted, ...
\* Without an object it does nothing.
HookEnd ==
  /\ Calling("end")
  /\ Notify("end")
  /\ IF job.hook \in Annotators /\ object # None
     THEN MarkDeleted(object) /\ GoOn("move")
     ELSE NextHook /\ UNCHANGED points
  /\ UNCHANGED <<scores, evals, object, cut, saved>>

\* ... then it writes it again at the end of the anomaly, ...
WriteEnd ==
  /\ Within("move")
  /\ WriteAt(job.at, object)
  /\ GoOn("forget")
  /\ UNCHANGED <<scores, evals, notified, object, cut, saved>>

\* Mutant: the object is not deleted.
ForgetNothing ==
  /\ Within("forget")
  /\ NextHook
  /\ UNCHANGED <<scores, evals, notified, points, object, cut, saved>>

\* ... then it deletes the object.
ForgetPoints ==
  /\ Within("forget")
  /\ DeleteObject
  /\ NextHook
  /\ UNCHANGED <<scores, evals, notified, points, cut, saved>>

\* on_anomaly_end raises before its first effect, and nothing catches it: the
\* job has failed.
HookEndFails ==
  /\ Calling("end")
  /\ job.hook \in Failing
  /\ Notify("end")
  /\ job' = None
  /\ UNCHANGED <<scores, evals, points, object, cut, saved>>

\* It raises after the first write of update_annotation or after the second,
\* whose answer may be lost or whose object cannot be deleted.
EndIsCut ==
  /\ Within("move") \/ Within("forget")
  /\ job.hook \in Failing
  /\ cut' = cut \cup {object}
  /\ job' = None
  /\ UNCHANGED <<scores, evals, notified, points, object, saved>>

\* Mutant: the end of an anomaly starts no grace period.
HooksCalledNoGrace ==
  /\ job # None /\ job.call # "none" /\ job.hook > NbHooks
  /\ job' = [job EXCEPT !.at = @ + 1, !.call = "none",
                        !.anomaly = IF job.call = "end" THEN None ELSE @]
  /\ UNCHANGED <<scores, evals, notified, points, object, cut, saved>>

\* All hooks were called; the next bucket of time is looked at.
HooksCalled ==
  /\ job # None /\ job.call # "none" /\ job.hook > NbHooks
  /\ job' = [job EXCEPT !.at = @ + 1, !.call = "none",
                        !.anomaly = IF job.call = "end" THEN None ELSE @,
                        !.last = IF job.call = "end" THEN job.at ELSE @]
  /\ UNCHANGED <<scores, evals, notified, points, object, cut, saved>>

-----------------------------------------------------------------------------
(* The end of the evaluation                                                *)

\* _save_timeseries_prediction: the bucket of the output, None the default.
OutputBucket(b) == IF b = None THEN DefaultBucket ELSE b

\* A bucket that is not in the configuration is an error in the log: the
\* output is lost and the job succeeds.
SaveOutput ==
  /\ job # None /\ job.call = "none" /\ job.at > job.to
  /\ saved' = IF OutputBucket(job.output) \in Buckets
              THEN saved \cup ({OutputBucket(job.output)} \X (job.from..job.to))
              ELSE saved
  /\ job' = None
  /\ UNCHANGED <<scores, evals, notified, points, object, cut>>

\* The annotation of which a call is between two effects.
Halfway == IF job.step = "set" THEN {NewNote} ELSE
           IF job.step = "call" THEN {} ELSE {object}

\* The worker is killed, between two effects or two calls, or its job fails on
\* the way.
Killed ==
  /\ job # None
  /\ job' = None
  /\ cut' = cut \cup Halfway
  /\ UNCHANGED <<scores, evals, notified, points, object, saved>>

-----------------------------------------------------------------------------
Detection == AnomalyStarts \/ AnomalyEnds \/ NextBucket
HookCalls ==
  \/ HookStart \/ KeepPoints \/ HookStartFails \/ KeepFails
  \/ HookEnd \/ WriteEnd \/ ForgetPoints \/ HookEndFails \/ EndIsCut
  \/ HooksCalled

Step == (\E s \in Scores : NewBucket(s)) \/ Detection \/ HookCalls \/ SaveOutput

Next ==
  \/ Step
  \/ \E range \in Ranges, output \in Outputs :
       UserEval(range, output) \/ ScheduledEval(range, output)
  \/ Killed

Spec == Init /\ [][Next]_vars

\* The evaluations of a started model: one range after the other. No worker is
\* killed.
IsNext(range) == Cardinality({r \in Ranges : r[1] < range[1]}) = evals

ScheduledSpec ==
  Init /\ [][Step \/ \E range \in Ranges, output \in Outputs :
                IsNext(range) /\ ScheduledEval(range, output)]_vars

-----------------------------------------------------------------------------
(* Properties                                                               *)

\* What hook h was told during evaluation e.
Told(h, e) == SelectSeq(notified[h], LAMBDA event : event.eval = e)

\* In one evaluation a hook hears of one anomaly after the other: starts and
\* ends alternate, later and later, and an anomaly starts only when the grace
\* period of the one before is over. Failing hooks and kills do not change it.
OneAnomalyAtATime ==
  \A h \in Hooks : \A i \in DOMAIN notified[h] :
    LET event == notified[h][i]
        before == notified[h][i - 1]
    IN  IF i = 1 \/ before.eval # event.eval
        THEN event.kind = "start"
        ELSE /\ event.kind # before.kind
             /\ event.at > before.at
             /\ event.kind = "start" => event.at - before.at >= Grace

\* Time t of evaluation e is in an anomaly hook h was told of: the start is the
\* last that it heard of e until t.
InAnomaly(h, e, t) ==
  \E i \in DOMAIN notified[h] :
    LET event == notified[h][i]
        next == notified[h][i + 1]
    IN  /\ event.eval = e /\ event.kind = "start" /\ event.at <= t
        /\ i < Len(notified[h]) /\ next.eval = e => t < next.at

\* ... or in the grace period after an anomaly.
CoolingDown(h, e, t) ==
  \E i \in DOMAIN notified[h] :
    LET event == notified[h][i]
    IN  /\ event.eval = e /\ event.kind = "end"
        /\ event.at <= t /\ t - event.at < Grace

\* Where the automaton stands between two buckets, each hook was told of what
\* the scores say: a high score is in an anomaly or in a grace period, a low
\* one ends the anomaly, and one in between neither starts nor ends any.
AnomaliesFollowScores ==
  job # None /\ job.call = "none" =>
    \A h \in Hooks, t \in job.from..(job.at - 1) :
      /\ scores[t] = "high" => InAnomaly(h, evals, t) \/ CoolingDown(h, evals, t)
      /\ scores[t] = "low" => ~InAnomaly(h, evals, t)
      /\ scores[t] = "mid" /\ t > job.from =>
           (InAnomaly(h, evals, t) <=> InAnomaly(h, evals, t - 1))

\* Where annotation n is shown.
Shown(n) == {t \in Times : points[<<n[1], t>>] = n}

\* The object was taken by a later hook for its annotation of the same anomaly.
Replaced(n) ==
  \E g \in Annotators : g > n[1] /\ <<g, n[2], n[3]>> \notin cut

\* Where the automaton stands between two buckets, the annotation of a start
\* that a hook was told of is shown once: at the start while its anomaly is in
\* progress, and at the end that the hook was told of when it is over. Calls
\* that raise or are killed half way, in this evaluation or in others, spoil
\* no annotation but their own, and of those of several hooks for one anomaly
\* the last is kept.
AnnotationsClosed ==
  job # None /\ job.call = "none" =>
    \A h \in Annotators : \A i \in DOMAIN notified[h] :
      LET start == notified[h][i]
          note == <<h, evals, start.at>>
      IN  /\ start.eval = evals /\ start.kind = "start"
          /\ note \notin cut /\ ~Replaced(note)
          => Shown(note) = {IF i = Len(notified[h]) THEN start.at ELSE notified[h][i + 1].at}

\* An annotation that is shown at an end is shown nowhere else later, unless
\* the call that wrote its end was cut off before it forgot the annotation.
AnnotationsFinal ==
  [][\A n \in Notes : \A t \in Shown(n) :
       t # n[3] /\ n \notin cut' => Shown(n)' \subseteq Shown(n)]_vars

-----------------------------------------------------------------------------
(* What the documentation says of periodic evaluations                      *)

\* docs/reference/api/hooks.asciidoc: the hooks are called when anomalies are
\* starting or ending. No hook hears twice that an anomaly starts.
HooksAlternate ==
  \A h \in Hooks : \A i \in 2..Len(notified[h]) :
    notified[h][i].kind # notified[h][i - 1].kind

\* The same place: an anomaly that ends does so for every hook.
HooksAgree ==
  \A h, k \in Hooks, e \in 1..evals :
    (job = None \/ e < evals) => Len(Told(h, e)) = Len(Told(k, e))

\* docs/reference/release-notes/1.4.2.asciidoc: new anomalies are ignored
\* during the grace period after an anomaly, in this evaluation or the next.
GraceRespected ==
  \A h \in Hooks : \A i, j \in DOMAIN notified[h] :
    /\ notified[h][i].kind = "end" /\ notified[h][j].kind = "start" /\ i < j
    /\ notified[h][j].at >= notified[h][i].at
    => notified[h][j].at - notified[h][i].at >= Grace

\* docs/reference/api/models.asciidoc: save_output_data writes output points to
\* the default bucket or to output_bucket. Whatever was evaluated is somewhere.
OutputSaved ==
  [][SaveOutput => \A t \in job.from..job.to : \E b \in Buckets : <<b, t>> \in saved']_vars
=============================================================================
