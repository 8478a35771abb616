------------------------------ MODULE JobServer ------------------------------
(***************************************************************************)
(* The asynchronous jobs of the Loud ML server (loudml/server.py) and the  *)
(* worker processes that run them (loudml/worker.py).                      *)
(*                                                                         *)
(* Four kinds of actors touch a Job object:                                *)
(*   - the HTTP thread: gevent's WSGIServer without monkey patching, so a  *)
(*     request handler runs to its end before the next one starts;         *)
(*   - the timer thread of RepeatingTimer, which reads the messages of     *)
(*     the workers (read_messages) and forgets old jobs                    *)
(*     (daemon_clear_jobs);                                                *)
(*   - the pool's threads, which complete futures and run Job._done_cb;    *)
(*   - the worker processes, which only put messages in g_queue.           *)
(* No lock protects job.state: every action below is one access to it, or  *)
(* a group of accesses no other thread can tell apart.                     *)
(***************************************************************************)
EXTENDS Naturals, Sequences, FiniteSets

CONSTANTS
  Training,     (* jobs of class TrainingJob, run by g_training_pool          *)
  Background,   (* jobs of the other classes, run by g_pool                   *)
  Models,       (* model names                                                *)
  Target,       (* the model each training job trains                         *)
  Workers,      (* max_workers of each of the two pools                       *)
  MaxEval,      (* bound: progress messages a training job sends              *)
  NoJob         (* the absent entry of g_training                             *)

ASSUME JobsAssumption ==
  /\ Training \cap Background = {}
  /\ NoJob \notin Training \cup Background
  /\ Target \in [Training -> Models]
ASSUME BoundsAssumption == Workers \in Nat \ {0} /\ MaxEval \in Nat

VARIABLES
  state,        (* Job.state                                                  *)
  answered,     (* Job._result or Job.error, and Job.done_dt, are set         *)
  eval,         (* Job.progress['eval']                                       *)
  registered,   (* is the job in g_jobs: not yet, yes, or deleted from it     *)
  training,     (* g_training                                                 *)
  future,       (* the state of the pool's future of the job                  *)
  callback,     (* how far Job._done_cb has run                               *)
  worker,       (* is a worker process running the job                        *)
  sent,         (* the evaluations the worker has reported                    *)
  queue,        (* g_queue: messages of the workers, oldest first             *)
  http,         (* the request handler in progress                            *)
  timer         (* the message the timer thread is applying                   *)

jobVars == <<state, answered, eval, registered, training>>
poolVars == <<future, callback, worker, sent>>
vars == <<state, answered, eval, registered, training,
          future, callback, worker, sent, queue, http, timer>>

Jobs == Training \cup Background

Stopped == {"done", "failed", "canceled"}
States == {"idle", "waiting", "running", "canceling"} \cup Stopped
Futures == {"none", "pending", "finished", "error", "cancelled"}
Callbacks == {"none", "armed", "ready", "answered", "over"}
Messages == [job : Jobs, eval : 0..MaxEval]
HttpSteps == {"attach", "runAttached", "record", "result",
              "mark", "cancel", "runCanceled"}
Idle == [at |-> "idle", job |-> NoJob]
At(step, j) == [at |-> step, job |-> j]

TypeOK ==
  /\ state \in [Jobs -> States]
  /\ answered \in [Jobs -> BOOLEAN]
  /\ eval \in [Jobs -> 0..MaxEval]
  /\ registered \in [Jobs -> {"no", "yes", "expired"}]
  /\ training \in [Models -> Training \cup {NoJob}]
  /\ future \in [Jobs -> Futures]
  /\ callback \in [Jobs -> Callbacks]
  /\ worker \in [Jobs -> {"none", "running", "over"}]
  /\ sent \in [Jobs -> 0..MaxEval]
  /\ queue \in Seq(Messages)
  /\ http \in [at : HttpSteps, job : Jobs] \cup {Idle}
  /\ timer \in Messages \cup {NoJob}

Init ==
  /\ state = [j \in Jobs |-> "idle"]
  /\ answered = [j \in Jobs |-> FALSE]
  /\ eval = [j \in Jobs |-> 0]
  /\ registered = [j \in Jobs |-> "no"]
  /\ training = [m \in Models |-> NoJob]
  /\ future = [j \in Jobs |-> "none"]
  /\ callback = [j \in Jobs |-> "none"]
  /\ worker = [j \in Jobs |-> "none"]
  /\ sent = [j \in Jobs |-> 0]
  /\ queue = <<>>
  /\ http = Idle
  /\ timer = NoJob

IsStopped(j) == state[j] \in Stopped
Completed(j) == future[j] \in {"finished", "error", "cancelled"}

\* Mutant: only a future that raises CancelledError is told from a result.
VerdictForgetsErrors(f) == IF f = "cancelled" THEN "canceled" ELSE "done"

\* The state Job._done_cb gives a job whose future ended in the way f.
Verdict(f) == CASE f = "finished" -> "done"
                [] f = "error" -> "failed"
                [] OTHER -> "canceled"

-----------------------------------------------------------------------------
(* The HTTP thread: starting a job                                          *)

\* Job.start and TrainingJob.start up to the call of the pool's schedule. A
\* training job enters g_jobs before it, the others only at the end of start.
StartJob(j) ==
  /\ http = Idle
  /\ future[j] = "none"
  /\ state' = [state EXCEPT ![j] = "waiting"]
  /\ future' = [future EXCEPT ![j] = "pending"]
  /\ registered' = [registered EXCEPT ![j] =
                      IF j \in Training THEN "yes" ELSE @]
  /\ http' = At("attach", j)
  /\ UNCHANGED <<answered, eval, training, callback, worker, sent, queue, timer>>

\* Mutant: a future that completed before this call never runs its callback.
AttachCallbackLate ==
  /\ http.at = "attach"
  /\ callback' = [callback EXCEPT ![http.job] = "armed"]
  /\ http' = At("record", http.job)
  /\ UNCHANGED <<jobVars, future, worker, sent, queue, timer>>

\* future.add_done_callback: a future that is already complete runs the
\* callback at once, in the HTTP thread.
AttachCallback ==
  /\ http.at = "attach"
  /\ LET j == http.job IN
       IF Completed(j)
       THEN /\ callback' = [callback EXCEPT ![j] = "ready"]
            /\ http' = At("runAttached", j)
       ELSE /\ callback' = [callback EXCEPT ![j] = "armed"]
            /\ http' = At("record", j)
  /\ UNCHANGED <<jobVars, future, worker, sent, queue, timer>>

\* The callback that add_done_callback ran has returned.
AttachedCallbackOver ==
  /\ http.at = "runAttached"
  /\ callback[http.job] = "over"
  /\ http' = At("record", http.job)
  /\ UNCHANGED <<jobVars, poolVars, queue, timer>>

\* model_train: g_training[model_name] = job.
RecordTraining ==
  /\ http.at = "record"
  /\ http.job \in Training
  /\ training' = [training EXCEPT ![Target[http.job]] = http.job]
  /\ http' = Idle
  /\ UNCHANGED <<state, answered, eval, registered, poolVars, queue, timer>>

\* The end of Job.start, g_jobs[self.id] = self; then the handler answers 202
\* (writes, reads, bg=true) or waits for the result in this thread.
RecordBackground ==
  /\ http.at = "record"
  /\ http.job \in Background
  /\ registered' = [registered EXCEPT ![http.job] = "yes"]
  /\ http' \in {Idle, At("result", http.job)}
  /\ UNCHANGED <<state, answered, eval, training, poolVars, queue, timer>>

\* Mutant: the handler waits for a result, and an error is not one.
ReturnResultOnly ==
  /\ http.at = "result"
  /\ future[http.job] = "finished"
  /\ http' = Idle
  /\ UNCHANGED <<jobVars, poolVars, queue, timer>>

\* job.result() returns, or raises, when the future is complete.
ReturnResult ==
  /\ http.at = "result"
  /\ Completed(http.job)
  /\ http' = Idle
  /\ UNCHANGED <<jobVars, poolVars, queue, timer>>

-----------------------------------------------------------------------------
(* The HTTP thread: canceling a job                                         *)

\* Mutant: a second HTTP thread cancels while a request waits for a result.
CancelJobConcurrently(j) ==
  /\ http.at \in {"idle", "result"}
  /\ registered[j] = "yes"
  /\ ~IsStopped(j)
  /\ future[j] = "pending"
  /\ state' = [state EXCEPT ![j] = "canceling"]
  /\ future' = [future EXCEPT ![j] = "cancelled"]
  /\ callback' = [callback EXCEPT ![j] = "ready"]
  /\ UNCHANGED <<answered, eval, registered, training, worker, sent, queue, http, timer>>

\* Job.cancel, called for a job of g_jobs (job_stop) or for the last training
\* job of a model (ModelResource.delete), finds it not stopped. A stopped job
\* raises Conflict, an unknown one is answered 404, and nothing changes.
CancelJob(j) ==
  /\ http = Idle
  /\ registered[j] = "yes" \/ \E m \in Models : training[m] = j
  /\ ~IsStopped(j)
  /\ http' = At("mark", j)
  /\ UNCHANGED <<jobVars, poolVars, queue, timer>>

\* self.state = 'canceling'
MarkCanceling ==
  /\ http.at = "mark"
  /\ state' = [state EXCEPT ![http.job] = "canceling"]
  /\ http' = At("cancel", http.job)
  /\ UNCHANGED <<answered, eval, registered, training, poolVars, queue, timer>>

\* Mutant: a complete future is cancelled as well.
CancelAnyFuture ==
  /\ http.at = "cancel"
  /\ future' = [future EXCEPT ![http.job] = "cancelled"]
  /\ callback' = [callback EXCEPT ![http.job] = "ready"]
  /\ http' = At("runCanceled", http.job)
  /\ UNCHANGED <<jobVars, worker, sent, queue, timer>>

\* Mutant: canceling does not run the callback.
CancelFutureSilently ==
  /\ http.at = "cancel"
  /\ future' = [future EXCEPT ![http.job] = IF @ = "pending" THEN "cancelled" ELSE @]
  /\ http' = Idle
  /\ UNCHANGED <<jobVars, callback, worker, sent, queue, timer>>

\* self._future.cancel(): a pending future is cancelled and its callback runs
\* in the HTTP thread; a complete one is left alone.
CancelFuture ==
  /\ http.at = "cancel"
  /\ LET j == http.job IN
       IF future[j] = "pending"
       THEN /\ future' = [future EXCEPT ![j] = "cancelled"]
            /\ callback' = [callback EXCEPT ![j] = "ready"]
            /\ http' = At("runCanceled", j)
       ELSE /\ http' = Idle
            /\ UNCHANGED <<future, callback>>
  /\ UNCHANGED <<jobVars, worker, sent, queue, timer>>

CanceledCallbackOver ==
  /\ http.at = "runCanceled"
  /\ callback[http.job] = "over"
  /\ http' = Idle
  /\ UNCHANGED <<jobVars, poolVars, queue, timer>>

-----------------------------------------------------------------------------
(* The pools and their worker processes                                     *)

PoolOf(j) == IF j \in Training THEN Training ELSE Background

\* A free worker process takes the job and Worker.run puts its first message.
RunJob(j) ==
  /\ future[j] = "pending"
  /\ worker[j] = "none"
  /\ Cardinality({k \in PoolOf(j) : worker[k] = "running"}) < Workers
  /\ worker' = [worker EXCEPT ![j] = "running"]
  /\ queue' = Append(queue, [job |-> j, eval |-> 0])
  /\ UNCHANGED <<jobVars, future, callback, sent, http, timer>>

\* progress_cb of Worker.train. A worker whose future was cancelled goes on
\* until the pool kills it.
ReportProgress(j) ==
  /\ j \in Training
  /\ worker[j] = "running"
  /\ sent[j] < MaxEval
  /\ sent' = [sent EXCEPT ![j] = @ + 1]
  /\ queue' = Append(queue, [job |-> j, eval |-> sent'[j]])
  /\ UNCHANGED <<jobVars, future, callback, worker, http, timer>>

\* The worker returns, raises or dies, and the pool completes the future; the
\* callback, when it is attached, becomes ready to run in the pool's thread.
FinishJob(j, f) ==
  /\ worker[j] = "running"
  /\ future[j] = "pending"
  /\ worker' = [worker EXCEPT ![j] = "over"]
  /\ future' = [future EXCEPT ![j] = f]
  /\ callback' = [callback EXCEPT ![j] = IF @ = "armed" THEN "ready" ELSE @]
  /\ UNCHANGED <<jobVars, sent, queue, http, timer>>

\* The pool kills the worker process of a cancelled future.
KillWorker(j) ==
  /\ worker[j] = "running"
  /\ future[j] = "cancelled"
  /\ worker' = [worker EXCEPT ![j] = "over"]
  /\ UNCHANGED <<jobVars, future, callback, sent, queue, http, timer>>

\* Job._done_cb stores the result or the error, and set_final_state done_dt.
AnswerCallback(j) ==
  /\ callback[j] = "ready"
  /\ answered' = [answered EXCEPT ![j] = TRUE]
  /\ callback' = [callback EXCEPT ![j] = "answered"]
  /\ UNCHANGED <<state, eval, registered, training, future, worker, sent, queue,
                 http, timer>>

\* Mutant: set_final_state assigns the state before done_dt.
StateCallbackFirst(j) ==
  /\ callback[j] = "ready"
  /\ state' = [state EXCEPT ![j] = Verdict(future[j])]
  /\ callback' = [callback EXCEPT ![j] = "over"]
  /\ UNCHANGED <<answered, eval, registered, training, future, worker, sent, queue,
                 http, timer>>

\* The last assignment of set_final_state: self.state = state.
StateCallback(j) ==
  /\ callback[j] = "answered"
  /\ state' = [state EXCEPT ![j] = Verdict(future[j])]
  /\ callback' = [callback EXCEPT ![j] = "over"]
  /\ UNCHANGED <<answered, eval, registered, training, future, worker, sent, queue,
                 http, timer>>

-----------------------------------------------------------------------------
(* The timer thread                                                         *)

\* Mutant: the youngest message is taken first.
TakeLastMessage ==
  /\ timer = NoJob
  /\ queue # <<>>
  /\ queue' = SubSeq(queue, 1, Len(queue) - 1)
  /\ LET m == queue[Len(queue)] IN
       timer' = IF registered[m.job] = "yes" /\ state[m.job] \notin {"done", "failed"}
                THEN m ELSE NoJob
  /\ UNCHANGED <<jobVars, poolVars, http>>

\* read_messages takes the oldest message; set_job_state drops it when the job
\* is unknown or its state is done or failed, and applies it otherwise.
TakeMessage ==
  /\ timer = NoJob
  /\ queue # <<>>
  /\ queue' = Tail(queue)
  /\ LET m == Head(queue) IN
       timer' = IF registered[m.job] = "yes" /\ state[m.job] \notin {"done", "failed"}
                THEN m ELSE NoJob
  /\ UNCHANGED <<jobVars, poolVars, http>>

\* The assignments of set_job_state. Every message a worker sends says running.
ApplyMessage ==
  /\ timer # NoJob
  /\ state' = [state EXCEPT ![timer.job] = "running"]
  /\ eval' = [eval EXCEPT ![timer.job] = timer.eval]
  /\ timer' = NoJob
  /\ UNCHANGED <<answered, registered, training, poolVars, queue, http>>

\* Mutant: old jobs are forgotten, stopped or not.
ClearOldJobs(expired) ==
  /\ timer = NoJob
  /\ expired # {}
  /\ \A j \in expired : registered[j] = "yes"
  /\ registered' = [j \in Jobs |-> IF j \in expired THEN "expired" ELSE registered[j]]
  /\ UNCHANGED <<state, answered, eval, training, poolVars, queue, http, timer>>

\* daemon_clear_jobs forgets the stopped jobs that are old enough. Which ones
\* is left open: age is measured from done_dt, which must be set.
ClearJobs(expired) ==
  /\ timer = NoJob
  /\ expired # {}
  /\ \A j \in expired : registered[j] = "yes" /\ IsStopped(j) /\ answered[j]
  /\ registered' = [j \in Jobs |-> IF j \in expired THEN "expired" ELSE registered[j]]
  /\ UNCHANGED <<state, answered, eval, training, poolVars, queue, http, timer>>

-----------------------------------------------------------------------------
Request == \/ \E j \in Jobs : StartJob(j) \/ CancelJob(j)
Handler == \/ AttachCallback \/ AttachedCallbackOver
           \/ RecordTraining \/ RecordBackground \/ ReturnResult
           \/ MarkCanceling \/ CancelFuture \/ CanceledCallbackOver
Pool(j) == \/ RunJob(j)
           \/ \E f \in {"finished", "error"} : FinishJob(j, f)
           \/ KillWorker(j)
           \/ AnswerCallback(j) \/ StateCallback(j)
Timer == \/ TakeMessage \/ ApplyMessage
         \/ \E expired \in SUBSET Jobs : ClearJobs(expired)

Next == \/ Request
        \/ Handler
        \/ \E j \in Jobs : Pool(j) \/ ReportProgress(j)
        \/ Timer

Spec == Init /\ [][Next]_vars

\* A request handler runs on; a pool with a free worker takes a waiting job,
\* tasks end (training has a number of evaluations, queries have timeouts) and
\* callbacks run; the timer fires every second. Nothing makes a user send a
\* request, and nothing forces a training job to report progress.
Fairness ==
  /\ WF_vars(Handler)
  /\ \A j \in Jobs : WF_vars(Pool(j))
  /\ WF_vars(TakeMessage \/ ApplyMessage)

FairSpec == Spec /\ Fairness

-----------------------------------------------------------------------------
(* Safety                                                                   *)

\* A user who reads a verdict (GET /jobs) reads the right one: whatever the
\* interleaving of _done_cb, cancel and the messages of the worker, a stopped
\* state says how the future ended, and nothing of _done_cb is left to run.
VerdictMatchesOutcome ==
  \A j \in Jobs :
    /\ state[j] = "done" => future[j] = "finished"
    /\ state[j] = "failed" => future[j] = "error"
    /\ state[j] = "canceled" => future[j] = "cancelled"
    /\ IsStopped(j) => callback[j] = "over"

\* daemon_clear_jobs subtracts done_dt from the current time for every job
\* that is_stopped: a stopped job has its done_dt, and its result or error,
\* although the timer thread may look between any two assignments of _done_cb.
StoppedHasEndDate == \A j \in Jobs : IsStopped(j) => answered[j]

\* The job the request handler is starting and has not registered yet.
Starting(j) == http.job = j /\ http.at \in {"attach", "runAttached", "record"}

\* A job that can still run is in g_jobs, so that a user can list and cancel
\* it: neither the order of the steps of start nor daemon_clear_jobs loses it.
LiveJobIsListed ==
  \A j \in Jobs :
    future[j] = "pending" /\ ~Starting(j) => registered[j] = "yes"

\* A request that waits in job.result() never gets a CancelledError, which no
\* handler expects: the thread that waits is the one that could cancel.
BlockedRequestNotCanceled ==
  http.at = "result" => future[http.job] # "cancelled"

-----------------------------------------------------------------------------
(* Action properties                                                        *)

\* The progress that a user polls never goes back: messages are applied in
\* the order the worker sent them, and none after the first one resets it.
ProgressMonotone == [][\A j \in Jobs : eval'[j] >= eval[j]]_vars

-----------------------------------------------------------------------------
(* Liveness                                                                 *)

\* Every job handed to a pool gets its result or its error, canceled or not,
\* complete before the callback is attached or after it.
EveryJobSettles ==
  \A j \in Jobs : (future[j] = "pending") ~> (callback[j] = "over")

\* The one HTTP thread comes back to serve the next request, although it may
\* wait for a job (job.result()) that waits for a worker itself.
ServerAnswers == (http # Idle) ~> (http = Idle)

-----------------------------------------------------------------------------
(* The abstract specification                                               *)

Phase(j) ==
  IF registered[j] = "expired" THEN "forgotten"
  ELSE IF answered[j] THEN "answered"
  ELSE IF Completed(j) THEN "over"
  ELSE IF future[j] = "pending" THEN "live" ELSE "absent"

Ledger == INSTANCE JobLedger WITH
            phase <- [j \in Jobs |-> Phase(j)],
            outcome <- [j \in Jobs |-> IF Completed(j) THEN future[j] ELSE "none"]

\* The server keeps the promises of JobLedger: a job is answered once, with
\* the one outcome of its future, and forgotten only after that, although its
\* visible state may be overwritten by a late cancel or message.
ImplementsLedger == Ledger!Spec

\* And it keeps them in the end: live jobs settle and are answered.
ImplementsFairLedger == Ledger!FairSpec

-----------------------------------------------------------------------------
(* What the documentation and the comments say of the states                *)

\* docs/reference/api/jobs.asciidoc: running means that the result is not yet
\* ready. set_job_state only ignores late messages for done and failed jobs.
RunningMeansNotReady ==
  \A j \in Jobs : state[j] = "running" => callback[j] # "over"

\* docs/reference/api/jobs.asciidoc: waiting means waiting to be scheduled. A
\* job a worker runs is waiting only until its first message is applied.
WaitingMeansNotScheduled ==
  \A j \in Jobs :
    state[j] = "waiting" /\ worker[j] = "running" /\ http.job # j =>
      \/ \E i \in DOMAIN queue : queue[i].job = j
      \/ timer # NoJob /\ timer.job = j

\* Job.cancel refuses a job that is already stopped.
StoppedIsNotCanceling ==
  [][\A j \in Jobs : IsStopped(j) => state'[j] # "canceling"]_vars
=============================================================================
