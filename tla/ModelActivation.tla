--------------------------- MODULE ModelActivation ---------------------------
(***************************************************************************)
(* Periodic inference in loudml/server.py. A started model has its options *)
(* in the key 'run' of its settings on disk, an entry '_eval(model)' in    *)
(* g_scheduled_jobs, and a timer of the schedule library that posts that   *)
(* entry to the server. The three are kept together by _start, _stop,      *)
(* PATCH, DELETE and the restart of the server, while a worker process     *)
(* that trains the model holds a copy of the settings, which it writes     *)
(* back when it ends (Worker.train, FileStorage.save_model).               *)
(* Request handlers run one at a time; each action is one access to the    *)
(* files of a model or a group of accesses no worker can tell apart.       *)
(***************************************************************************)
EXTENDS Naturals

CONSTANTS
  Models,       (* model names                                                *)
  UserJobs,     (* names of scheduled jobs that users define                  *)
  Patchable,    (* the models whose settings users change                     *)
  Configured,   (* the scheduled jobs of the configuration file               *)
  Options,      (* the options of _start                                      *)
  Intervals,    (* values of the setting 'interval'                           *)
  MaxState,     (* bound: trainings saved                                     *)
  MaxTimers,    (* bound: timers of one user job                              *)
  MaxRestarts,  (* bound: restarts of the server                              *)
  None

ASSUME NamesAssumption == Models \cap UserJobs = {} /\ Configured \subseteq UserJobs
ASSUME ActivationBounds ==
  MaxState \in Nat /\ MaxTimers \in Nat \ {0} /\ MaxRestarts \in Nat

Entries == Models \cup UserJobs

VARIABLES
  stored,       (* the files of a model: settings and current state, or None  *)
  entry,        (* g_scheduled_jobs                                           *)
  timers,       (* the timers of the schedule library, counted by tag         *)
  http,         (* the request handler in progress and what it has read       *)
  training,     (* the worker that trains the model, with what it has read    *)
  told,         (* history: what the last request about the model answered    *)
  states,       (* trainings saved                                            *)
  restarts      (* restarts of the server                                     *)

vars == <<stored, entry, timers, http, training, told, states, restarts>>

Files == [run : Options \cup {None}, interval : Intervals, state : 0..MaxState]
\* The part of a description that matters: the params of the request and the
\* period. An _eval entry without params has no 'from' and 'to'.
Descs == [params : Options \cup {None}, every : Intervals]
Idle == [at |-> "idle"]
\* What a worker that trains a model holds.
Reads == [read : Files, canceled : BOOLEAN]

ASSUME NoneAssumption ==
  None \notin Options /\ None \notin Files /\ None \notin Descs /\ None \notin Reads
ASSUME IntervalsAssumption == Intervals # {}

TypeOK ==
  /\ stored \in [Models -> Files \cup {None}]
  /\ entry \in [Entries -> Descs \cup {None}]
  /\ timers \in [Entries -> 0..MaxTimers]
  /\ http \in {Idle} \cup [at : {"start", "stop"}, model : Models,
                           options : Options \cup {None}, read : Files]
  /\ training \in [Models -> {None} \cup Reads]
  /\ told \in [Models -> {"nothing", "started", "stopped", "deleted"}]
  /\ states \in 0..MaxState
  /\ restarts \in 0..MaxRestarts

\* setup_scheduled_jobs: the entries of the configuration file.
ConfiguredEntry(e) ==
  IF e \in Configured THEN [params |-> None, every |-> CHOOSE i \in Intervals : TRUE]
  ELSE None

Init ==
  /\ stored = [m \in Models |-> None]
  /\ entry = [e \in Entries |-> ConfiguredEntry(e)]
  /\ timers = [e \in Entries |-> IF e \in Configured THEN 1 ELSE 0]
  /\ http = Idle
  /\ training = [m \in Models |-> None]
  /\ told = [m \in Models |-> "nothing"]
  /\ states = 0
  /\ restarts = 0

-----------------------------------------------------------------------------
(* Helpers of the server                                                    *)

\* Mutant: del_scheduled_job forgets the timers.
DelEntryOnly(e) ==
  /\ entry' = [entry EXCEPT ![e] = None]
  /\ UNCHANGED timers

\* del_scheduled_job, when the entry exists: every timer with its tag goes.
DelScheduledJob(e) ==
  /\ entry' = [entry EXCEPT ![e] = None]
  /\ timers' = [timers EXCEPT ![e] = IF entry[e] = None THEN @ ELSE 0]

\* add_new_scheduled_job replaces the entry and adds a timer.
AddScheduledJob(e, desc) ==
  /\ timers[e] < MaxTimers
  /\ entry' = [entry EXCEPT ![e] = desc]
  /\ timers' = [timers EXCEPT ![e] = @ + 1]

\* Mutant: _start always schedules.
ModelStartAgain(m, files, options) ==
  AddScheduledJob(m, [params |-> options, every |-> files.interval])

\* _model_start, idempotent: a scheduled model keeps its entry.
ModelStart(m, files, options) ==
  IF entry[m] # None
  THEN UNCHANGED <<entry, timers>>
  ELSE AddScheduledJob(m, [params |-> options, every |-> files.interval])

-----------------------------------------------------------------------------
(* Requests about models                                                    *)

\* ModelsResource.post, create_model.
Create(m, i) ==
  /\ http = Idle
  /\ stored[m] = None
  /\ stored' = [stored EXCEPT ![m] = [run |-> None, interval |-> i, state |-> 0]]
  /\ told' = [told EXCEPT ![m] = "nothing"]
  /\ UNCHANGED <<entry, timers, http, training, states, restarts>>

\* Mutant: the timer of a model keeps the interval it had.
PatchSettings(m, i) ==
  /\ http = Idle
  /\ m \in Patchable
  /\ stored' = [stored EXCEPT ![m] =
       [run |-> None, interval |-> i, state |-> IF @ = None THEN 0 ELSE @.state]]
  /\ told' = [told EXCEPT ![m] = IF @ = "deleted" THEN "nothing" ELSE @]
  /\ UNCHANGED <<entry, timers, http, training, states, restarts>>

\* ModelResource.patch: the settings become those of the request, which has no
\* 'run'; the state stays. A changed interval schedules the model again, with
\* no params. A model that does not exist comes into being.
Patch(m, i) ==
  /\ http = Idle
  /\ m \in Patchable
  /\ LET old == stored[m] IN
       /\ stored' = [stored EXCEPT ![m] =
            [run |-> None, interval |-> i, state |-> IF old = None THEN 0 ELSE old.state]]
       /\ IF old # None /\ old.interval # i /\ entry[m] # None
          THEN /\ entry' = [entry EXCEPT ![m] = [params |-> None, every |-> i]]
               /\ timers' = [timers EXCEPT ![m] = 1]
          ELSE UNCHANGED <<entry, timers>>
  /\ told' = [told EXCEPT ![m] = IF @ = "deleted" THEN "nothing" ELSE @]
  /\ UNCHANGED <<http, training, states, restarts>>

\* model_start loads the model; an untrained one is refused.
StartLoad(m, options) ==
  /\ http = Idle
  /\ stored[m] # None
  /\ stored[m].state # 0
  /\ http' = [at |-> "start", model |-> m, options |-> options, read |-> stored[m]]
  /\ told' = [told EXCEPT ![m] = "nothing"]
  /\ UNCHANGED <<stored, entry, timers, training, states, restarts>>

\* Mutant: model_start keeps the options in memory only.
StartNoSave ==
  /\ http.at = "start"
  /\ ModelStart(http.model, http.read, http.options)
  /\ told' = [told EXCEPT ![http.model] = "started"]
  /\ http' = Idle
  /\ UNCHANGED <<stored, training, states, restarts>>

\* model_start saves what it has read, with the options, and schedules.
StartSave ==
  /\ http.at = "start"
  /\ stored' = [stored EXCEPT ![http.model] = [http.read EXCEPT !.run = http.options]]
  /\ ModelStart(http.model, http.read, http.options)
  /\ told' = [told EXCEPT ![http.model] = "started"]
  /\ http' = Idle
  /\ UNCHANGED <<training, states, restarts>>

\* Mutant: model_stop unschedules and returns.
StopNoSave(m) ==
  /\ http = Idle
  /\ entry[m] # None
  /\ DelScheduledJob(m)
  /\ told' = [told EXCEPT ![m] = "stopped"]
  /\ UNCHANGED <<stored, http, training, states, restarts>>

\* model_stop of a scheduled model (404 for another one) unschedules it and
\* loads it. The load fails without the model, set_run_state without a state,
\* and then the request fails although the model is unscheduled.
StopLoad(m) ==
  /\ http = Idle
  /\ entry[m] # None
  /\ DelScheduledJob(m)
  /\ IF stored[m] # None /\ stored[m].state # 0
     THEN http' = [at |-> "stop", model |-> m, options |-> None, read |-> stored[m]]
     ELSE http' = Idle
  /\ told' = [told EXCEPT ![m] = IF @ = "deleted" THEN @ ELSE "nothing"]
  /\ UNCHANGED <<stored, training, states, restarts>>

\* model_stop saves what it has read, without 'run'.
StopSave ==
  /\ http.at = "stop"
  /\ stored' = [stored EXCEPT ![http.model] = [http.read EXCEPT !.run = None]]
  /\ told' = [told EXCEPT ![http.model] = "stopped"]
  /\ http' = Idle
  /\ UNCHANGED <<entry, timers, training, states, restarts>>

\* Mutant: the schedule of a deleted model stays.
DeleteFiles(m) ==
  /\ http = Idle
  /\ stored[m] # None
  /\ stored' = [stored EXCEPT ![m] = None]
  /\ told' = [told EXCEPT ![m] = "deleted"]
  /\ UNCHANGED <<entry, timers, http, training, states, restarts>>

\* ModelResource.delete: unschedule, cancel the training, remove the files. The
\* training is canceled before delete_model finds that the model is unknown.
Delete(m) ==
  /\ http = Idle
  /\ DelScheduledJob(m)
  /\ training' = [training EXCEPT ![m] =
                    IF @ = None THEN @ ELSE [@ EXCEPT !.canceled = TRUE]]
  /\ stored' = [stored EXCEPT ![m] = None]
  /\ told' = [told EXCEPT ![m] = IF stored[m] = None THEN @ ELSE "deleted"]
  /\ UNCHANGED <<http, states, restarts>>

-----------------------------------------------------------------------------
(* Requests about scheduled jobs                                            *)

\* ScheduledJobsResource.post.
PostScheduledJob(e, i) ==
  /\ http = Idle
  /\ e \in UserJobs
  /\ AddScheduledJob(e, [params |-> None, every |-> i])
  /\ UNCHANGED <<stored, http, training, told, states, restarts>>

\* ScheduledJobResource.delete and ScheduledJobsResource.delete. The user who
\* deletes the entry of a model no longer expects it to run, or not to run.
DeleteScheduledJobs(es) ==
  /\ http = Idle
  /\ entry' = [e \in Entries |-> IF e \in es THEN None ELSE entry[e]]
  /\ timers' = [e \in Entries |-> IF e \in es THEN 0 ELSE timers[e]]
  /\ told' = [m \in Models |-> IF m \in es /\ told[m] # "deleted" THEN "nothing" ELSE told[m]]
  /\ UNCHANGED <<stored, http, training, states, restarts>>

-----------------------------------------------------------------------------
(* The workers                                                              *)

\* Worker.train loads the model.
TrainLoad(m) ==
  /\ training[m] = None
  /\ stored[m] # None
  /\ states < MaxState
  /\ training' = [training EXCEPT ![m] = [read |-> stored[m], canceled |-> FALSE]]
  /\ UNCHANGED <<stored, entry, timers, http, told, states, restarts>>

\* Worker.train saves the model it has read with its new state: the settings
\* are written back too, and a directory that is gone is made again. A worker
\* whose job was canceled may still come to this before it is killed.
TrainSave(m) ==
  /\ training[m] # None
  /\ states < MaxState
  /\ states' = states + 1
  /\ stored' = [stored EXCEPT ![m] = [training[m].read EXCEPT !.state = states']]
  /\ training' = [training EXCEPT ![m] = None]
  /\ UNCHANGED <<entry, timers, http, told, restarts>>

\* The training fails, or the pool kills the worker of a canceled job.
TrainEnd(m) ==
  /\ training[m] # None
  /\ training' = [training EXCEPT ![m] = None]
  /\ UNCHANGED <<stored, entry, timers, http, told, states, restarts>>

-----------------------------------------------------------------------------
(* Restart                                                                  *)

\* The settings that a handler is about to write for its model.
ToSave(h) == [h.read EXCEPT !.run = h.options]

\* What a crash may leave of the files of m: all that was stored, or the
\* settings of a save_model that got no further than settings.json, or to the
\* moment when state.json is unlinked: then there is no current state.
AfterCrash(m) ==
  LET settings == (IF http # Idle /\ http.model = m THEN {ToSave(http)} ELSE {})
                    \cup (IF training[m] # None THEN {training[m].read} ELSE {})
  IN {stored[m]} \cup
     {[f EXCEPT !.state = s] :
        f \in settings, s \in {0, IF stored[m] = None THEN 0 ELSE stored[m].state}}

\* The server stops, at any moment, and starts again: setup_scheduled_jobs adds
\* the configured entries, restart_predict_jobs starts every model with a
\* 'run' in its settings, and only then requests are served.
Restart(disk) ==
  /\ restarts < MaxRestarts
  /\ restarts' = restarts + 1
  /\ stored' = disk
  /\ entry' = [e \in Entries |->
       IF e \in UserJobs THEN ConfiguredEntry(e)
       ELSE IF disk[e] # None /\ disk[e].run # None
            THEN [params |-> disk[e].run, every |-> disk[e].interval]
            ELSE None]
  /\ timers' = [e \in Entries |-> IF entry'[e] = None THEN 0 ELSE 1]
  /\ http' = Idle
  /\ training' = [m \in Models |-> None]
  /\ UNCHANGED <<told, states>>

CrashAndRestart ==
  \E disk \in [Models -> UNION {AfterCrash(m) : m \in Models}] :
    /\ \A m \in Models : disk[m] \in AfterCrash(m)
    /\ Restart(disk)

-----------------------------------------------------------------------------
Request(m) ==
  \/ \E i \in Intervals : Create(m, i) \/ Patch(m, i)
  \/ \E options \in Options : StartLoad(m, options)
  \/ StopLoad(m)
  \/ Delete(m)

Handler == StartSave \/ StopSave

ScheduleRequest ==
  \/ \E e \in UserJobs, i \in Intervals : PostScheduledJob(e, i)
  \/ \E es \in {Entries} \cup {{e} : e \in Entries} : DeleteScheduledJobs(es)

Next ==
  \/ \E m \in Models : Request(m) \/ TrainLoad(m) \/ TrainSave(m) \/ TrainEnd(m)
  \/ Handler
  \/ ScheduleRequest
  \/ CrashAndRestart

Spec == Init /\ [][Next]_vars

\* Users who send no request about a model while it is being trained.
QuietNext ==
  \/ \E m \in Models : training[m] = None /\ Request(m)
  \/ \E m \in Models : http = Idle /\ TrainLoad(m)
  \/ \E m \in Models : TrainSave(m) \/ TrainEnd(m)
  \/ Handler
  \/ ScheduleRequest
  \/ CrashAndRestart

QuietSpec == Init /\ [][QuietNext]_vars

-----------------------------------------------------------------------------
(* Properties                                                               *)

\* A model never has two timers, which would evaluate every interval twice,
\* nor a timer without an entry, whatever the order of _start, PATCH, _stop,
\* DELETE, trainings and restarts.
OneTimerPerModel ==
  \A m \in Models : timers[m] = IF entry[m] = None THEN 0 ELSE 1

\* docs/reference/api/models.asciidoc: scheduled inference can be stopped using
\* _stop. It does not come back by itself, not even when the server restarts.
StoppedStaysStopped ==
  \A m \in Models : told[m] = "stopped" => entry[m] = None

\* docs/reference/api/models.asciidoc: a started model is evaluated
\* periodically. Unless its settings are patched it stays scheduled, through
\* trainings and restarts, with its params.
StartedStaysScheduled ==
  \A m \in Models \ Patchable :
    told[m] = "started" => entry[m] # None /\ entry[m].params # None

\* The weaker half of it: whatever its params, a model that was started, and
\* not stopped since, is scheduled. PATCH removes 'run' from its settings.
StartedIsScheduled ==
  \A m \in Models : told[m] = "started" => entry[m] # None

\* A deleted model is not evaluated, not even after a restart.
DeletedIsUnscheduled ==
  \A m \in Models : told[m] = "deleted" => entry[m] = None

\* docs/reference/api/models.asciidoc: inference runs every interval, the one
\* of the settings on disk, even when PATCH has changed it.
ScheduledAtInterval ==
  \A m \in Models :
    entry[m] # None /\ stored[m] # None => entry[m].every = stored[m].interval

\* docs/reference/cli/delete-model.asciidoc: delete-model deletes the settings
\* and all saved data of the model.
DeletedStaysDeleted ==
  \A m \in Models : told[m] = "deleted" => stored[m] = None

\* docs/reference/api/models.asciidoc: the periodic jobs of a model are
\* inference jobs: model_eval requires the parameters 'from' and 'to'.
EvalHasParams ==
  \A m \in Models : entry[m] # None => entry[m].params # None

\* docs/reference/api/scheduled_jobs.asciidoc: a job runs once every count
\* units, and not once for every time its name was posted.
OneTimerPerJob == \A e \in UserJobs : timers[e] <= 1
=============================================================================
