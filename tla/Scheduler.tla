------------------------------ MODULE Scheduler ------------------------------
(***************************************************************************)
(* The timer thread of loudml/server.py and what it meets. A RepeatingTimer *)
(* calls read_messages a second after the last call has ended: it runs the  *)
(* due events of the schedule library one after the other, then takes the   *)
(* messages of the workers. A scheduled job is an event that looks its      *)
(* entry of g_scheduled_jobs up and posts the entry's request to the server *)
(* itself, with a limit on the time it waits; send_metrics is an event that *)
(* posts to the telemetry service without one. The HTTP server handles one  *)
(* request at a time, in the order they come, those nobody waits for any    *)
(* more included. The main thread starts the timer, adds the events, serves *)
(* and, on an interrupt, stops.                                             *)
(* Clocks count down in units of the timer's second. Time passes while the  *)
(* thread sleeps or waits for an answer, never while it computes.           *)
(***************************************************************************)
EXTENDS Integers

CONSTANTS
  Names,        (* names of scheduled jobs                                    *)
  Configured,   (* the ones of the configuration and of started models        *)
  Hourly,       (* the event that sends metrics                               *)
  Period,       (* seconds between two runs of an event                       *)
  Limit,        (* seconds the thread waits for an answer of the server       *)
  Telemetry,    (* the longest the telemetry service takes, None: for ever    *)
  MaxTimers,    (* bound: timers of scheduled jobs                            *)
  Listen,       (* bound: connections the kernel keeps for the server         *)
  MayFail,      (* whether the start of the server can fail                   *)
  None

ASSUME NamesDistinct == {Hourly, None} \cap Names = {} /\ Configured \subseteq Names
ASSUME PeriodAssumption == Period \in [Names \cup {Hourly} -> Nat \ {0}]
ASSUME TimeAssumption == Limit \in Nat \ {0} /\ Telemetry \in Nat \cup {None}
ASSUME SchedulerBounds ==
  MaxTimers \in Nat \ {0} /\ Listen \in Nat \ {0} /\ MayFail \in BOOLEAN

Ids == 0..MaxTimers      \* 0 is the timer that sends metrics

VARIABLES
  entry,        (* g_scheduled_jobs                                           *)
  timers,       (* the jobs of the schedule library: name, time to next_run   *)
  pass,         (* the due events that run_pending has still to run           *)
  at,           (* where the timer thread is                                  *)
  call,         (* the event it runs                                          *)
  clock,        (* time until its sleep or its wait is over                   *)
  http,         (* the request the server handles                             *)
  backlog,      (* the requests the server has not taken yet                  *)
  main,         (* where the main thread is                                   *)
  late          (* history: requests sent for a name since it was deleted     *)

vars == <<entry, timers, pass, at, call, clock, http, backlog, main, late>>
threadVars == <<pass, at, call, clock>>
serverVars == <<http, backlog>>

\* A timer; the event the thread runs (own: the description it works on is the
\* one in the table, queued: the server has the connection); a description
\* (history: whether its request was sent, and whether an answer was noted).
TimerRecs == [name : Names \cup {Hourly}, left : Int]
CallRecs == [id : Ids, name : Names \cup {Hourly}, own : BOOLEAN, queued : BOOLEAN]
Descs == [asked : BOOLEAN, told : BOOLEAN]
New == [asked |-> FALSE, told |-> FALSE]

ASSUME NoneAssumption == None \notin TimerRecs \cup CallRecs \cup Descs

TypeOK ==
  /\ entry \in [Names -> Descs \cup {None}]
  /\ timers \in [Ids -> TimerRecs \cup {None}]
  /\ pass \subseteq [id : Ids, name : Names \cup {Hourly}, left : Int]
  /\ at \in {"sleep", "run", "pass", "send", "post", "metrics", "dead"}
  /\ call \in CallRecs \cup {None}
  /\ clock \in Nat
  /\ http \in {"idle", "user", "job"}
  /\ backlog \in 0..Listen
  /\ main \in {"starting", "serving", "stopping", "joining", "ended", "failed"}
  /\ late \in [Names -> Nat]

Init ==
  /\ entry = [e \in Names |-> None]
  /\ timers = [i \in Ids |->
                 IF i = 0 THEN [name |-> Hourly, left |-> Period[Hourly]] ELSE None]
  /\ pass = {} /\ at = "sleep" /\ call = None /\ clock = 1
  /\ http = "idle" /\ backlog = 0
  /\ main = "starting"
  /\ late = [e \in Names |-> 0]

-----------------------------------------------------------------------------
(* g_scheduled_jobs and the timers of the schedule library                  *)

\* A timer the library does not hold and the thread does not run either.
Free(i) ==
  /\ timers[i] = None
  /\ \A j \in pass : j.id # i
  /\ call # None => call.id # i

\* The description the thread works on is no longer the one in the table.
Disown(S) ==
  call' = IF call # None /\ call.name \in S THEN [call EXCEPT !.own = FALSE] ELSE call

\* add_new_scheduled_job: the entry is replaced, a timer is added. The old
\* timers of the name stay.
AddScheduledJob(e) ==
  \E i \in Ids \ {0} :
    /\ Free(i) /\ \A j \in 1..(i - 1) : ~ Free(j)
    /\ entry' = [entry EXCEPT ![e] = New]
    /\ timers' = [timers EXCEPT ![i] = [name |-> e, left |-> Period[e]]]
    /\ late' = [late EXCEPT ![e] = 0]
    /\ Disown({e})

\* schedule.clear and pop, for the names of a request. The events of a pass
\* that is being run are no longer the library's to clear.
DelScheduledJobs(S) ==
  /\ entry' = [e \in Names |-> IF e \in S THEN None ELSE entry[e]]
  /\ timers' = [i \in Ids |->
                  IF timers[i] # None /\ timers[i].name \in S THEN None ELSE timers[i]]
  /\ late' = [e \in Names |-> IF e \in S THEN 0 ELSE late[e]]
  /\ Disown(S)

-----------------------------------------------------------------------------
(* The timer thread                                                         *)

\* Timer: the second is over, RepeatingTimer.callback calls read_messages.
Wake ==
  /\ at = "sleep" /\ clock = 0
  /\ at' = "run"
  /\ UNCHANGED <<entry, timers, pass, call, clock, serverVars, main, late>>

\* schedule.run_pending: the list of the due events is made before the first
\* of them runs.
RunPending ==
  /\ at = "run"
  /\ pass' = {[id |-> i, name |-> timers[i].name, left |-> timers[i].left] :
                i \in {i \in Ids : timers[i] # None /\ timers[i].left <= 0}}
  /\ at' = "pass"
  /\ UNCHANGED <<entry, timers, call, clock, serverVars, main, late>>

\* The run of an event is over, by its end or by an exception that
\* catch_exceptions swallows: the library sets next_run from now on.
Done(i) ==
  /\ timers' = [timers EXCEPT ![i] =
                  IF @ = None THEN None ELSE [@ EXCEPT !.left = Period[timers[i].name]]]
  /\ at' = "pass" /\ call' = None /\ clock' = 0

\* Mutant: an event has its description, it does not look it up.
NextEventAnyway ==
  \E j \in pass :
    /\ at = "pass" /\ j.name # Hourly
    /\ pass' = pass \ {j}
    /\ at' = "send"
    /\ call' = [id |-> j.id, name |-> j.name, own |-> FALSE, queued |-> FALSE]
    /\ UNCHANGED <<entry, timers, clock, serverVars, main, late>>

\* Mutant: an exception of an event leaves read_messages.
NextEventUncaught ==
  \E j \in pass :
    /\ at = "pass" /\ j.name # Hourly
    /\ pass' = pass \ {j}
    /\ at' = IF entry[j.name] = None THEN "dead" ELSE "send"
    /\ call' = IF entry[j.name] = None THEN None
               ELSE [id |-> j.id, name |-> j.name, own |-> TRUE, queued |-> FALSE]
    /\ UNCHANGED <<entry, timers, clock, serverVars, main, late>>

\* The next event of the pass, the one that has been due for the longest time.
\* An entry that is gone is a KeyError, a configuration that is gone (the
\* server has stopped) an AttributeError.
NextEvent ==
  \E j \in pass :
    /\ at = "pass"
    /\ \A k \in pass : j.left <= k.left
    /\ pass' = pass \ {j}
    /\ \/ /\ main = "ended" \/ (j.name # Hourly /\ entry[j.name] = None)
          /\ Done(j.id)
       \/ /\ main # "ended" /\ j.name # Hourly /\ entry[j.name] # None
          /\ at' = "send"
          /\ call' = [id |-> j.id, name |-> j.name, own |-> TRUE, queued |-> FALSE]
          /\ UNCHANGED <<timers, clock>>
       \/ /\ main # "ended" /\ j.name = Hourly
          /\ at' = "metrics"
          /\ call' = [id |-> j.id, name |-> j.name, own |-> TRUE, queued |-> FALSE]
          /\ clock' = IF Telemetry = None THEN 0 ELSE Telemetry
          /\ UNCHANGED timers
    /\ UNCHANGED <<entry, serverVars, main, late>>

\* requests.post of send_metrics returns or raises, when it does.
MetricsEnd ==
  /\ at = "metrics" /\ Telemetry # None
  /\ Done(call.id)
  /\ UNCHANGED <<entry, pass, serverVars, main, late>>

Asked == IF call.own THEN [entry EXCEPT ![call.name].asked = TRUE] ELSE entry
Late == IF entry[call.name] = None THEN [late EXCEPT ![call.name] = @ + 1] ELSE late

\* Mutant: a connection that fails is tried again.
SendTwice ==
  /\ at = "send" /\ main = "serving"
  /\ at' = "post"
  /\ \/ /\ backlog < Listen /\ clock' = Limit
        /\ backlog' = backlog + 1 /\ call' = [call EXCEPT !.queued = TRUE]
     \/ backlog = Listen /\ clock' = 2 * Limit /\ UNCHANGED <<backlog, call>>
  /\ entry' = Asked /\ late' = Late
  /\ UNCHANGED <<timers, pass, http, main>>

\* perform_request connects and sends. A full backlog leaves it connecting.
Send ==
  /\ at = "send" /\ main = "serving"
  /\ at' = "post" /\ clock' = Limit
  /\ \/ /\ backlog < Listen
        /\ backlog' = backlog + 1 /\ call' = [call EXCEPT !.queued = TRUE]
     \/ backlog = Listen /\ UNCHANGED <<backlog, call>>
  /\ entry' = Asked /\ late' = Late
  /\ UNCHANGED <<timers, pass, http, main>>

\* The connection is made in time after all: the limit begins again for the
\* answer.
Connected ==
  /\ at = "post" /\ main = "serving" /\ ~ call.queued /\ backlog < Listen
  /\ clock' = Limit
  /\ backlog' = backlog + 1
  /\ call' = [call EXCEPT !.queued = TRUE]
  /\ UNCHANGED <<entry, timers, pass, at, http, main, late>>

\* Nobody listens, before serve_forever and after it: ConnectionError.
Refused ==
  /\ at = "send" /\ main # "serving"
  /\ Done(call.id)
  /\ UNCHANGED <<entry, pass, serverVars, main, late>>

\* Mutant: the client has no limit.
TimedOutNever == at = "post" /\ clock = -1 /\ UNCHANGED vars

\* The limit is over: ConnectionTimeout. A request that was sent stays with the
\* server.
TimedOut ==
  /\ at = "post" /\ clock = 0
  /\ Done(call.id)
  /\ UNCHANGED <<entry, pass, serverVars, main, late>>

\* The server stops while the thread waits for it: ConnectionError.
ConnectionLost ==
  /\ at = "post" /\ main # "serving"
  /\ Done(call.id)
  /\ UNCHANGED <<entry, pass, serverVars, main, late>>

\* Mutant: g_app_stop leaves the queue.
ReadKept ==
  /\ at = "pass" /\ pass = {}
  /\ at' = "sleep" /\ clock' = 1
  /\ UNCHANGED <<entry, timers, pass, call, serverVars, main, late>>

\* read_messages after the pass: a message of a worker (set_job_state, see
\* JobServer) sends it back to run_pending, an empty queue to sleep. Once g_app_stop has
\* set g_queue to None the AttributeError ends the thread.
Read ==
  /\ at = "pass" /\ pass = {}
  /\ \/ main = "ended" /\ at' = "dead" /\ UNCHANGED clock
     \/ main # "ended" /\ at' = "run" /\ UNCHANGED clock
     \/ main # "ended" /\ at' = "sleep" /\ clock' = 1
  /\ UNCHANGED <<entry, timers, pass, call, serverVars, main, late>>

\* Time passes.
Tick ==
  /\ clock > 0
  /\ clock' = clock - 1
  /\ timers' = [i \in Ids |->
       IF timers[i] = None THEN None ELSE [timers[i] EXCEPT !.left = @ - 1]]
  /\ UNCHANGED <<entry, pass, at, call, serverVars, main, late>>

-----------------------------------------------------------------------------
(* The HTTP server: one request at a time                                   *)

\* Requests that post or delete scheduled jobs, alone or through a model.
Post(e) ==
  /\ main = "serving" /\ http = "idle"
  /\ AddScheduledJob(e)
  /\ UNCHANGED <<pass, at, clock, serverVars, main>>

Delete(S) ==
  /\ main = "serving" /\ http = "idle"
  /\ DelScheduledJobs(S)
  /\ UNCHANGED <<pass, at, clock, serverVars, main>>

\* A request that takes its time, a user's or the first of the backlog.
HttpTake ==
  /\ main = "serving" /\ http = "idle"
  /\ \/ http' = "user" /\ UNCHANGED backlog
     \/ backlog > 0 /\ http' = "job" /\ backlog' = backlog - 1
  /\ UNCHANGED <<entry, timers, threadVars, main, late>>

\* Whether the client of the request being handled still waits: the thread
\* waits for the last request it has sent.
Awaited == at = "post" /\ call.queued /\ backlog = 0 /\ http = "job"

\* Mutant: the entry is looked up again when the answer comes.
AnswerLookup ==
  /\ Awaited
  /\ entry' = IF entry[call.name] = None THEN entry
              ELSE [entry EXCEPT ![call.name].told = TRUE]
  /\ Done(call.id)

\* The answer of an awaited request: desc is the description of the request,
\* in the table or not.
Answer ==
  /\ Awaited
  /\ entry' = IF call.own THEN [entry EXCEPT ![call.name].told = TRUE] ELSE entry
  /\ Done(call.id)

HttpDone ==
  /\ main = "serving" /\ http # "idle"
  /\ http' = "idle"
  /\ \/ Answer
     \/ ~ Awaited /\ UNCHANGED <<entry, timers, at, call, clock>>
  /\ UNCHANGED <<pass, backlog, main, late>>

-----------------------------------------------------------------------------
(* The main thread                                                          *)

\* setup_scheduled_jobs and restart_predict_jobs.
Setup(e) ==
  /\ main = "starting" /\ e \in Configured /\ entry[e] = None
  /\ AddScheduledJob(e)
  /\ UNCHANGED <<pass, at, clock, serverVars, main>>

Serve ==
  /\ main = "starting" /\ \A e \in Configured : entry[e] # None
  /\ main' = "serving"
  /\ UNCHANGED <<entry, timers, threadVars, serverVars, late>>

\* A plug-in or a configured job is refused, or the start is interrupted: the
\* main thread ends, by sys.exit or by the exception.
FailStart ==
  /\ MayFail /\ main = "starting"
  /\ main' = "failed"
  /\ UNCHANGED <<entry, timers, threadVars, serverVars, late>>

\* serve_forever ends by an interrupt; its connections are closed.
Interrupt ==
  /\ main = "serving"
  /\ main' = "stopping" /\ http' = "idle" /\ backlog' = 0
  /\ UNCHANGED <<entry, timers, threadVars, late>>

\* g_app_stop: schedule.clear('bg') clears nothing, g_timer.cancel ends a timer
\* that waits and not one whose callback runs.
Cancel ==
  /\ main = "stopping"
  /\ main' = "joining"
  /\ at' = IF at = "sleep" THEN "dead" ELSE at
  /\ clock' = IF at = "sleep" THEN 0 ELSE clock
  /\ UNCHANGED <<entry, timers, pass, call, serverVars, late>>

\* The pools have ended; g_config and g_queue become None.
Join ==
  /\ main = "joining"
  /\ main' = "ended"
  /\ UNCHANGED <<entry, timers, threadVars, serverVars, late>>

-----------------------------------------------------------------------------
ThreadStep ==
  \/ Wake \/ RunPending \/ NextEvent \/ MetricsEnd \/ Send \/ Connected \/ Refused
  \/ TimedOut \/ ConnectionLost \/ Read

MainStep == Cancel \/ Join

Next ==
  \/ ThreadStep \/ Tick \/ MainStep
  \/ \E e \in Names : Post(e) \/ Setup(e)
  \/ \E S \in SUBSET Names \ {{}} : Delete(S)
  \/ HttpTake \/ HttpDone
  \/ Serve \/ FailStart \/ Interrupt

\* The threads run and time passes. Nothing obliges the server to answer.
Spec == Init /\ [][Next]_vars /\ WF_vars(ThreadStep) /\ WF_vars(Tick) /\ WF_vars(MainStep)

-----------------------------------------------------------------------------
(* Properties                                                               *)

\* Whatever happens to an event (entry deleted, server busy, stopped or not yet
\* there, backlog full) the timer thread survives it: it ends with the server.
TimerSurvives == at = "dead" => main \in {"joining", "ended"}

\* The longest the other timers keep the thread.
OthersTime(i) ==
  IF i = 0 THEN MaxTimers * 2 * Limit ELSE (MaxTimers - 1) * 2 * Limit + Telemetry

\* docs/reference/api/scheduled_jobs.asciidoc: a job runs every 'count' seconds.
\* A due event waits for one call of each other timer at most, to connect and
\* to be answered in two limits, and a fraction of the thread's second, however
\* long the server takes. While that is less than a bucket, periodic
\* evaluations leave no bucket out.
DelayBounded ==
  \A i \in Ids :
    timers[i] # None /\ (call # None => call.id # i)
      => timers[i].left >= -OthersTime(i)

\* After a deletion at most one more request of the name goes out: the one
\* whose entry the thread had looked up.
DeletedNotPosted == \A e \in Names : late[e] <= 1

\* An entry shows the outcome of its own request only, when it replaces one
\* whose request is on its way too.
StatusIsOwn ==
  \A e \in Names : entry[e] # None /\ entry[e].told => entry[e].asked

\* The thread goes on: a due event is run, or deleted, even if the server
\* answers nothing any more.
EventsKeepRunning ==
  \A i \in Ids :
    (timers[i] # None /\ timers[i].left <= 0)
      ~> (timers[i] = None \/ timers[i].left > 0 \/ at = "dead")

\* An interrupt ends the process: the timer thread, which the interpreter waits
\* for, ends whatever it was doing.
ServerExits == main = "stopping" ~> (main = "ended" /\ at = "dead")

(* Statements of the documentation that the code does not keep              *)

\* main: a start that fails exits (sys.exit), which waits for the timer thread.
FailedStartExits == main = "failed" ~> at = "dead"
=============================================================================
