------------------------- MODULE ModelActivationProofs -------------------------
(***************************************************************************)
(* Theorems about ModelActivation for any models, scheduled jobs, options, *)
(* intervals, trainings and restarts.                                      *)
(***************************************************************************)
EXTENDS ModelActivation, TLAPS

SafeInv == TypeOK /\ OneTimerPerModel

-----------------------------------------------------------------------------
(* The types and the timers, whatever users do                              *)

\* Models and scheduled jobs have names of their own.
LEMMA ModelsAreEntries == Models \subseteq Entries /\ \A m \in Models : m \notin UserJobs /\ m \notin Configured
  BY NamesAssumption DEF Entries

\* The configuration file describes its jobs well.
LEMMA ConfiguredTyped ==
  ASSUME NEW e \in Entries
  PROVE  /\ ConfiguredEntry(e) \in Descs \cup {None}
         /\ e \in Configured => ConfiguredEntry(e) \in Descs
         /\ e \notin Configured => ConfiguredEntry(e) = None
<1>1. (CHOOSE i \in Intervals : TRUE) \in Intervals
  BY IntervalsAssumption
<1> QED BY <1>1 DEF ConfiguredEntry, Descs

\* Only the configured jobs have a timer at first.
LEMMA SafeInit == Init => SafeInv
<1> SUFFICES ASSUME Init PROVE SafeInv
  OBVIOUS
<1> USE DEF Init
<1>1. TypeOK
  <2>1. entry \in [Entries -> Descs \cup {None}]
    BY ConfiguredTyped
  <2>2. timers \in [Entries -> 0..MaxTimers]
    BY ActivationBounds
  <2> QED BY <2>1, <2>2, ActivationBounds DEF TypeOK
<1>2. OneTimerPerModel
  BY ModelsAreEntries, ConfiguredTyped DEF OneTimerPerModel
<1> QED BY <1>1, <1>2 DEF SafeInv

\* del_scheduled_job takes the timers of an entry with the entry.
LEMMA DelKeeps ==
  ASSUME SafeInv, NEW m \in Models, DelScheduledJob(m)
  PROVE  /\ entry' \in [Entries -> Descs \cup {None}]
         /\ timers' \in [Entries -> 0..MaxTimers]
         /\ OneTimerPerModel'
<1> USE ModelsAreEntries, ActivationBounds DEF SafeInv, TypeOK, DelScheduledJob
<1>1. timers' \in [Entries -> 0..MaxTimers]
  OBVIOUS
<1>2. \A n \in Models : n # m => entry'[n] = entry[n] /\ timers'[n] = timers[n]
  OBVIOUS
<1>3. entry'[m] = None /\ timers'[m] = 0
  BY DEF OneTimerPerModel
<1> QED BY <1>1, <1>2, <1>3 DEF OneTimerPerModel

\* _model_start gives a model its only timer.
LEMMA StartKeeps ==
  ASSUME SafeInv, NEW m \in Models, NEW files \in Files, NEW options \in Options \cup {None},
         ModelStart(m, files, options)
  PROVE  /\ entry' \in [Entries -> Descs \cup {None}]
         /\ timers' \in [Entries -> 0..MaxTimers]
         /\ OneTimerPerModel'
<1> USE ModelsAreEntries, ActivationBounds, NoneAssumption DEF SafeInv, TypeOK
<1>1. CASE entry[m] # None
  BY <1>1 DEF ModelStart, OneTimerPerModel
<1>2. CASE entry[m] = None
  <2> DEFINE desc == [params |-> options, every |-> files.interval]
  <2>1. desc \in Descs
    BY DEF Descs, Files
  <2>2. AddScheduledJob(m, desc)
    BY <1>2 DEF ModelStart
  <2> HIDE DEF desc
  <2>3. entry' \in [Entries -> Descs \cup {None}]
    BY <2>1, <2>2 DEF AddScheduledJob
  <2>4. timers' \in [Entries -> 0..MaxTimers]
    BY <2>2 DEF AddScheduledJob
  <2>5. \A n \in Models : n # m => entry'[n] = entry[n] /\ timers'[n] = timers[n]
    BY <2>2 DEF AddScheduledJob
  <2>6. entry'[m] # None /\ timers'[m] = 1
    BY <1>2, <2>1, <2>2 DEF AddScheduledJob, OneTimerPerModel
  <2> QED BY <2>3, <2>4, <2>5, <2>6 DEF OneTimerPerModel
<1> QED BY <1>1, <1>2

\* A crash leaves files that a server can read.
LEMMA DiskTyped ==
  ASSUME TypeOK, NEW m \in Models, NEW f \in AfterCrash(m)
  PROVE  f \in Files \cup {None}
<1> USE DEF TypeOK
<1> DEFINE Settings == (IF http # Idle /\ http.model = m THEN {ToSave(http)} ELSE {})
                         \cup (IF training[m] # None THEN {training[m].read} ELSE {})
           States == {0, IF stored[m] = None THEN 0 ELSE stored[m].state}
<1>1. Settings \subseteq Files
  BY NoneAssumption DEF ToSave, Files, Reads
<1>2. States \subseteq 0..MaxState
  BY ActivationBounds DEF Files
<1>3. f = stored[m] \/ \E g \in Settings, s \in States : f = [g EXCEPT !.state = s]
  BY DEF AfterCrash
<1> HIDE DEF Settings, States
<1> QED BY <1>1, <1>2, <1>3 DEF Files

\* Every step keeps the types and the one timer.
LEMMA SafeStep == SafeInv /\ [Next]_vars => SafeInv'
<1> SUFFICES ASSUME SafeInv, [Next]_vars PROVE SafeInv'
  OBVIOUS
<1> USE NoneAssumption DEF SafeInv
<1>1. ASSUME NEW m \in Models, NEW i \in Intervals, Create(m, i) PROVE SafeInv'
  <2>1. [run |-> None, interval |-> i, state |-> 0] \in Files
    BY ActivationBounds DEF Files
  <2> QED BY <1>1, <2>1 DEF Create, TypeOK, OneTimerPerModel
<1>2. ASSUME NEW m \in Models, NEW i \in Intervals, Patch(m, i) PROVE SafeInv'
  <2> DEFINE file == [run |-> None, interval |-> i,
                      state |-> IF stored[m] = None THEN 0 ELSE stored[m].state]
  <2>1. file \in Files
    BY ActivationBounds DEF Files, TypeOK
  <2>2. stored' = [stored EXCEPT ![m] = file]
    BY <1>2 DEF Patch
  <2> HIDE DEF file
  <2>3. \/ UNCHANGED <<entry, timers>>
        \/ /\ entry[m] # None
           /\ entry' = [entry EXCEPT ![m] = [params |-> None, every |-> i]]
           /\ timers' = [timers EXCEPT ![m] = 1]
    BY <1>2 DEF Patch
  <2>4. entry' \in [Entries -> Descs \cup {None}] /\ timers' \in [Entries -> 0..MaxTimers]
    <3>1. [params |-> None, every |-> i] \in Descs
      BY DEF Descs
    <3> QED BY <2>3, <3>1, ActivationBounds DEF TypeOK
  <2>5. OneTimerPerModel'
    <3>1. [params |-> None, every |-> i] # None
      BY DEF Descs
    <3> QED BY <2>3, <3>1, ModelsAreEntries DEF TypeOK, OneTimerPerModel
  <2> QED BY <1>2, <2>1, <2>2, <2>4, <2>5 DEF Patch, TypeOK
<1>3. ASSUME NEW m \in Models, NEW options \in Options, StartLoad(m, options) PROVE SafeInv'
  BY <1>3 DEF StartLoad, TypeOK, OneTimerPerModel
<1>4. ASSUME NEW m \in Models, StopLoad(m) PROVE SafeInv'
  BY <1>4, DelKeeps DEF StopLoad, TypeOK
<1>5. ASSUME NEW m \in Models, Delete(m) PROVE SafeInv'
  <2>1. training' \in [Models -> {None} \cup Reads]
    BY <1>5 DEF Delete, TypeOK, Reads
  <2> QED BY <1>5, <2>1, DelKeeps DEF Delete, TypeOK
<1>6. ASSUME NEW m \in Models, TrainLoad(m) PROVE SafeInv'
  <2>1. [read |-> stored[m], canceled |-> FALSE] \in Reads
    BY <1>6 DEF TrainLoad, TypeOK, Reads
  <2> QED BY <1>6, <2>1 DEF TrainLoad, TypeOK, OneTimerPerModel
<1>7. ASSUME NEW m \in Models, TrainSave(m) PROVE SafeInv'
  <2>1. states' \in 0..MaxState
    BY <1>7, ActivationBounds DEF TrainSave, TypeOK
  <2>2. [training[m].read EXCEPT !.state = states'] \in Files
    BY <1>7, <2>1 DEF TrainSave, TypeOK, Reads, Files
  <2> QED BY <1>7, <2>1, <2>2 DEF TrainSave, TypeOK, OneTimerPerModel
<1>8. ASSUME NEW m \in Models, TrainEnd(m) PROVE SafeInv'
  BY <1>8 DEF TrainEnd, TypeOK, OneTimerPerModel
<1>9. CASE StartSave
  <2>1. http.model \in Models /\ http.read \in Files /\ http.options \in Options \cup {None}
    BY <1>9 DEF StartSave, TypeOK, Idle
  <2>2. [http.read EXCEPT !.run = http.options] \in Files
    BY <2>1 DEF Files
  <2> QED BY <1>9, <2>1, <2>2, StartKeeps DEF StartSave, TypeOK
<1>10. CASE StopSave
  <2>1. http.model \in Models /\ http.read \in Files
    BY <1>10 DEF StopSave, TypeOK, Idle
  <2>2. [http.read EXCEPT !.run = None] \in Files
    BY <2>1 DEF Files
  <2> QED BY <1>10, <2>1, <2>2 DEF StopSave, TypeOK, OneTimerPerModel
<1>11. ASSUME NEW e \in UserJobs, NEW i \in Intervals, PostScheduledJob(e, i) PROVE SafeInv'
  <2>1. [params |-> None, every |-> i] \in Descs
    BY DEF Descs
  <2>2. timers' \in [Entries -> 0..MaxTimers]
    BY <1>11, ActivationBounds DEF Entries, PostScheduledJob, AddScheduledJob, TypeOK
  <2>3. OneTimerPerModel'
    BY <1>11, ModelsAreEntries DEF PostScheduledJob, AddScheduledJob, TypeOK, OneTimerPerModel
  <2> QED BY <1>11, <2>1, <2>2, <2>3 DEF PostScheduledJob, AddScheduledJob, TypeOK
<1>12. ASSUME NEW es, DeleteScheduledJobs(es) PROVE SafeInv'
  <2>1. timers' \in [Entries -> 0..MaxTimers]
    BY <1>12, ActivationBounds DEF DeleteScheduledJobs, TypeOK
  <2>2. OneTimerPerModel'
    BY <1>12, ModelsAreEntries DEF DeleteScheduledJobs, TypeOK, OneTimerPerModel
  <2> QED BY <1>12, <2>1, <2>2 DEF DeleteScheduledJobs, TypeOK
<1>13. CASE CrashAndRestart
  <2>1. PICK disk \in [Models -> UNION {AfterCrash(m) : m \in Models}] :
          (\A m \in Models : disk[m] \in AfterCrash(m)) /\ Restart(disk)
    BY <1>13 DEF CrashAndRestart
  <2>2. disk \in [Models -> Files \cup {None}]
    BY <2>1, DiskTyped
  <2>3. entry' \in [Entries -> Descs \cup {None}]
    <3>1. ASSUME NEW e \in Entries, e \notin UserJobs, disk[e] # None
          PROVE  [params |-> disk[e].run, every |-> disk[e].interval] \in Descs
      BY <2>2, <3>1 DEF Entries, Files, Descs
    <3> QED BY <2>1, <3>1, ConfiguredTyped DEF Restart
  <2>4. timers' = [e \in Entries |-> IF entry'[e] = None THEN 0 ELSE 1]
    BY <2>1 DEF Restart
  <2>5. timers' \in [Entries -> 0..MaxTimers] /\ OneTimerPerModel'
    BY <2>4, ActivationBounds, ModelsAreEntries DEF OneTimerPerModel
  <2>6. restarts' \in 0..MaxRestarts
    BY <2>1, ActivationBounds DEF Restart, TypeOK
  <2> QED BY <2>1, <2>2, <2>3, <2>5, <2>6 DEF Restart, TypeOK
<1>14. CASE UNCHANGED vars
  BY <1>14 DEF vars, TypeOK, OneTimerPerModel
<1> QED
  BY <1>1, <1>2, <1>3, <1>4, <1>5, <1>6, <1>7, <1>8, <1>9, <1>10, <1>11, <1>12, <1>13, <1>14
     DEF Next, Request, Handler, ScheduleRequest

\* For any constants, whatever users, workers and crashes do.
THEOREM Safety == Spec => []SafeInv
  BY SafeInit, SafeStep, PTL DEF Spec

\* The variables keep their types.
THEOREM TypeCorrect == Spec => []TypeOK
<1>1. SafeInv => TypeOK
  BY DEF SafeInv
<1> QED BY <1>1, Safety, PTL

\* A model has one timer when it has an entry and none otherwise, even when
\* users change it while it is trained.
THEOREM OneTimer == Spec => []OneTimerPerModel
<1>1. SafeInv => OneTimerPerModel
  BY DEF SafeInv
<1> QED BY <1>1, Safety, PTL

-----------------------------------------------------------------------------
(* Settings, table and answers agree, when nobody changes a model in training *)

\* A request has read what is still stored, no worker trains its model, and
\* what it will answer has not been answered before.
Untouched ==
  http # Idle =>
    /\ training[http.model] = None
    /\ stored[http.model] = http.read
    /\ told[http.model] = "nothing"
    /\ http.at = "stop" => entry[http.model] = None
    /\ http.at = "start" => http.options # None

\* The worker's copy of the settings is not stale.
Held == \A m \in Models : training[m] # None => stored[m] = training[m].read

\* No model, no entry.
Absent == \A m \in Models : stored[m] = None => entry[m] = None

\* Only PATCH makes an entry without params.
Params == \A m \in Models \ Patchable : entry[m] # None => entry[m].params # None

\* A model that is stopped is so in its settings too: a restart keeps to it.
Stopped ==
  \A m \in Models : told[m] = "stopped" =>
    entry[m] = None /\ (stored[m] # None => stored[m].run = None)

\* A model that is started is so in its settings too.
Started ==
  \A m \in Models \ Patchable : told[m] = "started" =>
    entry[m] # None /\ stored[m] # None /\ stored[m].run # None

QuietInv ==
  /\ SafeInv
  /\ Untouched /\ Held /\ Absent /\ Params /\ Stopped /\ DeletedStaysDeleted /\ Started
  /\ ScheduledAtInterval

LEMMA QuietInit == Init => QuietInv
<1> SUFFICES ASSUME Init PROVE QuietInv
  OBVIOUS
<1>1. \A m \in Models : entry[m] = None
  BY ModelsAreEntries, ConfiguredTyped DEF Init
<1> QED
  BY <1>1, SafeInit
     DEF Init, QuietInv, Untouched, Held, Absent, Params, Stopped, DeletedStaysDeleted, Started,
         ScheduledAtInterval

\* Quiet users are users.
LEMMA QuietIsNext == [QuietNext]_vars => [Next]_vars
  BY DEF QuietNext, Next

\* A crash keeps what is stored of a model about which nothing is being asked,
\* but for its state.
LEMMA CrashKeepsRun ==
  ASSUME QuietInv, NEW m \in Models, NEW f \in AfterCrash(m), told[m] # "nothing"
  PROVE  /\ stored[m] = None => f = None
         /\ stored[m] # None => f # None /\ f.run = stored[m].run
<1> USE NoneAssumption DEF QuietInv, SafeInv
<1>1. ~(http # Idle /\ http.model = m)
  BY DEF Untouched
<1>2. f = stored[m] \/ /\ training[m] # None
                       /\ \E s \in 0..MaxState : f = [training[m].read EXCEPT !.state = s]
  <2>1. {0, IF stored[m] = None THEN 0 ELSE stored[m].state} \subseteq 0..MaxState
    BY ActivationBounds DEF TypeOK, Files
  <2> QED BY <1>1, <2>1 DEF AfterCrash
<1>3. CASE f = stored[m]
  BY <1>3
<1>4. ASSUME training[m] # None, NEW s \in 0..MaxState,
             f = [training[m].read EXCEPT !.state = s]
      PROVE  stored[m] # None /\ f # None /\ f.run = stored[m].run
  <2>1. stored[m] = training[m].read /\ stored[m] \in Files
    BY <1>4 DEF Held, TypeOK, Reads
  <2>2. f = [stored[m] EXCEPT !.state = s]
    BY <1>4, <2>1
  <2> QED BY <2>1, <2>2 DEF Files
<1> QED BY <1>2, <1>3, <1>4

LEMMA QuietStep == QuietInv /\ [QuietNext]_vars => QuietInv'
<1> SUFFICES ASSUME QuietInv, [QuietNext]_vars PROVE QuietInv'
  OBVIOUS
<1>0. SafeInv'
  BY QuietIsNext, SafeStep DEF QuietInv
<1> DEFINE Rest == /\ Untouched /\ Held /\ Absent /\ Params /\ Stopped /\ DeletedStaysDeleted /\ Started
                   /\ ScheduledAtInterval
<1> SUFFICES Rest'
  BY <1>0 DEF QuietInv
<1> USE NoneAssumption, ModelsAreEntries
        DEF QuietInv, SafeInv, Untouched, Held, Absent, Params, Stopped, DeletedStaysDeleted, Started,
            ScheduledAtInterval
<1>1. ASSUME NEW m \in Models, training[m] = None, NEW i \in Intervals, Create(m, i) PROVE Rest'
  <2> DEFINE file == [run |-> None, interval |-> i, state |-> 0]
  <2>1. file # None
    BY ActivationBounds DEF Files
  <2>2. stored' = [stored EXCEPT ![m] = file]
    BY <1>1 DEF Create
  <2> HIDE DEF file
  <2> QED BY <1>1, <2>1, <2>2 DEF Create, TypeOK
<1>2. ASSUME NEW m \in Models, training[m] = None, NEW i \in Intervals, Patch(m, i) PROVE Rest'
  <2> DEFINE file == [run |-> None, interval |-> i,
                      state |-> IF stored[m] = None THEN 0 ELSE stored[m].state]
             desc == [params |-> None, every |-> i]
  <2>1. desc # None /\ desc.every = i
    BY DEF Descs
  <2>2. file # None /\ file.run = None /\ file.interval = i
    BY ActivationBounds DEF Files, TypeOK
  <2>3. stored' = [stored EXCEPT ![m] = file]
    BY <1>2 DEF Patch
  <2>4. \/ /\ stored[m] = None \/ stored[m].interval = i \/ entry[m] = None
           /\ UNCHANGED entry
        \/ /\ entry[m] # None /\ stored[m] # None
           /\ entry' = [entry EXCEPT ![m] = desc]
    BY <1>2 DEF Patch
  <2> HIDE DEF file, desc
  <2> QED BY <1>2, <2>1, <2>2, <2>3, <2>4 DEF Patch, TypeOK
<1>3. ASSUME NEW m \in Models, training[m] = None, NEW options \in Options, StartLoad(m, options)
      PROVE  Rest'
  BY <1>3 DEF StartLoad, TypeOK
<1>4. ASSUME NEW m \in Models, training[m] = None, StopLoad(m) PROVE Rest'
  BY <1>4 DEF StopLoad, DelScheduledJob, TypeOK
<1>5. ASSUME NEW m \in Models, training[m] = None, Delete(m) PROVE Rest'
  BY <1>5 DEF Delete, DelScheduledJob, TypeOK
<1>6. ASSUME NEW m \in Models, http = Idle, TrainLoad(m) PROVE Rest'
  BY <1>6 DEF TrainLoad, TypeOK
<1>7. ASSUME NEW m \in Models, TrainSave(m) PROVE Rest'
  <2> DEFINE file == [training[m].read EXCEPT !.state = states']
  <2>1. stored[m] = training[m].read /\ stored[m] \in Files /\ stored[m] # None
    BY <1>7 DEF TrainSave, TypeOK, Reads
  <2>2. file.run = stored[m].run /\ file.interval = stored[m].interval
    BY <2>1 DEF Files
  <2>3. file # None
    <3>1. states' \in 0..MaxState
      BY <1>7, ActivationBounds DEF TrainSave, TypeOK
    <3> QED BY <2>1, <3>1 DEF Files
  <2>4. stored' = [stored EXCEPT ![m] = file]
    BY <1>7 DEF TrainSave
  <2>5. http # Idle => http.model # m
    BY <1>7 DEF TrainSave
  <2> HIDE DEF file
  <2> QED BY <1>7, <2>1, <2>2, <2>3, <2>4, <2>5 DEF TrainSave, TypeOK
<1>8. ASSUME NEW m \in Models, TrainEnd(m) PROVE Rest'
  BY <1>8 DEF TrainEnd, TypeOK
<1>9. CASE StartSave
  BY <1>9 DEF StartSave, ModelStart, AddScheduledJob, TypeOK, Files, Descs, Idle
<1>10. CASE StopSave
  BY <1>10 DEF StopSave, TypeOK, Files, Idle
<1>11. ASSUME NEW e \in UserJobs, NEW i \in Intervals, PostScheduledJob(e, i) PROVE Rest'
  <2>1. \A m \in Models : entry'[m] = entry[m]
    BY <1>11 DEF PostScheduledJob, AddScheduledJob, TypeOK
  <2> QED BY <1>11, <2>1 DEF PostScheduledJob
<1>12. ASSUME NEW es, DeleteScheduledJobs(es) PROVE Rest'
  BY <1>12 DEF DeleteScheduledJobs, TypeOK
<1>13. CASE CrashAndRestart
  <2>1. PICK disk \in [Models -> UNION {AfterCrash(m) : m \in Models}] :
          (\A m \in Models : disk[m] \in AfterCrash(m)) /\ Restart(disk)
    BY <1>13 DEF CrashAndRestart
  <2>2. \A m \in Models :
          entry'[m] = IF disk[m] # None /\ disk[m].run # None
                      THEN [params |-> disk[m].run, every |-> disk[m].interval]
                      ELSE None
    BY <2>1 DEF Restart
  <2>3. ASSUME NEW m \in Models, disk[m] # None, disk[m].run # None
        PROVE  /\ entry'[m] # None
               /\ entry'[m].params = disk[m].run /\ entry'[m].every = disk[m].interval
    <3>1. disk[m] \in Files
      BY <2>1, <2>3, DiskTyped
    <3>2. [params |-> disk[m].run, every |-> disk[m].interval] \in Descs
      BY <2>3, <3>1 DEF Files, Descs
    <3> QED BY <2>2, <2>3, <3>2
  <2>4. \A m \in Models : told[m] # "nothing" =>
          /\ stored[m] = None => disk[m] = None
          /\ stored[m] # None => disk[m] # None /\ disk[m].run = stored[m].run
    BY <2>1, CrashKeepsRun
  <2>5. stored' = disk /\ http' = Idle /\ told' = told /\ training' = [m \in Models |-> None]
    BY <2>1 DEF Restart
  <2>6. (Untouched /\ Held)'
    BY <2>5
  <2>7. (Absent /\ Params /\ ScheduledAtInterval)'
    BY <2>2, <2>3, <2>5
  <2>8. (Stopped /\ DeletedStaysDeleted)'
    BY <2>2, <2>4, <2>5
  <2>9. Started'
    BY <2>2, <2>3, <2>4, <2>5
  <2> QED BY <2>6, <2>7, <2>8, <2>9
<1>14. CASE UNCHANGED vars
  BY <1>14 DEF vars
<1> QED
  BY <1>1, <1>2, <1>3, <1>4, <1>5, <1>6, <1>7, <1>8, <1>9, <1>10, <1>11, <1>12, <1>13, <1>14
     DEF QuietNext, Request, Handler, ScheduleRequest

THEOREM QuietSafety == QuietSpec => []QuietInv
  BY QuietInit, QuietStep, PTL DEF QuietSpec

\* A model that was stopped does not run, whatever restarts follow.
THEOREM StopIsKept == QuietSpec => []StoppedStaysStopped
<1>1. QuietInv => StoppedStaysStopped
  BY DEF QuietInv, Stopped, StoppedStaysStopped
<1> QED BY <1>1, QuietSafety, PTL

\* A model that was started, and is not patched, runs with its options.
THEOREM StartIsKept == QuietSpec => []StartedStaysScheduled
<1>1. QuietInv => StartedStaysScheduled
  BY DEF QuietInv, Started, Params, StartedStaysScheduled
<1> QED BY <1>1, QuietSafety, PTL

\* A model that was deleted does not run.
THEOREM DeleteIsKept == QuietSpec => []DeletedIsUnscheduled
<1>1. QuietInv => DeletedIsUnscheduled
  BY DEF QuietInv, DeletedStaysDeleted, Absent, DeletedIsUnscheduled
<1> QED BY <1>1, QuietSafety, PTL

\* Nothing is left of it, although a crash may have interrupted a worker.
THEOREM NothingIsLeft == QuietSpec => []DeletedStaysDeleted
<1>1. QuietInv => DeletedStaysDeleted
  BY DEF QuietInv
<1> QED BY <1>1, QuietSafety, PTL

\* A model runs at the interval of its settings.
THEOREM IntervalIsKept == QuietSpec => []ScheduledAtInterval
<1>1. QuietInv => ScheduledAtInterval
  BY DEF QuietInv
<1> QED BY <1>1, QuietSafety, PTL

\* And it has one timer.
THEOREM QuietOneTimer == QuietSpec => []OneTimerPerModel
<1>1. QuietInv => OneTimerPerModel
  BY DEF QuietInv, SafeInv
<1> QED BY <1>1, QuietSafety, PTL
=============================================================================
