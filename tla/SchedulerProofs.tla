--------------------------- MODULE SchedulerProofs ---------------------------
(***************************************************************************)
(* Theorems about Scheduler for any scheduled jobs, periods and limits.    *)
(***************************************************************************)
EXTENDS Scheduler, FiniteSetTheorems, TLAPS

\* The thread has an event while it runs one, and a scheduled job while it
\* posts.
CallKnown ==
  /\ at \in {"send", "post", "metrics"} => call # None
  /\ at \in {"send", "post"} => call.name \in Names

TypeInv == TypeOK /\ CallKnown

\* What the thread holds is in the table, and was asked once it has posted.
OwnIsThere ==
  at \in {"send", "post"} /\ call.own =>
    /\ entry[call.name] # None
    /\ at = "post" => entry[call.name].asked

\* Requests after a deletion: none before the one that is about to be sent.
LateIsLast ==
  \A e \in Names :
    entry[e] # None \/ (at = "send" /\ call.name = e) => late[e] = 0

SafeInv == OwnIsThere /\ LateIsLast /\ DeletedNotPosted /\ StatusIsOwn
IInv == TypeInv /\ SafeInv

-----------------------------------------------------------------------------
(* Helpers of the thread                                                    *)

\* The end of an event leaves timers, clock and the thread well typed.
LEMMA DoneType ==
  ASSUME TypeOK, NEW i, Done(i)
  PROVE  /\ timers' \in [Ids -> TimerRecs \cup {None}]
         /\ at' = "pass" /\ call' = None /\ clock' = 0
<1>1. \A k \in Ids : timers[k] # None =>
        [timers[k] EXCEPT !.left = Period[timers[k].name]] \in TimerRecs
  BY PeriodAssumption DEF TypeOK, TimerRecs
<1> QED BY <1>1 DEF Done, TypeOK, TimerRecs

\* Disowning a call changes neither its event nor its timer.
LEMMA DisownType ==
  ASSUME TypeInv, NEW S, Disown(S)
  PROVE  /\ call' \in CallRecs \cup {None}
         /\ call # None => call' # None /\ call'.name = call.name
         /\ call # None /\ call.name \in S => call'.own = FALSE
         /\ call # None /\ call.name \notin S => call' = call
         /\ call = None => call' = None
<1>1. CASE call # None /\ call.name \in S
  <2>1. call \in CallRecs
    BY <1>1 DEF TypeInv, TypeOK, CallRecs
  <2>2. call' = [call EXCEPT !.own = FALSE]
    BY <1>1 DEF Disown
  <2>3. call' \in CallRecs /\ call'.name = call.name /\ call'.own = FALSE
    BY <2>1, <2>2 DEF CallRecs
  <2> QED BY <1>1, <2>3, NoneAssumption
<1>2. CASE ~ (call # None /\ call.name \in S)
  BY <1>2 DEF Disown, TypeInv, TypeOK, CallRecs
<1> QED BY <1>1, <1>2

\* Adding an entry: the new timer and description are well typed.
LEMMA AddType ==
  ASSUME TypeInv, NEW e \in Names, AddScheduledJob(e)
  PROVE  /\ entry' = [entry EXCEPT ![e] = New] /\ New \in Descs
         /\ timers' \in [Ids -> TimerRecs \cup {None}]
         /\ late' = [late EXCEPT ![e] = 0]
         /\ Disown({e})
<1>1. [name |-> e, left |-> Period[e]] \in TimerRecs
  BY PeriodAssumption DEF TimerRecs
<1>2. New \in Descs
  BY DEF New, Descs
<1> QED BY <1>1, <1>2 DEF AddScheduledJob, TypeInv, TypeOK

\* Time leaves a timer a timer.
LEMMA TickType ==
  ASSUME TypeOK, Tick
  PROVE  timers' \in [Ids -> TimerRecs \cup {None}] /\ clock' \in Nat
<1>1. \A i \in Ids : timers[i] # None =>
        [timers[i] EXCEPT !.left = @ - 1] \in TimerRecs
  BY DEF TypeOK, TimerRecs
<1> QED BY <1>1 DEF Tick, TypeOK

\* Marking the description of the call.
LEMMA AskedType ==
  ASSUME TypeInv, OwnIsThere, at = "send"
  PROVE  /\ Asked \in [Names -> Descs \cup {None}]
         /\ \A e \in Names : (Asked[e] = None) <=> (entry[e] = None)
         /\ \A e \in Names : e # call.name => Asked[e] = entry[e]
         /\ ~ call.own => Asked = entry
         /\ call.own => Asked[call.name].asked
         /\ \A e \in Names : Asked[e] # None => Asked[e].told = entry[e].told
         /\ \A e \in Names : entry[e] # None /\ entry[e].asked => Asked[e].asked
<1>1. CASE ~ call.own
  BY <1>1 DEF Asked, TypeInv, TypeOK
<1>2. CASE call.own
  <2>1. call.name \in Names /\ entry[call.name] \in Descs
    BY <1>2 DEF TypeInv, TypeOK, CallKnown, OwnIsThere
  <2>2. Asked = [entry EXCEPT ![call.name] = [entry[call.name] EXCEPT !.asked = TRUE]]
    BY <1>2 DEF Asked
  <2> DEFINE d == [entry[call.name] EXCEPT !.asked = TRUE]
  <2>3. d \in Descs /\ d.asked /\ d.told = entry[call.name].told
    BY <2>1 DEF Descs
  <2>4. d # None
    BY <2>3, NoneAssumption
  <2> HIDE DEF d
  <2> QED BY <1>2, <2>1, <2>2, <2>3, <2>4, NoneAssumption DEF TypeInv, TypeOK, d
<1> QED
  <2>1. call \in CallRecs
    BY NoneAssumption DEF TypeInv, TypeOK, CallKnown
  <2>2. call.own \in BOOLEAN
    BY <2>1 DEF CallRecs
  <2> QED BY <1>1, <1>2, <2>2

-----------------------------------------------------------------------------
(* Type correctness                                                         *)

\* The initial state is well typed.
LEMMA TypeInit == Init => TypeInv
<1> SUFFICES ASSUME Init PROVE TypeInv
  OBVIOUS
<1>1. [name |-> Hourly, left |-> Period[Hourly]] \in TimerRecs
  BY PeriodAssumption DEF TimerRecs
<1>2. timers \in [Ids -> TimerRecs \cup {None}]
  BY <1>1 DEF Init
<1> QED BY <1>2, SchedulerBounds DEF Init, TypeInv, TypeOK, CallKnown

\* Every step keeps the types, and the thread's event while it runs one.
LEMMA TypeStep == TypeInv /\ OwnIsThere /\ [Next]_vars => TypeInv'
<1> SUFFICES ASSUME TypeInv, OwnIsThere, [Next]_vars PROVE TypeInv'
  OBVIOUS
<1>0. call = None \/ call \in CallRecs
  BY DEF TypeInv, TypeOK
<1> USE DEF TypeInv, TypeOK, CallKnown
<1>1. ASSUME Wake PROVE TypeInv'
  BY <1>1 DEF Wake, serverVars
<1>2. ASSUME RunPending PROVE TypeInv'
  <2>1. pass' \subseteq [id : Ids, name : Names \cup {Hourly}, left : Int]
    BY <1>2 DEF RunPending, TimerRecs
  <2> QED BY <1>2, <2>1 DEF RunPending, serverVars
<1>3. ASSUME NEW j \in pass, at = "pass", pass' = pass \ {j}, Done(j.id),
             UNCHANGED <<entry, serverVars, main, late>>
      PROVE  TypeInv'
  BY <1>3, DoneType DEF serverVars
<1>4. ASSUME NEW j \in pass, at = "pass", pass' = pass \ {j},
             j.name # Hourly /\ entry[j.name] # None, at' = "send",
             call' = [id |-> j.id, name |-> j.name, own |-> TRUE, queued |-> FALSE],
             UNCHANGED <<timers, clock>>, UNCHANGED <<entry, serverVars, main, late>>
      PROVE  TypeInv'
  <2>1. call' \in CallRecs /\ call'.name \in Names
    BY <1>4 DEF CallRecs
  <2> QED BY <1>4, <2>1, NoneAssumption DEF serverVars
<1>5. ASSUME NEW j \in pass, at = "pass", pass' = pass \ {j}, at' = "metrics",
             call' = [id |-> j.id, name |-> j.name, own |-> TRUE, queued |-> FALSE],
             clock' = IF Telemetry = None THEN 0 ELSE Telemetry,
             UNCHANGED timers, UNCHANGED <<entry, serverVars, main, late>>
      PROVE  TypeInv'
  <2>1. call' \in CallRecs
    BY <1>5 DEF CallRecs
  <2>2. clock' \in Nat
    BY <1>5, TimeAssumption
  <2> QED BY <1>5, <2>1, <2>2, NoneAssumption DEF serverVars
<1>6. ASSUME NextEvent PROVE TypeInv'
  BY <1>3, <1>4, <1>5, <1>6 DEF NextEvent
<1>7. ASSUME MetricsEnd PROVE TypeInv'
  BY <1>7, DoneType DEF MetricsEnd, serverVars
<1>8. ASSUME Send PROVE TypeInv'
  <2>1. call \in CallRecs
    BY <1>0, <1>8 DEF Send
  <2>2. [call EXCEPT !.queued = TRUE] \in CallRecs
        /\ [call EXCEPT !.queued = TRUE].name = call.name
    BY <2>1 DEF CallRecs
  <2>5. call' \in CallRecs /\ call'.name = call.name
    BY <1>8, <2>1, <2>2 DEF Send
  <2>6. backlog' \in 0..Listen
    BY <1>8, SchedulerBounds DEF Send
  <2>7. late' \in [Names -> Nat]
    BY <1>8 DEF Send, Late
  <2>8. entry' \in [Names -> Descs \cup {None}]
    BY <1>8, AskedType DEF Send
  <2> QED BY <1>8, <2>5, <2>6, <2>7, <2>8, TimeAssumption, NoneAssumption DEF Send
<1>9. ASSUME Connected PROVE TypeInv'
  <2>1. call \in CallRecs
    BY <1>0, <1>9 DEF Connected
  <2>2. call' \in CallRecs /\ call'.name = call.name
    BY <1>9, <2>1 DEF Connected, CallRecs
  <2>3. backlog' \in 0..Listen
    BY <1>9, SchedulerBounds DEF Connected
  <2> QED BY <1>9, <2>2, <2>3, TimeAssumption, NoneAssumption DEF Connected
<1>10. ASSUME Refused \/ TimedOut \/ ConnectionLost PROVE TypeInv'
  BY <1>10, DoneType DEF Refused, TimedOut, ConnectionLost, serverVars
<1>11. ASSUME Read PROVE TypeInv'
  BY <1>11 DEF Read, serverVars
<1>12. ASSUME Tick PROVE TypeInv'
  BY <1>12, TickType DEF Tick, serverVars
<1>13. ASSUME NEW e \in Names, Post(e) \/ Setup(e) PROVE TypeInv'
  <2>1. AddScheduledJob(e) /\ UNCHANGED <<pass, at, clock, serverVars, main>>
    BY <1>13 DEF Post, Setup
  <2>2. /\ entry' = [entry EXCEPT ![e] = New] /\ New \in Descs
        /\ timers' \in [Ids -> TimerRecs \cup {None}]
        /\ late' = [late EXCEPT ![e] = 0]
    BY <2>1, AddType
  <2>3. Disown({e})
    BY <2>1, AddType
  <2>4. call' \in CallRecs \cup {None}
        /\ (call # None => call' # None /\ call'.name = call.name)
    BY <2>3, DisownType
  <2> QED BY <2>1, <2>2, <2>4 DEF serverVars
<1>14. ASSUME NEW S \in SUBSET Names, Delete(S) PROVE TypeInv'
  BY <1>14, DisownType DEF Delete, DelScheduledJobs, serverVars
<1>15. ASSUME HttpTake PROVE TypeInv'
  BY <1>15, SchedulerBounds DEF HttpTake, threadVars
<1>16. ASSUME HttpDone PROVE TypeInv'
  <2>1. CASE Answer
    <3>1. call \in CallRecs /\ call.name \in Names
      BY <1>0, <2>1 DEF Answer, Awaited
    <3>2. entry' \in [Names -> Descs \cup {None}]
      BY <2>1, <3>1 DEF Answer, Awaited, OwnIsThere, Descs
    <3> QED BY <1>16, <2>1, <3>2, DoneType DEF HttpDone, Answer
  <2>2. CASE UNCHANGED <<entry, timers, at, call, clock>>
    BY <1>16, <2>2 DEF HttpDone
  <2> QED BY <1>16, <2>1, <2>2 DEF HttpDone
<1>17. ASSUME Serve \/ FailStart \/ Interrupt \/ MainStep PROVE TypeInv'
  BY <1>17, SchedulerBounds
  DEF Serve, FailStart, Interrupt, MainStep, Cancel, Join, serverVars, threadVars
<1>18. ASSUME UNCHANGED vars PROVE TypeInv'
  BY <1>18 DEF vars
<1> QED
  BY <1>1, <1>2, <1>6, <1>7, <1>8, <1>9, <1>10, <1>11, <1>12, <1>13, <1>14, <1>15,
     <1>16, <1>17, <1>18
  DEF Next, ThreadStep

-----------------------------------------------------------------------------
(* The table and the requests                                               *)

\* Initially the table is empty.
LEMMA SafeInit == Init => SafeInv
  BY DEF Init, SafeInv, OwnIsThere, LateIsLast, DeletedNotPosted, StatusIsOwn

\* A step that leaves the table, the history and the thread's event alone, or
\* ends the event, keeps the invariant.
LEMMA SafeStutter ==
  ASSUME SafeInv, UNCHANGED <<entry, late>>,
         \/ UNCHANGED <<at, call>>
         \/ at' \notin {"send", "post"}
         \/ at = "post" /\ at' = "post" /\ call'.name = call.name /\ call'.own = call.own
  PROVE  SafeInv'
  BY DEF SafeInv, OwnIsThere, LateIsLast, DeletedNotPosted, StatusIsOwn

\* Every step keeps the table, the thread's event and the history together.
LEMMA SafeStep == TypeInv /\ SafeInv /\ [Next]_vars => SafeInv'
<1> SUFFICES ASSUME TypeInv, SafeInv, [Next]_vars PROVE SafeInv'
  OBVIOUS
<1>0. call = None \/ call \in CallRecs
  BY DEF TypeInv, TypeOK
<1>1. ASSUME Wake \/ RunPending \/ MetricsEnd \/ Refused \/ TimedOut \/ ConnectionLost \/ Read
      PROVE  SafeInv'
  BY <1>1, SafeStutter
  DEF Wake, RunPending, MetricsEnd, Refused, TimedOut, ConnectionLost, Read, Done
<1>2. ASSUME Tick \/ HttpTake \/ Serve \/ FailStart \/ Interrupt \/ MainStep
      PROVE  SafeInv'
  BY <1>2, SafeStutter
  DEF Tick, HttpTake, Serve, FailStart, Interrupt, MainStep, Cancel, Join, threadVars
<1>3. ASSUME NEW j \in pass, at = "pass", j.name # Hourly /\ entry[j.name] # None,
             at' = "send",
             call' = [id |-> j.id, name |-> j.name, own |-> TRUE, queued |-> FALSE],
             UNCHANGED <<entry, serverVars, main, late>>
      PROVE  SafeInv'
  BY <1>3 DEF SafeInv, OwnIsThere, LateIsLast, DeletedNotPosted, StatusIsOwn
<1>4. ASSUME NextEvent PROVE SafeInv'
  BY <1>3, <1>4, SafeStutter DEF NextEvent, Done
<1>5. ASSUME Send PROVE SafeInv'
  <2>1. call.name \in Names /\ call'.name = call.name /\ call'.own = call.own
    BY <1>0, <1>5 DEF Send, TypeInv, CallKnown, CallRecs
  <2>2. /\ \A e \in Names : (entry'[e] = None) <=> (entry[e] = None)
        /\ \A e \in Names : entry'[e] # None => entry'[e].told = entry[e].told
        /\ \A e \in Names : entry[e] # None /\ entry[e].asked => entry'[e].asked
        /\ call.own => entry'[call.name].asked
    BY <1>5, AskedType DEF Send, SafeInv
  <2>3. \A e \in Names : late'[e] = IF e = call.name /\ entry[e] = None
                                   THEN late[e] + 1 ELSE late[e]
    BY <1>5, <2>1 DEF Send, Late, TypeInv, TypeOK
  <2>4. late[call.name] = 0
    BY <1>5, <2>1 DEF Send, SafeInv, LateIsLast
  <2> QED BY <1>5, <2>1, <2>2, <2>3, <2>4
          DEF Send, SafeInv, OwnIsThere, LateIsLast, DeletedNotPosted, StatusIsOwn
<1>6. ASSUME Connected PROVE SafeInv'
  <2>1. call'.name = call.name /\ call'.own = call.own
    BY <1>0, <1>6 DEF Connected, TypeInv, CallKnown, CallRecs
  <2> QED BY <1>6, <2>1, SafeStutter DEF Connected
<1>7. ASSUME NEW e \in Names, Post(e) \/ Setup(e) PROVE SafeInv'
  <2>1. AddScheduledJob(e) /\ UNCHANGED <<pass, at, clock, serverVars, main>>
    BY <1>7 DEF Post, Setup
  <2>2. /\ entry' = [entry EXCEPT ![e] = New] /\ New \in Descs
        /\ late' = [late EXCEPT ![e] = 0]
    BY <2>1, AddType
  <2>3. Disown({e})
    BY <2>1, AddType
  <2>4. call # None => call'.name = call.name
    BY <2>3, DisownType
  <2>5. call # None /\ call'.own => call.own /\ call.name # e
    BY <2>3, DisownType
  <2>6. New # None /\ ~ New.told
    BY <2>2, NoneAssumption DEF New
  <2> QED BY <2>1, <2>2, <2>4, <2>5, <2>6
          DEF SafeInv, OwnIsThere, LateIsLast, DeletedNotPosted, StatusIsOwn, TypeInv,
              TypeOK, CallKnown
<1>8. ASSUME NEW S \in SUBSET Names, Delete(S) PROVE SafeInv'
  <2>1. Disown(S) /\ at' = at
    BY <1>8 DEF Delete, DelScheduledJobs
  <2>2. call # None => call'.name = call.name
    BY <2>1, DisownType
  <2>3. call # None /\ call'.own => call.own /\ call.name \notin S
    BY <2>1, DisownType
  <2>4. \A e \in Names : /\ entry'[e] = IF e \in S THEN None ELSE entry[e]
                         /\ late'[e] = IF e \in S THEN 0 ELSE late[e]
    BY <1>8 DEF Delete, DelScheduledJobs
  <2> QED BY <2>1, <2>2, <2>3, <2>4
          DEF SafeInv, OwnIsThere, LateIsLast, DeletedNotPosted, StatusIsOwn, TypeInv,
              TypeOK, CallKnown
<1>9. ASSUME HttpDone PROVE SafeInv'
  <2>1. CASE Answer /\ call.own
    <3>1. call.name \in Names /\ entry[call.name] \in Descs /\ entry[call.name].asked
      BY <2>1 DEF Answer, Awaited, TypeInv, TypeOK, CallKnown, SafeInv, OwnIsThere
    <3> DEFINE d == [entry[call.name] EXCEPT !.told = TRUE]
    <3>2. d \in Descs /\ d.asked
      BY <3>1 DEF Descs
    <3>3. entry' = [entry EXCEPT ![call.name] = d]
      BY <2>1 DEF Answer
    <3> HIDE DEF d
    <3>4. /\ at' = "pass" /\ UNCHANGED late
          /\ entry[call.name] # None
      BY <1>9, <2>1, <3>1, NoneAssumption DEF HttpDone, Answer, Done
    <3> QED BY <3>1, <3>2, <3>3, <3>4
            DEF SafeInv, OwnIsThere, LateIsLast, DeletedNotPosted, StatusIsOwn, TypeInv,
                TypeOK
  <2>2. CASE Answer /\ ~ call.own
    BY <1>9, <2>2, SafeStutter DEF HttpDone, Answer, Done
  <2>3. CASE UNCHANGED <<entry, timers, at, call, clock>>
    BY <1>9, <2>3, SafeStutter DEF HttpDone
  <2> QED BY <1>9, <2>1, <2>2, <2>3 DEF HttpDone
<1>10. CASE UNCHANGED vars
  BY <1>10, SafeStutter DEF vars
<1> QED
  BY <1>1, <1>2, <1>4, <1>5, <1>6, <1>7, <1>8, <1>9, <1>10 DEF Next, ThreadStep

-----------------------------------------------------------------------------
(* The delay of an event                                                     *)

\* What keeps the thread from a due event: the events that go before it, the
\* rest of the one that runs, and the second after the pass when the event
\* became due too late for the pass.
InPass == {k.id : k \in pass}
Running(i) == call # None /\ call.id = i
Busy == {"send", "post", "metrics"}

Ahead(i) ==
  IF i \in InPass
  THEN {k.id : k \in {k \in pass : \E j \in pass : j.id = i /\ k.left <= j.left}} \ {i}
  ELSE InPass \cup {k \in Ids \ {i} : /\ timers[k] # None /\ ~ Running(k)
                                      /\ timers[k].left <= timers[i].left}

\* The longest an event takes, and a set of them.
One(k) == IF k = 0 THEN Telemetry ELSE 2 * Limit
Cost(S) == 2 * Limit * Cardinality(S \ {0}) + (IF 0 \in S THEN Telemetry ELSE 0)

Rest ==
  IF at = "send" THEN 2 * Limit
  ELSE IF at = "post" THEN (IF call.queued THEN clock ELSE clock + Limit)
  ELSE IF at = "metrics" THEN clock ELSE 0

Pause(i) ==
  IF i \in InPass THEN 0
  ELSE IF at \in Busy \cup {"pass"} THEN 1
  ELSE IF at = "sleep" THEN clock ELSE 0

Due(i) == timers[i] # None /\ ~ Running(i) /\ timers[i].left <= 0

InTime(i) == timers[i].left >= Cost(Ahead(i)) + Rest + Pause(i) - OthersTime(i)

DueInv == \A i \in Ids : Due(i) => InTime(i)

ClockInv ==
  /\ at \in {"run", "pass", "send", "dead"} => clock = 0
  /\ at = "sleep" => clock <= 1
  /\ at = "post" => clock <= Limit
  /\ at = "metrics" => clock <= Telemetry

\* The events of a pass are due and the one that runs is none of them; the
\* first timer is the one of the metrics, in the table and in a pass.
PassInv ==
  /\ call # None <=> at \in Busy
  /\ at \in {"sleep", "run", "dead"} => pass = {}
  /\ call # None => call.id \notin InPass /\ (call.id = 0 <=> at = "metrics")
  /\ timers[0] # None
  /\ \A i \in Ids : timers[i] # None => (timers[i].name = Hourly <=> i = 0)
  /\ \A k \in pass : k.name = Hourly <=> k.id = 0
  /\ \A k \in pass : timers[k.id] # None => timers[k.id].left <= 0
  /\ \A j, k \in pass : j.id = k.id => j = k

TurnInv == ClockInv /\ PassInv

-----------------------------------------------------------------------------
\* What sets of events cost.

LEMMA Scaled ==
  ASSUME NEW c \in Nat, NEW m \in Nat, NEW n \in Nat, m <= n
  PROVE  c * m \in Nat /\ c * n \in Nat /\ c * m <= c * n /\ c * (n + 1) = c * n + c
<1>1. PICK d \in Nat : n = m + d
  <2>1. n - m \in Nat /\ n = m + (n - m)
    OBVIOUS
  <2> QED BY <2>1
<1>2. c * n = c * m + c * d
  BY <1>1
<1>3. c * d \in Nat /\ c * m \in Nat
  OBVIOUS
<1> QED BY <1>2, <1>3

LEMMA IdsFinite ==
  ASSUME NEW S \in SUBSET Ids
  PROVE  /\ IsFiniteSet(S) /\ IsFiniteSet(S \ {0}) /\ Cardinality(S \ {0}) \in Nat
         /\ 0 \in Ids
<1>1. IsFiniteSet(Ids) /\ 0 \in Ids
  BY FS_Interval, SchedulerBounds DEF Ids
<1>2. S \ {0} \in SUBSET Ids
  OBVIOUS
<1> QED BY <1>1, <1>2, FS_Subset, FS_CardinalityType

LEMMA CostIsMore ==
  ASSUME Telemetry \in Nat, NEW T \in SUBSET Ids, NEW S \in SUBSET T
  PROVE  Cost(S) \in Nat /\ Cost(T) \in Nat /\ Cost(S) <= Cost(T)
<1> DEFINE c == 2 * Limit
           s == Cardinality(S \ {0})
           t == Cardinality(T \ {0})
<1>1. S \in SUBSET Ids /\ S \ {0} \in SUBSET (T \ {0}) /\ c \in Nat
  BY TimeAssumption
<1>2. s \in Nat /\ t \in Nat /\ s <= t
  BY <1>1, IdsFinite, FS_Subset
<1>3. /\ Cost(S) = c * s + (IF 0 \in S THEN Telemetry ELSE 0)
      /\ Cost(T) = c * t + (IF 0 \in T THEN Telemetry ELSE 0)
  BY DEF Cost
<1> HIDE DEF c, s, t
<1>4. c * s \in Nat /\ c * t \in Nat /\ c * s <= c * t
  BY <1>1, <1>2, Scaled
<1> QED BY <1>3, <1>4

LEMMA CostOfOneMore ==
  ASSUME Telemetry \in Nat, NEW S \in SUBSET Ids, NEW k \in Ids \ S
  PROVE  /\ Cost(S \cup {k}) = Cost(S) + One(k)
         /\ One(k) \in Nat
<1> DEFINE c == 2 * Limit
           s == Cardinality(S \ {0})
<1>1. s \in Nat /\ IsFiniteSet(S \ {0}) /\ c \in Nat
  BY IdsFinite, TimeAssumption
<1>2. Cost(S) = c * s + (IF 0 \in S THEN Telemetry ELSE 0)
  BY DEF Cost
<1>3. CASE k = 0
  <2>1. (S \cup {k}) \ {0} = S \ {0}
    BY <1>3
  <2>2. Cost(S \cup {k}) = c * s + Telemetry
    BY <1>3, <2>1 DEF Cost
  <2> HIDE DEF c, s
  <2>3. c * s \in Nat
    BY <1>1
  <2> QED BY <1>2, <1>3, <2>2, <2>3 DEF One
<1>4. CASE k # 0
  <2>1. (S \cup {k}) \ {0} = (S \ {0}) \cup {k} /\ k \notin S \ {0}
    BY <1>4
  <2>2. Cardinality((S \cup {k}) \ {0}) = s + 1
    BY <1>1, <2>1, FS_AddElement
  <2>3. Cost(S \cup {k}) = c * (s + 1) + (IF 0 \in S THEN Telemetry ELSE 0)
    BY <1>4, <2>2 DEF Cost
  <2>4. One(k) = c
    BY <1>4 DEF One
  <2> HIDE DEF c, s
  <2>5. c * (s + 1) = c * s + c /\ c * s \in Nat
    BY <1>1, Scaled
  <2> QED BY <1>1, <1>2, <2>3, <2>4, <2>5
<1> QED BY <1>3, <1>4

\* The others' time is what all the others cost.
LEMMA CostOfOthers ==
  ASSUME Telemetry \in Nat, NEW i \in Ids
  PROVE  /\ OthersTime(i) = Cost(Ids \ {i}) /\ OthersTime(i) \in Nat
         /\ \A S \in SUBSET (Ids \ {i}) : Cost(S) <= OthersTime(i)
<1>1. Ids \ {0} = 1..MaxTimers /\ MaxTimers \in Nat \ {0} /\ 0 \in Ids
  BY SchedulerBounds DEF Ids
<1>2. Cardinality(Ids \ {0}) = MaxTimers /\ IsFiniteSet(Ids \ {0})
  <2>1. 1 \in Int /\ MaxTimers \in Int
    BY <1>1
  <2>2. IsFiniteSet(1..MaxTimers) /\ Cardinality(1..MaxTimers) = MaxTimers
    BY <1>1, <2>1, FS_Interval
  <2> QED BY <1>1, <2>2
<1>3. Limit \in Nat
  BY TimeAssumption
<1>4. OthersTime(i) = Cost(Ids \ {i})
  <2>1. CASE i = 0
    <3>1. (Ids \ {i}) \ {0} = Ids \ {0}
      BY <2>1
    <3>2. 0 \notin Ids \ {i} /\ Cardinality((Ids \ {i}) \ {0}) = MaxTimers
      BY <1>2, <2>1, <3>1
    <3>3. Cost(Ids \ {i}) = 2 * Limit * MaxTimers + 0
      BY <3>2 DEF Cost
    <3> QED BY <1>1, <1>3, <2>1, <3>3 DEF OthersTime
  <2>2. CASE i # 0
    <3>1. (Ids \ {i}) \ {0} = (Ids \ {0}) \ {i} /\ i \in Ids \ {0}
      BY <2>2
    <3>2. Cardinality((Ids \ {i}) \ {0}) = MaxTimers - 1
      BY <1>2, <3>1, FS_RemoveElement
    <3>3. Cost(Ids \ {i}) = 2 * Limit * (MaxTimers - 1) + Telemetry
      BY <1>1, <2>2, <3>2 DEF Cost
    <3> QED BY <1>1, <1>3, <2>2, <3>3 DEF OthersTime
  <2> QED BY <2>1, <2>2
<1>5. Ids \ {i} \in SUBSET Ids
  OBVIOUS
<1> QED BY <1>4, <1>5, CostIsMore

-----------------------------------------------------------------------------
\* What the operators are.

LEMMA TypesAre ==
  ASSUME TypeInv
  PROVE  /\ clock \in Nat /\ Limit \in Nat /\ Limit > 0
         /\ \A k \in Ids : timers[k] # None => timers[k] \in TimerRecs /\ timers[k].left \in Int
         /\ \A k \in pass : k.id \in Ids /\ k.left \in Int /\ k.name \in Names \cup {Hourly}
         /\ call # None => /\ call \in CallRecs /\ call.id \in Ids
                           /\ call.name \in Names \cup {Hourly} /\ call.queued \in BOOLEAN
         /\ InPass \in SUBSET Ids
<1>1. /\ \A k \in Ids : timers[k] # None => timers[k] \in TimerRecs
      /\ call # None => call \in CallRecs
      /\ pass \subseteq [id : Ids, name : Names \cup {Hourly}, left : Int]
      /\ clock \in Nat
  BY DEF TypeInv, TypeOK
<1>2. \A t \in TimerRecs : t.left \in Int
  BY DEF TimerRecs
<1>3. \A c \in CallRecs : c.id \in Ids /\ c.name \in Names \cup {Hourly} /\ c.queued \in BOOLEAN
  BY DEF CallRecs
<1>4. \A k \in pass : k.id \in Ids /\ k.left \in Int /\ k.name \in Names \cup {Hourly}
  BY <1>1
<1>5. InPass \in SUBSET Ids
  BY <1>4 DEF InPass
<1>6. Limit \in Nat /\ Limit > 0
  BY TimeAssumption
<1> QED BY <1>1, <1>2, <1>3, <1>4, <1>5, <1>6

LEMMA RestIs ==
  ASSUME TypeInv
  PROVE  Rest \in Nat /\ \A i \in Ids : Pause(i) \in Nat
BY TypesAre DEF Rest, Pause

LEMMA AheadIs ==
  ASSUME TypeInv, PassInv, NEW i \in Ids
  PROVE  /\ Ahead(i) \in SUBSET (Ids \ {i})
         /\ call # None => call.id \notin Ahead(i)
<1>1. CASE i \in InPass
  <2>1. Ahead(i) \subseteq InPass \ {i}
    BY <1>1 DEF Ahead, InPass
  <2> QED BY <2>1, TypesAre DEF PassInv
<1>2. CASE i \notin InPass
  <2>1. Ahead(i) \subseteq InPass \cup {k \in Ids \ {i} : ~ Running(k)}
    BY <1>2 DEF Ahead
  <2> QED BY <1>2, <2>1, TypesAre DEF PassInv, Running
<1> QED BY <1>1, <1>2

\* An event that still waits and has no more before it than before.
LEMMA StaysInTime ==
  ASSUME TypeInv, PassInv, Telemetry \in Nat, NEW i \in Ids, InTime(i), timers[i] # None,
         timers'[i].left = timers[i].left, Ahead(i)' \subseteq Ahead(i),
         Rest' \in Nat, Pause(i)' \in Nat, Rest' + Pause(i)' <= Rest + Pause(i)
  PROVE  InTime(i)'
<1>1. /\ Rest \in Nat /\ Pause(i) \in Nat /\ timers[i].left \in Int
      /\ Ahead(i) \in SUBSET Ids
  BY RestIs, TypesAre, AheadIs
<1>2. Cost(Ahead(i)') \in Nat /\ Cost(Ahead(i)) \in Nat /\ Cost(Ahead(i)') <= Cost(Ahead(i))
  BY <1>1, CostIsMore
<1>3. OthersTime(i) \in Nat
  BY CostOfOthers
<1>4. timers[i].left >= Cost(Ahead(i)) + Rest + Pause(i) - OthersTime(i)
  BY DEF InTime
<1>5. timers'[i].left >= Cost(Ahead(i)') + Rest' + Pause(i)' - OthersTime(i)
  BY <1>1, <1>2, <1>3, <1>4
<1> QED BY <1>5 DEF InTime

-----------------------------------------------------------------------------
\* Requests and the main thread: timers come, not yet due, and go.

Rewrites ==
  /\ pass' = pass /\ at' = at /\ clock' = clock
  /\ call = None => call' = None
  /\ call # None => call' # None /\ call'.id = call.id /\ call'.queued = call.queued
  /\ \A k \in Ids :
       \/ timers'[k] = timers[k]
       \/ k # 0 /\ timers'[k] = None
       \/ /\ k # 0 /\ Free(k)
          /\ timers'[k] # None /\ timers'[k].name # Hourly
          /\ timers'[k].left \in Nat /\ timers'[k].left > 0

LEMMA RewriteTurn ==
  ASSUME TypeInv, TurnInv, Rewrites
  PROVE  TurnInv'
<1>1. ClockInv'
  BY DEF TurnInv, ClockInv, Rewrites
<1>2. InPass' = InPass
  BY DEF InPass, Rewrites
<1>3. 0 \in Ids
  BY IdsFinite
<1>4. timers'[0] # None
  BY <1>3 DEF TurnInv, PassInv, Rewrites
<1>5. \A i \in Ids : timers'[i] # None => (timers'[i].name = Hourly <=> i = 0)
  BY DEF TurnInv, PassInv, Rewrites
<1>6. \A k \in pass : timers'[k.id] # None => timers'[k.id].left <= 0
  BY TypesAre DEF TurnInv, PassInv, Rewrites, Free
<1>7. PassInv'
  BY <1>2, <1>4, <1>5, <1>6 DEF TurnInv, PassInv, Rewrites
<1> QED BY <1>1, <1>7 DEF TurnInv

LEMMA RewriteDue ==
  ASSUME TypeInv, TurnInv, DueInv, Telemetry \in Nat, Rewrites
  PROVE  DueInv'
<1> SUFFICES ASSUME NEW i \in Ids, Due(i)' PROVE InTime(i)'
  BY DEF DueInv
<1>1. InPass' = InPass /\ \A k : Running(k)' <=> Running(k)
  BY DEF InPass, Running, Rewrites
<1>2. timers'[i] # None /\ timers'[i].left <= 0 /\ ~ Running(i)
  BY <1>1 DEF Due
<1>3. timers'[i] = timers[i]
  BY <1>2 DEF Rewrites
<1>4. Due(i) /\ InTime(i)
  BY <1>2, <1>3 DEF Due, DueInv
<1>5. timers[i].left \in Int
  BY <1>2, <1>3, TypesAre
<1>6. Ahead(i)' \subseteq Ahead(i)
  <2>1. CASE i \in InPass
    BY <1>1, <2>1 DEF Ahead, Rewrites
  <2>2. CASE i \notin InPass
    <3>1. ASSUME NEW k \in Ids, timers'[k] # None, timers'[k].left <= timers'[i].left
          PROVE  timers'[k] = timers[k]
      BY <1>2, <1>3, <1>5, <3>1 DEF Rewrites
    <3>2. Ahead(i)' = InPass \cup {k \in Ids \ {i} : /\ timers'[k] # None /\ ~ Running(k)
                                                   /\ timers'[k].left <= timers'[i].left}
      BY <1>1, <2>2 DEF Ahead
    <3>3. Ahead(i) = InPass \cup {k \in Ids \ {i} : /\ timers[k] # None /\ ~ Running(k)
                                                  /\ timers[k].left <= timers[i].left}
      BY <2>2 DEF Ahead
    <3> QED BY <1>3, <3>1, <3>2, <3>3
  <2> QED BY <2>1, <2>2
<1>7. Pause(i)' = Pause(i)
  BY <1>1 DEF Pause, Rewrites
<1>8. Rest' = Rest
  BY DEF Rest, Rewrites, TurnInv, PassInv, Busy
<1>9. Rest \in Nat /\ Pause(i) \in Nat
  BY RestIs
<1> QED BY <1>2, <1>3, <1>4, <1>6, <1>7, <1>8, <1>9, StaysInTime DEF TurnInv

-----------------------------------------------------------------------------
\* Steps that leave the timers and the events before one.

LEMMA SameAhead ==
  ASSUME timers' = timers, pass' = pass, call' = None <=> call = None,
         call # None => call'.id = call.id, NEW i \in Ids
  PROVE  Ahead(i)' = Ahead(i) /\ (Due(i)' <=> Due(i)) /\ InPass' = InPass
<1>1. InPass' = InPass /\ \A k : Running(k)' <=> Running(k)
  BY DEF InPass, Running
<1>2. Due(i)' <=> Due(i)
  BY <1>1 DEF Due
<1>3. {k \in Ids \ {i} : timers[k] # None /\ ~ Running(k)' /\ timers[k].left <= timers[i].left}
      = {k \in Ids \ {i} : timers[k] # None /\ ~ Running(k) /\ timers[k].left <= timers[i].left}
  BY <1>1
<1>4. Ahead(i)' = Ahead(i)
  BY <1>1, <1>3 DEF Ahead
<1> QED BY <1>1, <1>2, <1>4

\* What the thread does between its events: it wakes, reads, or is cancelled
\* in its sleep.
Turns ==
  /\ timers' = timers /\ pass' = pass /\ call' = call /\ call = None
  /\ \/ at = "sleep" /\ at' \in {"run", "dead"} /\ clock' = 0
     \/ at = "pass" /\ pass = {} /\ at' \in {"run", "dead"} /\ clock' = 0
     \/ at = "pass" /\ pass = {} /\ at' = "sleep" /\ clock' = 1

LEMMA TurnsKeeps ==
  ASSUME TypeInv, TurnInv, DueInv, Telemetry \in Nat, Turns
  PROVE  TurnInv' /\ DueInv'
<1>1. timers' = timers /\ pass' = pass /\ call' = None /\ call = None /\ pass = {}
      /\ at' \notin Busy
  BY DEF Turns, TurnInv, PassInv, Busy
<1>2. ClockInv'
  BY DEF Turns, ClockInv
<1>3. InPass' = InPass /\ InPass = {}
  BY <1>1 DEF InPass
<1>4. PassInv'
  BY <1>1, <1>3 DEF TurnInv, PassInv, Turns
<1>5. ASSUME NEW i \in Ids, Due(i)' PROVE InTime(i)'
  <2>1. Ahead(i)' = Ahead(i) /\ Due(i)
    BY <1>1, <1>5, SameAhead
  <2>2. InTime(i) /\ timers[i] # None
    BY <2>1 DEF DueInv, Due
  <2>3. Rest' = 0 /\ Rest = 0
    BY DEF Turns, Rest
  <2>4. Pause(i)' \in Nat /\ Pause(i)' <= Pause(i)
    <3>1. i \notin InPass /\ i \notin InPass'
      BY <1>3
    <3>2. CASE at = "sleep"
      <4>1. Pause(i)' = 0 /\ Pause(i) = clock
        BY <3>1, <3>2 DEF Turns, Pause, Busy
      <4> QED BY <4>1, TypesAre
    <3>3. CASE at = "pass"
      <4>1. Pause(i) = 1 /\ Pause(i)' \in {0, 1}
        BY <3>1, <3>3 DEF Turns, Pause, Busy
      <4> QED BY <4>1
    <3> QED BY <3>2, <3>3 DEF Turns
  <2>5. Pause(i) \in Nat
    BY RestIs
  <2> QED BY <1>1, <2>1, <2>2, <2>3, <2>4, <2>5, StaysInTime DEF TurnInv
<1> QED BY <1>2, <1>4, <1>5 DEF TurnInv, DueInv

\* An event that is sent, or connects: two limits at most are left.
Talks ==
  /\ timers' = timers /\ pass' = pass /\ call # None /\ call' # None
  /\ call'.id = call.id /\ call'.queued \in BOOLEAN
  /\ at' = "post" /\ clock' = Limit
  /\ \/ at = "send"
     \/ at = "post" /\ ~ call.queued /\ call'.queued

LEMMA TalksKeeps ==
  ASSUME TypeInv, TurnInv, DueInv, Telemetry \in Nat, Talks
  PROVE  TurnInv' /\ DueInv'
<1>1. /\ timers' = timers /\ pass' = pass /\ call' # None /\ call # None
      /\ call'.id = call.id /\ at' = "post" /\ at \in {"send", "post"}
  BY DEF Talks
<1>2. ClockInv'
  BY TypesAre DEF Talks, ClockInv
<1>3. InPass' = InPass
  BY <1>1 DEF InPass
<1>4. PassInv'
  BY <1>1, <1>3 DEF TurnInv, PassInv, Busy
<1>5. ASSUME NEW i \in Ids, Due(i)' PROVE InTime(i)'
  <2>1. Ahead(i)' = Ahead(i) /\ Due(i)
    BY <1>1, <1>5, SameAhead
  <2>2. InTime(i) /\ timers[i] # None
    BY <2>1 DEF DueInv, Due
  <2>3. Rest' \in Nat /\ Rest' <= Rest
    BY TypesAre DEF Talks, Rest
  <2>4. Pause(i)' = Pause(i)
    BY <1>1, <1>3 DEF Pause, Busy
  <2>5. Pause(i) \in Nat /\ Rest \in Nat
    BY RestIs
  <2> QED BY <1>1, <2>1, <2>2, <2>3, <2>4, <2>5, StaysInTime DEF TurnInv
<1> QED BY <1>2, <1>4, <1>5 DEF TurnInv, DueInv

-----------------------------------------------------------------------------
\* The end of an event: its timer starts again.

LEMMA DoneIs ==
  ASSUME TypeInv, NEW i \in Ids, Done(i)
  PROVE  /\ \A k \in Ids : k # i => timers'[k] = timers[k]
         /\ timers[i] = None <=> timers'[i] = None
         /\ timers[i] # None => /\ timers'[i].name = timers[i].name
                                /\ timers'[i].left \in Nat /\ timers'[i].left > 0
         /\ at' = "pass" /\ call' = None /\ clock' = 0
<1>1. timers \in [Ids -> TimerRecs \cup {None}]
  BY DEF TypeInv, TypeOK
<1>2. CASE timers[i] = None
  BY <1>1, <1>2 DEF Done
<1>3. CASE timers[i] # None
  <2> DEFINE r == [timers[i] EXCEPT !.left = Period[timers[i].name]]
  <2>1. timers[i] \in TimerRecs
    BY <1>1, <1>3
  <2>2. r \in TimerRecs /\ r.name = timers[i].name /\ r.left \in Nat /\ r.left > 0
    BY <2>1, PeriodAssumption DEF TimerRecs
  <2>3. r # None
    BY <2>2, NoneAssumption
  <2>4. timers' = [timers EXCEPT ![i] = r]
    BY <1>3 DEF Done
  <2> HIDE DEF r
  <2> QED BY <1>1, <1>3, <2>2, <2>3, <2>4 DEF Done
<1> QED BY <1>2, <1>3

LEMMA EndKeeps ==
  ASSUME TypeInv, TurnInv, DueInv, Telemetry \in Nat, call # None, Done(call.id), pass' = pass
  PROVE  TurnInv' /\ DueInv'
<1> DEFINE c == call.id
<1>1. c \in Ids /\ at \in Busy /\ c \notin InPass
  BY TypesAre DEF TurnInv, PassInv
<1>2. /\ \A k \in Ids : k # c => timers'[k] = timers[k]
      /\ timers[c] = None <=> timers'[c] = None
      /\ timers[c] # None => /\ timers'[c].name = timers[c].name
                             /\ timers'[c].left \in Nat /\ timers'[c].left > 0
      /\ at' = "pass" /\ call' = None /\ clock' = 0
  BY <1>1, DoneIs
<1>3. \A k : Running(k) <=> k = c
  BY DEF Running
<1> HIDE DEF c
<1>4. InPass' = InPass /\ \A k : ~ Running(k)'
  BY <1>2 DEF InPass, Running
<1>5. ClockInv'
  BY <1>2 DEF ClockInv
<1>6. PassInv'
  <2>1. timers'[0] # None /\ \A i \in Ids : timers'[i] # None => (timers'[i].name = Hourly <=> i = 0)
    BY <1>2, IdsFinite DEF TurnInv, PassInv
  <2>2. \A k \in pass : k.id \in Ids /\ k.id # c
    BY <1>1, TypesAre DEF InPass
  <2>3. \A k \in pass : timers'[k.id] # None => timers'[k.id].left <= 0
    BY <1>2, <2>2 DEF TurnInv, PassInv
  <2> QED BY <1>2, <2>1, <2>3 DEF TurnInv, PassInv, Busy
<1>7. ASSUME NEW i \in Ids, Due(i)' PROVE InTime(i)'
  <2>1. i # c /\ timers'[i] = timers[i]
    BY <1>2, <1>7 DEF Due
  <2>2. Due(i) /\ InTime(i) /\ timers[i] # None
    BY <1>3, <1>7, <2>1 DEF DueInv, Due
  <2>3. Ahead(i)' \subseteq Ahead(i)
    <3>1. CASE i \in InPass
      BY <1>4, <3>1 DEF Ahead
    <3>2. CASE i \notin InPass
      <4>1. timers[i].left \in Int /\ timers[i].left <= 0
        BY <2>2, TypesAre DEF Due
      <4>2. ASSUME NEW k \in Ids, timers'[k] # None, timers'[k].left <= timers[i].left
            PROVE  k # c /\ timers'[k] = timers[k]
        BY <1>2, <4>1, <4>2
      <4>3. Ahead(i)' = InPass \cup {k \in Ids \ {i} : timers'[k] # None /\ timers'[k].left <= timers[i].left}
        BY <1>4, <2>1, <3>2 DEF Ahead
      <4>4. Ahead(i) = InPass \cup {k \in Ids \ {i} : /\ timers[k] # None /\ k # c
                                                    /\ timers[k].left <= timers[i].left}
        BY <1>3, <3>2 DEF Ahead
      <4> QED BY <4>2, <4>3, <4>4
    <3> QED BY <3>1, <3>2
  <2>4. Rest' = 0
    BY <1>2 DEF Rest
  <2>5. Pause(i)' = Pause(i)
    BY <1>1, <1>2, <1>4 DEF Pause, Busy
  <2>6. Pause(i) \in Nat /\ Rest \in Nat
    BY RestIs
  <2> QED BY <2>1, <2>2, <2>3, <2>4, <2>5, <2>6, StaysInTime DEF TurnInv
<1> QED BY <1>5, <1>6, <1>7 DEF TurnInv, DueInv

-----------------------------------------------------------------------------
\* The list of due events, and the next of them.

LEMMA ListKeeps ==
  ASSUME TypeInv, TurnInv, DueInv, Telemetry \in Nat, RunPending
  PROVE  TurnInv' /\ DueInv'
<1>1. /\ at = "run" /\ at' = "pass" /\ call = None /\ call' = None /\ timers' = timers
      /\ pass = {} /\ clock' = clock /\ clock = 0
  BY DEF RunPending, TurnInv, PassInv, ClockInv, Busy
<1>2. \A k \in pass' : /\ k.id \in Ids /\ timers[k.id] # None /\ timers[k.id].left <= 0
                       /\ k.left = timers[k.id].left /\ k.name = timers[k.id].name
  BY DEF RunPending
<1>3. ASSUME NEW j \in pass', NEW k \in pass', j.id = k.id PROVE j = k
  BY <1>3 DEF RunPending
<1>4. \A i \in Ids : timers[i] # None /\ timers[i].left <= 0 =>
        \E k \in pass' : k.id = i
  <2> SUFFICES ASSUME NEW i \in Ids, timers[i] # None, timers[i].left <= 0
               PROVE  \E k \in pass' : k.id = i
    OBVIOUS
  <2>1. [id |-> i, name |-> timers[i].name, left |-> timers[i].left] \in pass'
    BY DEF RunPending
  <2> QED BY <2>1
<1>5. ClockInv'
  BY <1>1 DEF ClockInv
<1>6. PassInv'
  BY <1>1, <1>2, <1>3 DEF TurnInv, PassInv, Busy
<1>7. InPass = {} /\ \A k : ~ Running(k) /\ ~ Running(k)'
  BY <1>1 DEF InPass, Running
<1>8. ASSUME NEW i \in Ids, Due(i)' PROVE InTime(i)'
  <2>1. Due(i) /\ InTime(i) /\ timers[i] # None /\ timers[i].left <= 0
    BY <1>1, <1>7, <1>8 DEF DueInv, Due
  <2>2. i \in InPass'
    BY <1>4, <2>1 DEF InPass
  <2>3. Ahead(i)' \subseteq Ahead(i)
    <3>1. Ahead(i)' = {k.id : k \in {k \in pass' : \E j \in pass' : j.id = i /\ k.left <= j.left}} \ {i}
      BY <2>2 DEF Ahead
    <3>2. Ahead(i) = {k \in Ids \ {i} : timers[k] # None /\ timers[k].left <= timers[i].left}
      BY <1>7 DEF Ahead
    <3> QED BY <1>2, <3>1, <3>2
  <2>4. Rest' = 0 /\ Rest = 0 /\ Pause(i)' = 0
    BY <1>1, <2>2 DEF Rest, Pause
  <2>5. Pause(i) \in Nat
    BY RestIs
  <2> QED BY <1>1, <2>1, <2>3, <2>4, <2>5, StaysInTime DEF TurnInv
<1> QED BY <1>5, <1>6, <1>8 DEF TurnInv, DueInv

\* An event leaves the pass.
LEMMA LeavesPass ==
  ASSUME TypeInv, PassInv, NEW j \in pass, pass' = pass \ {j}
  PROVE  InPass' = InPass \ {j.id} /\ j.id \in InPass /\ j.id \in Ids
<1>1. \A k \in pass : k.id = j.id => k = j
  BY DEF PassInv
<1>2. InPass' = InPass \ {j.id}
  BY <1>1 DEF InPass
<1> QED BY <1>2, TypesAre DEF InPass

\* The next event is over at once: its entry, or the configuration, is gone.
LEMMA SkipKeeps ==
  ASSUME TypeInv, TurnInv, DueInv, Telemetry \in Nat, at = "pass",
         NEW j \in pass, pass' = pass \ {j}, Done(j.id)
  PROVE  TurnInv' /\ DueInv'
<1> DEFINE c == j.id
<1>1. c \in Ids /\ call = None /\ c \in InPass /\ InPass' = InPass \ {c}
  BY LeavesPass DEF TurnInv, PassInv, Busy
<1>2. /\ \A k \in Ids : k # c => timers'[k] = timers[k]
      /\ timers[c] = None <=> timers'[c] = None
      /\ timers[c] # None => /\ timers'[c].name = timers[c].name
                             /\ timers'[c].left \in Nat /\ timers'[c].left > 0
      /\ at' = "pass" /\ call' = None /\ clock' = 0
  BY <1>1, DoneIs
<1>3. \A k : ~ Running(k) /\ ~ Running(k)'
  BY <1>1, <1>2 DEF Running
<1>4. \A k \in pass' : k \in pass /\ k.id \in Ids /\ k.id # c
  <2>1. \A k \in pass : k.id = j.id => k = j
    BY DEF TurnInv, PassInv
  <2> QED BY <2>1, TypesAre
<1> HIDE DEF c
<1>5. ClockInv'
  BY <1>2 DEF ClockInv
<1>6. PassInv'
  <2>1. timers'[0] # None /\ \A i \in Ids : timers'[i] # None => (timers'[i].name = Hourly <=> i = 0)
    BY <1>2, IdsFinite DEF TurnInv, PassInv
  <2>2. \A k \in pass' : timers'[k.id] # None => timers'[k.id].left <= 0
    BY <1>2, <1>4 DEF TurnInv, PassInv
  <2> QED BY <1>2, <1>4, <2>1, <2>2 DEF TurnInv, PassInv, Busy
<1>7. ASSUME NEW i \in Ids, Due(i)' PROVE InTime(i)'
  <2>1. i # c /\ timers'[i] = timers[i]
    BY <1>2, <1>7 DEF Due
  <2>2. Due(i) /\ InTime(i) /\ timers[i] # None
    BY <1>3, <1>7, <2>1 DEF DueInv, Due
  <2>3. Ahead(i)' \subseteq Ahead(i)
    <3>1. CASE i \in InPass
      <4>1. i \in InPass'
        BY <1>1, <2>1, <3>1
      <4> QED BY <1>4, <3>1, <4>1 DEF Ahead
    <3>2. CASE i \notin InPass
      <4>1. timers[i].left \in Int /\ timers[i].left <= 0 /\ i \notin InPass'
        BY <1>1, <2>2, <3>2, TypesAre DEF Due
      <4>2. ASSUME NEW k \in Ids, timers'[k] # None, timers'[k].left <= timers[i].left
            PROVE  k # c /\ timers'[k] = timers[k]
        BY <1>2, <4>1, <4>2
      <4>3. Ahead(i)' = InPass' \cup {k \in Ids \ {i} : timers'[k] # None /\ timers'[k].left <= timers[i].left}
        BY <1>3, <2>1, <4>1 DEF Ahead
      <4>4. Ahead(i) = InPass \cup {k \in Ids \ {i} : timers[k] # None /\ timers[k].left <= timers[i].left}
        BY <1>3, <3>2 DEF Ahead
      <4> QED BY <1>1, <4>2, <4>3, <4>4
    <3> QED BY <3>1, <3>2
  <2>4. Rest' = 0 /\ Rest = 0
    BY <1>2 DEF Rest
  <2>5. Pause(i)' = Pause(i)
    BY <1>1, <1>2, <2>1 DEF Pause
  <2>6. Pause(i) \in Nat
    BY RestIs
  <2> QED BY <2>1, <2>2, <2>3, <2>4, <2>5, <2>6, StaysInTime DEF TurnInv
<1> QED BY <1>5, <1>6, <1>7 DEF TurnInv, DueInv

\* The next event runs: what it may take was reckoned for those behind it.
LEMMA RunKeeps ==
  ASSUME TypeInv, TurnInv, DueInv, Telemetry \in Nat, at = "pass",
         NEW j \in pass, \A k \in pass : j.left <= k.left, pass' = pass \ {j},
         timers' = timers, call' # None, call'.id = j.id, clock' \in Nat,
         \/ at' = "send" /\ j.id # 0 /\ clock' = 0
         \/ at' = "metrics" /\ j.id = 0 /\ clock' = Telemetry
  PROVE  TurnInv' /\ DueInv'
<1> DEFINE c == j.id
<1>1. c \in Ids /\ call = None /\ c \in InPass /\ InPass' = InPass \ {c}
  BY LeavesPass DEF TurnInv, PassInv, Busy
<1>2. ClockInv'
  BY DEF ClockInv
<1>3. PassInv'
  BY <1>1 DEF TurnInv, PassInv, Busy
<1>4. \A k : ~ Running(k) /\ (Running(k)' <=> k = c)
  BY <1>1 DEF Running
<1>5. Rest' \in Nat /\ Rest' <= One(c) /\ Rest = 0
  BY TypesAre DEF Rest, One
<1>6. ASSUME NEW i \in Ids, Due(i)' PROVE InTime(i)'
  <2>1. i # c
    BY <1>4, <1>6 DEF Due
  <2>2. Due(i) /\ InTime(i) /\ timers[i] # None /\ timers[i].left \in Int
    BY <1>4, <1>6, TypesAre DEF DueInv, Due
  <2>3. c \in Ahead(i) /\ Ahead(i)' \subseteq Ahead(i) \ {c}
    <3>1. CASE i \in InPass
      <4>1. PICK k \in pass : k.id = i
        BY <3>1 DEF InPass
      <4>2. i \in InPass' /\ j.left <= k.left
        BY <1>1, <2>1, <3>1, <4>1
      <4>3. c \in Ahead(i)
        BY <2>1, <3>1, <4>1, <4>2 DEF Ahead
      <4>4. Ahead(i)' \subseteq Ahead(i)
        BY <3>1, <4>2 DEF Ahead
      <4>5. Ahead(i)' \subseteq InPass'
        BY <4>2 DEF Ahead, InPass
      <4> QED BY <1>1, <4>3, <4>4, <4>5
    <3>2. CASE i \notin InPass
      <4>1. Ahead(i)' = InPass' \cup {k \in Ids \ {i} : /\ timers[k] # None /\ k # c
                                                       /\ timers[k].left <= timers[i].left}
        BY <1>1, <1>4, <3>2 DEF Ahead
      <4>2. Ahead(i) = InPass \cup {k \in Ids \ {i} : /\ timers[k] # None
                                                     /\ timers[k].left <= timers[i].left}
        BY <1>4, <3>2 DEF Ahead
      <4> QED BY <1>1, <4>1, <4>2
    <3> QED BY <3>1, <3>2
  <2>4. Ahead(i) \in SUBSET Ids /\ Ahead(i)' \in SUBSET Ids
    BY <2>3, AheadIs DEF TurnInv
  <2>5. /\ Cost(Ahead(i)' \cup {c}) = Cost(Ahead(i)') + One(c) /\ One(c) \in Nat
        /\ Cost(Ahead(i)') \in Nat
    BY <1>1, <2>3, <2>4, CostOfOneMore, CostIsMore
  <2>6. Cost(Ahead(i)' \cup {c}) <= Cost(Ahead(i)) /\ Cost(Ahead(i)) \in Nat
    <3>1. Ahead(i)' \cup {c} \in SUBSET Ahead(i)
      BY <2>3
    <3> QED BY <2>4, <3>1, CostIsMore
  <2>7. Pause(i)' = Pause(i) /\ Pause(i) \in Nat
    BY <1>1, <2>1, RestIs DEF Pause, Busy
  <2>8. OthersTime(i) \in Nat
    BY CostOfOthers
  <2>9. timers[i].left >= Cost(Ahead(i)) + Rest + Pause(i) - OthersTime(i)
    BY <2>2 DEF InTime
  <2>10. timers[i].left >= Cost(Ahead(i)') + Rest' + Pause(i)' - OthersTime(i)
    BY <1>5, <2>2, <2>5, <2>6, <2>7, <2>8, <2>9
  <2> QED BY <2>10 DEF InTime
<1> QED BY <1>2, <1>3, <1>6 DEF TurnInv, DueInv

-----------------------------------------------------------------------------
\* A second passes.

LEMMA TickIs ==
  ASSUME TypeInv, Tick
  PROVE  /\ clock > 0 /\ clock' = clock - 1 /\ clock' \in Nat
         /\ pass' = pass /\ at' = at /\ call' = call
         /\ \A k \in Ids : timers'[k] = None <=> timers[k] = None
         /\ \A k \in Ids : timers[k] # None => /\ timers'[k].left = timers[k].left - 1
                                               /\ timers'[k].name = timers[k].name
<1>1. ASSUME NEW k \in Ids, timers[k] # None
      PROVE  /\ timers'[k] # None /\ timers'[k].left = timers[k].left - 1
             /\ timers'[k].name = timers[k].name
  <2> DEFINE r == [timers[k] EXCEPT !.left = @ - 1]
  <2>1. timers[k] \in TimerRecs
    BY <1>1, TypesAre
  <2>2. r \in TimerRecs /\ r.left = timers[k].left - 1 /\ r.name = timers[k].name
    BY <2>1 DEF TimerRecs
  <2>3. r # None
    BY <2>2, NoneAssumption
  <2>4. timers'[k] = r
    BY <1>1 DEF Tick
  <2> HIDE DEF r
  <2> QED BY <2>2, <2>3, <2>4
<1>2. ASSUME NEW k \in Ids, timers[k] = None PROVE timers'[k] = None
  BY <1>2 DEF Tick
<1>3. clock > 0 /\ clock' = clock - 1 /\ pass' = pass /\ at' = at /\ call' = call
  BY DEF Tick
<1>4. clock' \in Nat
  BY <1>3, TypesAre
<1> QED BY <1>1, <1>2, <1>3, <1>4

\* The thread sleeps or waits, and has a second less to.
LEMMA TickKeeps ==
  ASSUME TypeInv, TurnInv, DueInv, Telemetry \in Nat, Tick
  PROVE  TurnInv' /\ DueInv'
<1>1. /\ clock > 0 /\ clock' = clock - 1 /\ clock \in Nat
      /\ pass' = pass /\ at' = at /\ call' = call
      /\ \A k \in Ids : timers'[k] = None <=> timers[k] = None
      /\ \A k \in Ids : timers[k] # None => /\ timers'[k].left = timers[k].left - 1
                                            /\ timers'[k].name = timers[k].name
  BY TickIs, TypesAre
<1>2. at \in {"sleep", "post", "metrics"}
  <2>1. at \in {"sleep", "run", "pass", "send", "post", "metrics", "dead"}
    BY DEF TypeInv, TypeOK
  <2> QED BY <1>1, <2>1 DEF TurnInv, ClockInv
<1>3. ClockInv'
  BY <1>1, TypesAre DEF TurnInv, ClockInv
<1>4. InPass' = InPass /\ \A k : Running(k)' <=> Running(k)
  BY <1>1 DEF InPass, Running
<1>5. PassInv'
  <2>1. timers'[0] # None /\ \A i \in Ids : timers'[i] # None => (timers'[i].name = Hourly <=> i = 0)
    BY <1>1, IdsFinite DEF TurnInv, PassInv
  <2>2. \A k \in pass : timers'[k.id] # None => timers'[k.id].left <= 0
    <3> SUFFICES ASSUME NEW k \in pass, timers'[k.id] # None PROVE timers'[k.id].left <= 0
      OBVIOUS
    <3>1. k.id \in Ids /\ timers[k.id] # None /\ timers[k.id].left \in Int
      BY <1>1, TypesAre
    <3>2. timers[k.id].left <= 0
      BY <3>1 DEF TurnInv, PassInv
    <3> QED BY <1>1, <3>1, <3>2
  <2> QED BY <1>1, <1>4, <2>1, <2>2 DEF TurnInv, PassInv
<1>6. ASSUME NEW i \in Ids, Due(i)' PROVE InTime(i)'
  <2>1. /\ timers[i] # None /\ timers[i].left \in Int /\ ~ Running(i)
        /\ timers'[i].left = timers[i].left - 1 /\ timers[i].left <= 1
    <3>1. timers[i] # None /\ ~ Running(i) /\ timers'[i].left <= 0
      BY <1>1, <1>4, <1>6 DEF Due
    <3>2. timers[i].left \in Int
      BY <3>1, TypesAre
    <3> QED BY <1>1, <3>1, <3>2
  <2>2. Ahead(i)' = Ahead(i)
    <3>1. CASE i \in InPass
      BY <1>1, <1>4, <3>1 DEF Ahead
    <3>2. CASE i \notin InPass
      <4>1. ASSUME NEW k \in Ids, timers[k] # None
            PROVE  timers'[k].left <= timers'[i].left <=> timers[k].left <= timers[i].left
        BY <1>1, <2>1, <4>1, TypesAre
      <4>2. Ahead(i)' = InPass \cup {k \in Ids \ {i} : /\ timers[k] # None /\ ~ Running(k)
                                                      /\ timers'[k].left <= timers'[i].left}
        BY <1>1, <1>4, <3>2 DEF Ahead
      <4>3. Ahead(i) = InPass \cup {k \in Ids \ {i} : /\ timers[k] # None /\ ~ Running(k)
                                                     /\ timers[k].left <= timers[i].left}
        BY <3>2 DEF Ahead
      <4> QED BY <4>1, <4>2, <4>3
    <3> QED BY <3>1, <3>2
  <2>3. /\ Ahead(i) \in SUBSET (Ids \ {i}) /\ Cost(Ahead(i)) \in Nat
        /\ OthersTime(i) \in Nat /\ Cost(Ahead(i)) <= OthersTime(i)
    <3>1. Ahead(i) \in SUBSET (Ids \ {i})
      BY AheadIs DEF TurnInv
    <3>2. Cost(Ahead(i)) \in Nat
      BY <3>1, CostIsMore
    <3> QED BY <3>1, <3>2, CostOfOthers
  <2>4. Rest \in Nat /\ Pause(i) \in Nat
    BY RestIs
  <2>5. at = "sleep" => i \notin InPass
    BY DEF TurnInv, PassInv, InPass
  <2>6. Rest' + Pause(i)' = Rest + Pause(i) - 1 /\ Rest' \in Nat /\ Pause(i)' \in Nat
    <3>1. CASE at = "sleep"
      <4>1. Rest' = 0 /\ Rest = 0 /\ Pause(i)' = clock' /\ Pause(i) = clock
        BY <1>1, <1>4, <2>5, <3>1 DEF Rest, Pause, Busy
      <4> QED BY <1>1, <4>1
    <3>2. CASE at \in {"post", "metrics"}
      <4>1. Pause(i)' = Pause(i)
        BY <1>1, <1>4, <3>2 DEF Pause, Busy
      <4>2. Rest' = Rest - 1 /\ Rest' \in Nat
        BY <1>1, <3>2, TypesAre DEF Rest
      <4> QED BY <2>4, <4>1, <4>2
    <3> QED BY <1>2, <3>1, <3>2
  <2>7. CASE timers[i].left <= 0
    <3>1. timers[i].left >= Cost(Ahead(i)) + Rest + Pause(i) - OthersTime(i)
      BY <2>1, <2>7 DEF DueInv, Due, InTime
    <3>2. timers'[i].left >= Cost(Ahead(i)') + Rest' + Pause(i)' - OthersTime(i)
      BY <2>1, <2>2, <2>3, <2>4, <2>6, <3>1
    <3> QED BY <3>2 DEF InTime
  <2>8. CASE timers[i].left = 1
    <3>1. i \notin InPass
      BY <2>1, <2>8 DEF TurnInv, PassInv, InPass
    <3>2. CASE at = "sleep"
      <4>1. Rest' = 0 /\ Pause(i)' = 0
        BY <1>1, <1>4, <3>1, <3>2 DEF Rest, Pause, Busy, TurnInv, ClockInv
      <4>2. timers'[i].left >= Cost(Ahead(i)') + Rest' + Pause(i)' - OthersTime(i)
        BY <2>1, <2>2, <2>3, <2>8, <4>1
      <4> QED BY <4>2 DEF InTime
    <3>3. CASE at \in {"post", "metrics"}
      <4> DEFINE c == call.id
      <4>1. call # None /\ c \in Ids /\ (c = 0 <=> at = "metrics") /\ c # i
        BY <2>1, <3>3, TypesAre DEF TurnInv, PassInv, Busy, Running
      <4>2. c \notin Ahead(i)
        BY <4>1, AheadIs DEF TurnInv
      <4>3. Pause(i)' = 1 /\ Pause(i) = 1
        BY <1>1, <1>4, <3>1, <3>3 DEF Pause, Busy
      <4> HIDE DEF c
      <4>4. Rest <= One(c)
        BY <1>1, <3>3, <4>1, TypesAre DEF Rest, One, TurnInv, ClockInv
      <4>5. Cost(Ahead(i) \cup {c}) = Cost(Ahead(i)) + One(c) /\ One(c) \in Nat
        BY <2>3, <4>1, <4>2, CostOfOneMore
      <4>6. Cost(Ahead(i) \cup {c}) <= OthersTime(i)
        <5>1. Ahead(i) \cup {c} \in SUBSET (Ids \ {i})
          BY <2>3, <4>1
        <5> QED BY <5>1, CostOfOthers
      <4>7. Cost(Ahead(i)) + Rest <= OthersTime(i)
        BY <2>3, <2>4, <4>4, <4>5, <4>6
      <4>8. Rest' = Rest - 1
        BY <1>1, <3>3, TypesAre DEF Rest
      <4>10. timers'[i].left = 0
        BY <2>1, <2>8
      <4>9. timers'[i].left >= Cost(Ahead(i)') + Rest' + Pause(i)' - OthersTime(i)
        BY <2>2, <2>3, <2>4, <4>3, <4>7, <4>8, <4>10
      <4> QED BY <4>9 DEF InTime
    <3> QED BY <1>2, <3>2, <3>3
  <2> QED BY <2>1, <2>7, <2>8
<1> QED BY <1>3, <1>5, <1>6 DEF TurnInv, DueInv

-----------------------------------------------------------------------------
\* Every step is one of these.

LEMMA TableRewrites ==
  ASSUME TypeInv, TurnInv,
         \/ \E e \in Names : Post(e) \/ Setup(e)
         \/ \E S \in SUBSET Names : Delete(S)
  PROVE  Rewrites
<1>1. ASSUME NEW S, Disown(S)
      PROVE  /\ call = None => call' = None
             /\ call # None => /\ call' # None /\ call'.id = call.id
                               /\ call'.queued = call.queued
  <2>1. CASE call = None
    BY <1>1, <2>1 DEF Disown
  <2>2. CASE call # None
    <3> DEFINE c == [call EXCEPT !.own = FALSE]
    <3>1. call \in CallRecs
      BY <2>2, TypesAre
    <3>2. c \in CallRecs /\ c.id = call.id /\ c.queued = call.queued
      BY <3>1 DEF CallRecs
    <3>3. c # None
      BY <3>2, NoneAssumption
    <3>4. call' = c \/ call' = call
      BY <1>1 DEF Disown
    <3> HIDE DEF c
    <3> QED BY <2>2, <3>2, <3>3, <3>4
  <2> QED BY <2>1, <2>2
<1>2. ASSUME NEW e \in Names, AddScheduledJob(e),
             pass' = pass, at' = at, clock' = clock
      PROVE  Rewrites
  <2>1. PICK i \in Ids \ {0} :
          Free(i) /\ timers' = [timers EXCEPT ![i] = [name |-> e, left |-> Period[e]]]
    BY <1>2 DEF AddScheduledJob
  <2> DEFINE r == [name |-> e, left |-> Period[e]]
  <2>2. /\ r \in TimerRecs /\ r # None /\ r.name # Hourly
        /\ r.left \in Nat /\ r.left > 0
    BY PeriodAssumption, NamesDistinct, NoneAssumption DEF TimerRecs
  <2> HIDE DEF r
  <2>3. timers \in [Ids -> TimerRecs \cup {None}] /\ timers' = [timers EXCEPT ![i] = r]
    BY <2>1 DEF TypeInv, TypeOK, r
  <2>4. timers'[i] = r /\ \A k \in Ids : k # i => timers'[k] = timers[k]
    BY <2>1, <2>3
  <2>5. Disown({e})
    BY <1>2 DEF AddScheduledJob
  <2> QED BY <1>1, <1>2, <2>1, <2>2, <2>4, <2>5 DEF Rewrites
<1>3. ASSUME NEW S \in SUBSET Names, Delete(S) PROVE Rewrites
  <2>1. ASSUME NEW k \in Ids
        PROVE  timers'[k] = timers[k] \/ (timers[k].name \in S /\ timers'[k] = None)
    <3>1. timers' = [j \in Ids |->
                       IF timers[j] # None /\ timers[j].name \in S THEN None ELSE timers[j]]
      BY <1>3 DEF Delete, DelScheduledJobs
    <3>2. timers'[k] = IF timers[k] # None /\ timers[k].name \in S THEN None ELSE timers[k]
      BY <3>1
    <3> QED BY <3>2
  <2>2. timers[0].name = Hourly /\ Hourly \notin S
    BY IdsFinite, NamesDistinct DEF TurnInv, PassInv
  <2>3. ASSUME NEW k \in Ids
        PROVE  timers'[k] = timers[k] \/ (k # 0 /\ timers'[k] = None)
    <3>1. CASE timers[k].name \in S /\ timers'[k] = None
      BY <2>2, <3>1
    <3> QED BY <2>1, <3>1
  <2>4. pass' = pass /\ at' = at /\ clock' = clock /\ Disown(S)
    BY <1>3 DEF Delete, DelScheduledJobs
  <2> QED BY <1>1, <2>3, <2>4 DEF Rewrites
<1> QED BY <1>2, <1>3 DEF Post, Setup

LEMMA NextEventKeeps ==
  ASSUME TypeInv, TurnInv, DueInv, Telemetry \in Nat, Telemetry # None, NextEvent
  PROVE  TurnInv' /\ DueInv'
<1>1. PICK j \in pass :
        /\ at = "pass" /\ \A k \in pass : j.left <= k.left
        /\ pass' = pass \ {j}
        /\ \/ Done(j.id)
           \/ /\ j.name # Hourly /\ at' = "send"
              /\ call' = [id |-> j.id, name |-> j.name, own |-> TRUE, queued |-> FALSE]
              /\ timers' = timers /\ clock' = clock
           \/ /\ j.name = Hourly /\ at' = "metrics"
              /\ call' = [id |-> j.id, name |-> j.name, own |-> TRUE, queued |-> FALSE]
              /\ clock' = IF Telemetry = None THEN 0 ELSE Telemetry
              /\ timers' = timers
  BY DEF NextEvent
<1> DEFINE c == [id |-> j.id, name |-> j.name, own |-> TRUE, queued |-> FALSE]
<1>2. CASE Done(j.id)
  BY <1>1, <1>2, SkipKeeps
<1>3. c \in CallRecs /\ c.id = j.id
  BY TypesAre DEF CallRecs
<1>4. c # None
  BY <1>3, NoneAssumption
<1>5. j.name = Hourly <=> j.id = 0
  BY DEF TurnInv, PassInv
<1>6. clock = 0
  BY <1>1 DEF TurnInv, ClockInv
<1> HIDE DEF c
<1>7. CASE j.name # Hourly /\ at' = "send" /\ call' = c /\ timers' = timers /\ clock' = clock
  BY <1>1, <1>3, <1>4, <1>5, <1>6, <1>7, RunKeeps
<1>8. CASE j.name = Hourly /\ at' = "metrics" /\ call' = c /\ timers' = timers
           /\ clock' = (IF Telemetry = None THEN 0 ELSE Telemetry)
  BY <1>1, <1>3, <1>4, <1>5, <1>8, RunKeeps
<1> QED BY <1>1, <1>2, <1>7, <1>8 DEF c

LEMMA DelayStep ==
  ASSUME TypeInv, TurnInv, DueInv, Telemetry \in Nat, Telemetry # None, [Next]_vars
  PROVE  TurnInv' /\ DueInv'
<1> USE RewriteTurn, RewriteDue
<1>1. ASSUME UNCHANGED <<timers, pass, at, call, clock>> PROVE Rewrites
  BY <1>1 DEF Rewrites
<1>2. ASSUME Wake \/ Read \/ (Cancel /\ at = "sleep") PROVE TurnInv' /\ DueInv'
  <2>1. Turns
    BY <1>2 DEF Wake, Read, Cancel, Turns, TurnInv, PassInv, ClockInv, Busy
  <2> QED BY <2>1, TurnsKeeps
<1>3. ASSUME Send \/ Connected PROVE TurnInv' /\ DueInv'
  <2>1. call # None /\ call \in CallRecs
    BY <1>3, TypesAre DEF Send, Connected, TurnInv, PassInv, Busy
  <2> DEFINE c == [call EXCEPT !.queued = TRUE]
  <2>2. c \in CallRecs /\ c.id = call.id /\ c.queued = TRUE /\ call.queued \in BOOLEAN
    BY <2>1 DEF CallRecs
  <2>3. c # None
    BY <2>2, NoneAssumption
  <2>4. (call' = c \/ (call' = call /\ at = "send"))
    BY <1>3 DEF Send, Connected
  <2>5. Connected => call' = c
    BY DEF Connected
  <2> HIDE DEF c
  <2>6. Talks
    BY <1>3, <2>1, <2>2, <2>3, <2>4, <2>5 DEF Send, Connected, Talks
  <2> QED BY <2>6, TalksKeeps
<1>4. ASSUME MetricsEnd \/ Refused \/ TimedOut \/ ConnectionLost \/ (Answer /\ pass' = pass)
      PROVE  TurnInv' /\ DueInv'
  <2>1. Done(call.id) /\ pass' = pass /\ at \in Busy
    BY <1>4 DEF MetricsEnd, Refused, TimedOut, ConnectionLost, Answer, Awaited, Busy
  <2> QED BY <2>1, EndKeeps DEF TurnInv, PassInv
<1>5. ASSUME HttpTake \/ Serve \/ FailStart \/ Interrupt \/ Join
             \/ (Cancel /\ at # "sleep") \/ UNCHANGED vars
      PROVE  Rewrites
  BY <1>1, <1>5 DEF HttpTake, Serve, FailStart, Interrupt, Join, Cancel, threadVars, vars
<1>6. ASSUME HttpDone PROVE TurnInv' /\ DueInv'
  BY <1>1, <1>4, <1>6 DEF HttpDone
<1>7. ASSUME \/ \E e \in Names : Post(e) \/ Setup(e)
             \/ \E S \in SUBSET Names \ {{}} : Delete(S)
      PROVE  Rewrites
  BY <1>7, TableRewrites
<1> QED
  BY <1>2, <1>3, <1>4, <1>5, <1>6, <1>7, ListKeeps, NextEventKeeps, TickKeeps
  DEF Next, ThreadStep, MainStep

LEMMA DelayInit ==
  ASSUME Init, Telemetry \in Nat
  PROVE  TurnInv /\ DueInv
<1>1. call = None /\ at = "sleep" /\ clock = 1 /\ pass = {} /\ InPass = {}
  BY DEF Init, InPass
<1> DEFINE r == [name |-> Hourly, left |-> Period[Hourly]]
<1>2. r \in TimerRecs /\ r.name = Hourly /\ r.left \in Nat /\ r.left > 0
  BY PeriodAssumption DEF TimerRecs
<1>3. r # None
  BY <1>2, NoneAssumption
<1>4. \A i \in Ids : timers[i] = IF i = 0 THEN r ELSE None
  BY DEF Init
<1> HIDE DEF r
<1>5. TurnInv
  BY <1>1, <1>2, <1>3, <1>4, IdsFinite DEF TurnInv, ClockInv, PassInv, Busy
<1>6. \A i \in Ids : ~ Due(i)
  BY <1>2, <1>4 DEF Due
<1> QED BY <1>5, <1>6 DEF DueInv

-----------------------------------------------------------------------------
(* Theorems                                                                 *)

\* The inductive invariant holds throughout.
THEOREM Invariant == Spec => []IInv
<1>1. Init => IInv
  BY TypeInit, SafeInit DEF IInv
<1>2. IInv /\ [Next]_vars => IInv'
  BY TypeStep, SafeStep DEF IInv, SafeInv
<1> QED BY <1>1, <1>2, PTL DEF Spec

\* The variables keep their types.
THEOREM TypeCorrect == Spec => []TypeOK
  BY Invariant, PTL DEF IInv, TypeInv

\* A deleted job is sent to the server at most once more.
THEOREM DeletedIsLast == Spec => []DeletedNotPosted
  BY Invariant, PTL DEF IInv, SafeInv

\* An entry shows the outcome of its own request.
THEOREM StatusCorrect == Spec => []StatusIsOwn
  BY Invariant, PTL DEF IInv, SafeInv

\* The timer thread ends only when the server stops.
THEOREM ThreadSurvives == Spec => []TimerSurvives
<1>1. Init => TimerSurvives
  BY DEF Init, TimerSurvives
<1>2. TimerSurvives /\ [Next]_vars => TimerSurvives'
  BY DEF TimerSurvives, Next, vars, ThreadStep, Wake, RunPending, NextEvent, Done,
         MetricsEnd, Send, Connected, Refused, TimedOut, ConnectionLost, Read, Tick,
         MainStep, Cancel, Join, Post, Setup, Delete, HttpTake, HttpDone, Answer, Serve,
         FailStart, Interrupt, threadVars, serverVars, AddScheduledJob, DelScheduledJobs
<1> QED BY <1>1, <1>2, PTL DEF Spec

\* However long the server takes and whoever posts and deletes jobs, a due
\* event waits for one call of each other timer at most: for any number of
\* timers, any periods and limits, while the telemetry service answers in a
\* bounded time.
THEOREM DelayIsBounded == Telemetry # None => (Spec => []DelayBounded)
<1> SUFFICES ASSUME Telemetry # None PROVE Spec => []DelayBounded
  OBVIOUS
<1>1. Telemetry \in Nat
  BY TimeAssumption
<1>2. Init => TurnInv /\ DueInv
  BY <1>1, DelayInit
<1>3. IInv /\ TurnInv /\ DueInv /\ [Next]_vars => TurnInv' /\ DueInv'
  BY <1>1, DelayStep DEF IInv
<1>4. IInv /\ TurnInv /\ DueInv => DelayBounded
  <2> SUFFICES ASSUME TypeInv, TurnInv, DueInv, NEW i \in Ids,
                      timers[i] # None, call # None => call.id # i
               PROVE  timers[i].left >= -OthersTime(i)
    BY DEF IInv, DelayBounded
  <2>1. OthersTime(i) \in Nat /\ timers[i].left \in Int /\ Rest \in Nat /\ Pause(i) \in Nat
    BY <1>1, CostOfOthers, TypesAre, RestIs
  <2>2. Cost(Ahead(i)) \in Nat
    <3>1. Ahead(i) \in SUBSET Ids
      BY AheadIs DEF TurnInv
    <3> QED BY <1>1, <3>1, CostIsMore
  <2>3. CASE timers[i].left <= 0
    <3>1. Due(i)
      BY <2>3 DEF Due, Running
    <3>2. timers[i].left >= Cost(Ahead(i)) + Rest + Pause(i) - OthersTime(i)
      BY <3>1 DEF DueInv, InTime
    <3> QED BY <2>1, <2>2, <3>2
  <2>4. CASE timers[i].left > 0
    BY <2>1, <2>4
  <2> QED BY <2>1, <2>3, <2>4
<1> QED BY <1>2, <1>3, <1>4, Invariant, PTL DEF Spec
=============================================================================
