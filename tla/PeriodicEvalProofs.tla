--------------------------- MODULE PeriodicEvalProofs ---------------------------
(***************************************************************************)
(* Theorems about PeriodicEval for any hooks, scores, ranges and periods   *)
(* of grace, when hooks fail and workers are killed anywhere.              *)
(***************************************************************************)
EXTENDS PeriodicEval, TLAPS

\* The part of the types that the calls of the hooks depend on.
CallTypes ==
  /\ evals \in Nat
  /\ job \in Jobs \cup {None}
  /\ notified \in [Hooks -> Seq([kind : {"start", "end"}, at : Times, eval : Nat])]
  /\ job # None /\ job.call # "none" => job.at \in Times

\* No hook has heard of an evaluation that is yet to come.
NoFuture == \A h \in Hooks : \A i \in DOMAIN notified[h] : notified[h][i].eval <= evals

\* A call is between two effects only where it can be.
StepFits ==
  job # None =>
    /\ job.step = "set" => job.call = "start"
    /\ job.step \in {"move", "forget"} => job.call = "end"
    /\ job.step # "call" => job.hook \in Annotators

\* Where the automaton stands between the calls.
Automaton ==
  job # None =>
    /\ job.call = "start" =>
         job.anomaly = job.at /\ (job.last # None => job.at - job.last >= Grace)
    /\ job.last # None => job.last < job.at
    /\ job.call = "end" => job.anomaly # None
    /\ job.call # "start" /\ job.anomaly # None => job.anomaly < job.at

\* The hook that is called next.
Turn == IF job.step = "call" THEN job.hook ELSE job.hook + 1

\* Hook h is in the anomaly of the evaluation: it was told of its start and was
\* not told of its end yet.
Inside(h) ==
  \/ job.call = "none" /\ job.anomaly # None
  \/ job.call = "start" /\ h < Turn
  \/ job.call = "end" /\ h >= Turn

Heard(h) == notified[h] # <<>> /\ notified[h][Len(notified[h])].eval = evals

\* The last call of each hook tells where the automaton stands.
LastCall ==
  job # None => \A h \in Hooks :
    LET last == notified[h][Len(notified[h])] IN
      /\ Inside(h) => Heard(h) /\ last.kind = "start" /\ last.at = job.anomaly
      /\ ~Inside(h) /\ Heard(h) =>
           last.kind = "end" /\ last.at = (IF job.call = "end" THEN job.at ELSE job.last)

CallInv == CallTypes /\ StepFits /\ NoFuture /\ Automaton /\ LastCall /\ OneAnomalyAtATime

Event == [kind : {"start", "end"}, at : Times, eval : Nat]

\* The calls that a hook has received, one by one.
LEMMA CallsTyped ==
  ASSUME CallTypes, NEW h \in Hooks
  PROVE  /\ \A i \in DOMAIN notified[h] : notified[h][i] \in Event
         /\ notified[h] # <<>> => Len(notified[h]) \in DOMAIN notified[h]
<1>1. notified[h] \in Seq(Event)
  BY DEF CallTypes, Event
<1> QED BY <1>1

\* What Append adds and what it leaves.
LEMMA Appended ==
  ASSUME NEW S, NEW s \in Seq(S), NEW x \in S
  PROVE  /\ DOMAIN s = 1..Len(s) /\ Len(s) \in Nat
         /\ Len(Append(s, x)) = Len(s) + 1
         /\ DOMAIN Append(s, x) = 1..(Len(s) + 1)
         /\ Append(s, x)[Len(s) + 1] = x
         /\ \A i \in 1..Len(s) : Append(s, x)[i] = s[i]
         /\ Append(s, x) # <<>>
  OBVIOUS

\* What a step of a call does to the fields of the evaluation.
LEMMA NextHookIs ==
  ASSUME job \in Jobs, job.hook <= NbHooks, NextHook
  PROVE  /\ job' \in Jobs /\ job'.hook = job.hook + 1 /\ job'.step = "call"
         /\ job'.at = job.at /\ job'.from = job.from /\ job'.to = job.to
         /\ job'.call = job.call /\ job'.anomaly = job.anomaly /\ job'.last = job.last
<1>1. job.hook + 1 \in 1..(NbHooks + 1)
  BY HooksAssumption DEF Jobs
<1>2. [job EXCEPT !.hook = job.hook + 1] \in Jobs
  BY <1>1 DEF Jobs
<1>3. job' = [[job EXCEPT !.hook = job.hook + 1] EXCEPT !.step = "call"]
  BY DEF NextHook, Jobs
<1> QED BY <1>1, <1>2, <1>3 DEF Jobs

LEMMA GoOnIs ==
  ASSUME job \in Jobs, NEW step \in {"set", "move", "forget"}, GoOn(step)
  PROVE  /\ job' \in Jobs /\ job'.hook = job.hook /\ job'.step = step
         /\ job'.at = job.at /\ job'.from = job.from /\ job'.to = job.to
         /\ job'.call = job.call /\ job'.anomaly = job.anomaly /\ job'.last = job.last
  BY DEF GoOn, Jobs

LEMMA CallInit == Init => CallInv
  BY DEF Init, CallInv, CallTypes, StepFits, NoFuture, Automaton, LastCall, OneAnomalyAtATime

\* A call that goes on from the last one keeps what a hook hears in order.
LEMMA NotifyKeeps ==
  ASSUME CallInv, job # None, job.hook \in Hooks, job.at \in Times,
         NEW kind \in {"start", "end"}, Notify(kind), UNCHANGED evals,
         ~Heard(job.hook) => kind = "start",
         Heard(job.hook) =>
           LET last == notified[job.hook][Len(notified[job.hook])] IN
             /\ last.kind # kind
             /\ job.at > last.at
             /\ kind = "start" => job.at - last.at >= Grace
  PROVE  /\ notified' \in [Hooks -> Seq(Event)]
         /\ NoFuture' /\ OneAnomalyAtATime'
         /\ \A h \in Hooks : h # job.hook => notified'[h] = notified[h]
         /\ notified'[job.hook] # <<>>
         /\ LET last == notified'[job.hook][Len(notified'[job.hook])] IN
              last.kind = kind /\ last.at = job.at /\ last.eval = evals
<1> DEFINE k == job.hook
           new == [kind |-> kind, at |-> job.at, eval |-> evals]
           old == notified[k]
<1>1. new \in Event /\ new.kind = kind /\ new.at = job.at /\ new.eval = evals
  BY DEF Event, CallInv, CallTypes
<1>2. notified \in [Hooks -> Seq(Event)] /\ evals \in Nat /\ k \in Hooks
  BY DEF Event, CallInv, CallTypes
<1>3. notified' = [notified EXCEPT ![k] = Append(old, new)]
  BY DEF Notify
<1>4. ~(old # <<>> /\ old[Len(old)].eval = evals) => kind = "start"
  BY DEF Heard
<1>5. old # <<>> /\ old[Len(old)].eval = evals =>
        /\ old[Len(old)].kind # kind
        /\ job.at > old[Len(old)].at
        /\ kind = "start" => job.at - old[Len(old)].at >= Grace
  BY DEF Heard
<1> HIDE DEF new, k, old
<1>6. notified' \in [Hooks -> Seq(Event)] /\ old \in Seq(Event) /\ old = notified[k]
  BY <1>1, <1>2, <1>3 DEF old
<1>7. /\ notified'[k] = Append(old, new)
      /\ \A h \in Hooks : h # k => notified'[h] = notified[h]
  BY <1>2, <1>3
<1>8. /\ Len(notified'[k]) = Len(old) + 1
      /\ notified'[k][Len(old) + 1] = new
      /\ \A i \in 1..Len(old) : notified'[k][i] = old[i]
      /\ DOMAIN notified'[k] = 1..(Len(old) + 1)
      /\ DOMAIN old = 1..Len(old) /\ Len(old) \in Nat
      /\ notified'[k] # <<>>
  BY <1>1, <1>6, <1>7, Appended
<1>9. NoFuture'
  <2>1. ASSUME NEW h \in Hooks, NEW i \in DOMAIN notified'[h] PROVE notified'[h][i].eval <= evals
    <3>1. CASE h # k
      BY <1>7, <3>1, <2>1 DEF CallInv, NoFuture
    <3>2. CASE h = k /\ i = Len(old) + 1
      BY <1>1, <1>2, <1>8, <3>2
    <3>3. CASE h = k /\ i \in 1..Len(old)
      BY <1>6, <1>8, <1>2, <3>3 DEF CallInv, NoFuture
    <3> QED BY <2>1, <3>1, <3>2, <3>3, <1>8
  <2> QED BY <2>1 DEF NoFuture
<1>10. OneAnomalyAtATime'
  <2> DEFINE Good(q, i) ==
        IF i = 1 \/ q[i - 1].eval # q[i].eval
        THEN q[i].kind = "start"
        ELSE /\ q[i].kind # q[i - 1].kind
             /\ q[i].at > q[i - 1].at
             /\ q[i].kind = "start" => q[i].at - q[i - 1].at >= Grace
  <2>1. \A h \in Hooks : \A i \in DOMAIN notified[h] : Good(notified[h], i)
    BY DEF CallInv, OneAnomalyAtATime
  <2>2. ASSUME NEW h \in Hooks, NEW i \in DOMAIN notified'[h] PROVE Good(notified'[h], i)
    <3>1. CASE h # k
      BY <1>7, <3>1, <2>1, <2>2
    <3>2. CASE h = k /\ i = Len(old) + 1
      <4>1. CASE old = <<>>
        <5>1. Len(old) = 0 /\ kind = "start"
          BY <4>1, <1>4
        <5> QED BY <5>1, <1>1, <1>8, <3>2
      <4>2. CASE old # <<>>
        <5>1. Len(old) \in 1..Len(old) /\ i # 1 /\ i - 1 = Len(old)
          BY <4>2, <1>6, <1>8, <3>2
        <5>2. notified'[h][i] = new /\ notified'[h][i - 1] = old[Len(old)]
          BY <5>1, <1>8, <3>2
        <5> QED BY <5>1, <5>2, <4>2, <1>1, <1>4, <1>5
      <4> QED BY <4>1, <4>2
    <3>3. CASE h = k /\ i \in 1..Len(old)
      <4>1. Good(old, i)
        <5>1. i \in DOMAIN notified[k] /\ k \in Hooks
          BY <1>2, <1>6, <1>8, <3>3
        <5>2. Good(notified[k], i)
          BY <2>1, <5>1
        <5> QED BY <5>2, <1>6
      <4>2. notified'[h][i] = old[i] /\ (i # 1 => notified'[h][i - 1] = old[i - 1])
        BY <1>8, <3>3
      <4> QED BY <4>1, <4>2
    <3> QED BY <2>2, <3>1, <3>2, <3>3, <1>8
  <2> QED BY <2>2 DEF OneAnomalyAtATime
<1>11. LET last == notified'[k][Len(notified'[k])] IN
         last.kind = kind /\ last.at = job.at /\ last.eval = evals
  BY <1>1, <1>8
<1> QED BY <1>6, <1>7, <1>8, <1>9, <1>10, <1>11 DEF k

\* Steps of an evaluation that call no hook.
LEMMA SilentKeeps ==
  ASSUME CallInv, UNCHANGED <<evals, notified>>,
         job' \in Jobs \cup {None},
         job' # None /\ job'.call # "none" => job'.at \in Times,
         StepFits', Automaton', LastCall'
  PROVE  CallInv'
  BY DEF CallInv, CallTypes, NoFuture, OneAnomalyAtATime

LEMMA CallStep == CallInv /\ [Next]_vars => CallInv'
<1> SUFFICES ASSUME CallInv, [Next]_vars PROVE CallInv'
  OBVIOUS
<1> USE JobsAssumption, BucketsAssumption, TimeAssumption, HooksAssumption
<1>0. CallTypes /\ StepFits /\ NoFuture /\ Automaton /\ LastCall /\ OneAnomalyAtATime
  BY DEF CallInv
<1>a. job \in Jobs => job.hook \in Nat /\ job.step \in {"call", "set", "move", "forget"}
  BY DEF Jobs
<1>b. job # None => /\ job.call = "none" => job.step = "call"
                    /\ job.hook > NbHooks => job.step = "call"
  BY <1>0, <1>a DEF StepFits, CallTypes, Hooks
<1>1. ASSUME NEW s \in Scores, NewBucket(s) PROVE CallInv'
  BY <1>0, <1>1, SilentKeeps
     DEF NewBucket, CallTypes, StepFits, Automaton, LastCall, Inside, Turn, Heard
<1>2. ASSUME NEW range \in Ranges, NEW output \in Buckets \cup {None, NoneAsText},
             LoadModel(range, output)
      PROVE  CallInv'
  <2> DEFINE new == [at |-> range[1], from |-> range[1], to |-> range[2], output |-> output,
                     anomaly |-> None, last |-> None, call |-> "none", hook |-> 1,
                     step |-> "call"]
  <2>1. new \in Jobs
    BY DEF Jobs, Times
  <2>2. /\ new.at = range[1] /\ new.anomaly = None /\ new.last = None
        /\ new.call = "none" /\ new.step = "call"
    OBVIOUS
  <2>3. job' = new /\ evals' = evals + 1 /\ notified' = notified
    BY <1>2 DEF LoadModel
  <2> HIDE DEF new
  <2>4. ASSUME NEW h \in Hooks, NEW i \in DOMAIN notified[h]
        PROVE  notified[h][i].eval < evals'
    <3>1. notified[h][i] \in Event
      BY <1>0, CallsTyped
    <3>2. notified[h][i].eval \in Nat /\ notified[h][i].eval <= evals /\ evals \in Nat
      BY <1>0, <3>1 DEF CallTypes, NoFuture, Event
    <3> QED BY <2>3, <3>2
  <2>5. ASSUME NEW h \in Hooks PROVE ~Heard(h)'
    <3>1. CASE notified[h] = <<>>
      BY <2>3, <3>1 DEF Heard
    <3>2. CASE notified[h] # <<>>
      <4>1. Len(notified[h]) \in DOMAIN notified[h]
        BY <1>0, <3>2, CallsTyped
      <4>2. notified[h][Len(notified[h])] \in Event
        BY <1>0, <4>1, CallsTyped
      <4>3. notified[h][Len(notified[h])].eval < evals' /\ evals' \in Nat
        BY <1>0, <2>3, <2>4, <4>1 DEF CallTypes
      <4> QED BY <2>3, <4>2, <4>3 DEF Heard, Event
    <3> QED BY <3>1, <3>2
  <2>6. NoFuture'
    <3>1. ASSUME NEW h \in Hooks, NEW i \in DOMAIN notified[h]
          PROVE  notified[h][i].eval <= evals'
      <4>1. notified[h][i] \in Event
        BY <1>0, CallsTyped
      <4> QED BY <1>0, <2>3, <2>4, <4>1 DEF Event, CallTypes
    <3> QED BY <2>3, <3>1 DEF NoFuture
  <2>7. LastCall'
    BY <2>2, <2>3, <2>5 DEF LastCall, Inside
  <2>8. CallTypes'
    <3>1. evals' \in Nat
      BY <1>0, <2>3 DEF CallTypes
    <3>2. job' \in Jobs /\ job'.call = "none"
      BY <2>1, <2>2, <2>3
    <3>3. notified' \in [Hooks -> Seq([kind : {"start", "end"}, at : Times, eval : Nat])]
      BY <1>0, <2>3 DEF CallTypes
    <3> QED BY <3>1, <3>2, <3>3 DEF CallTypes
  <2>9. Automaton' /\ StepFits' /\ OneAnomalyAtATime'
    BY <1>0, <2>2, <2>3 DEF Automaton, StepFits, OneAnomalyAtATime
  <2> QED BY <2>6, <2>7, <2>8, <2>9 DEF CallInv
<1>3. CASE AnomalyStarts
  <2>1. job \in Jobs /\ job.call = "none" /\ job.at <= job.to /\ job.anomaly = None
    BY <1>0, <1>3 DEF AnomalyStarts, Detecting, CallTypes
  <2>2. job.at \in Times
    BY <2>1 DEF Jobs, Times
  <2>3. /\ job' \in Jobs /\ job'.at = job.at /\ job'.last = job.last
        /\ job'.anomaly = job.at /\ job'.call = "start" /\ job'.hook = 1
        /\ job'.step = "call"
    <3>1. job' = [job EXCEPT !.anomaly = job.at, !.call = "start", !.hook = 1]
          /\ job.step = "call"
      BY <1>3, <1>b, <2>1 DEF AnomalyStarts
    <3>2. 1 \in 1..(NbHooks + 1)
      OBVIOUS
    <3> QED BY <2>1, <2>2, <3>1, <3>2 DEF Jobs
  <2>4. job.last # None => job.at - job.last >= Grace
    BY <1>3, <2>1 DEF AnomalyStarts, IsAnomaly, InGracePeriod, Jobs, Times
  <2>5. UNCHANGED <<evals, notified>>
    BY <1>3 DEF AnomalyStarts
  <2>6. Automaton' /\ StepFits'
    BY <1>0, <2>1, <2>3, <2>4 DEF Automaton, StepFits
  <2>7. LastCall'
    BY <1>0, <2>1, <2>3, <2>5 DEF LastCall, Inside, Turn, Heard, Hooks
  <2> QED BY <2>2, <2>3, <2>5, <2>6, <2>7, SilentKeeps
<1>4. CASE AnomalyEnds
  <2>1. job \in Jobs /\ job.call = "none" /\ job.at <= job.to /\ job.anomaly # None
    BY <1>0, <1>4 DEF AnomalyEnds, Detecting, CallTypes
  <2>2. job.at \in Times
    BY <2>1 DEF Jobs, Times
  <2>3. /\ job' \in Jobs /\ job'.at = job.at /\ job'.last = job.last
        /\ job'.anomaly = job.anomaly /\ job'.call = "end" /\ job'.hook = 1
        /\ job'.step = "call"
    <3>1. job' = [job EXCEPT !.call = "end", !.hook = 1] /\ job.step = "call"
      BY <1>4, <1>b, <2>1 DEF AnomalyEnds
    <3>2. 1 \in 1..(NbHooks + 1)
      OBVIOUS
    <3> QED BY <2>1, <3>1, <3>2 DEF Jobs
  <2>4. UNCHANGED <<evals, notified>>
    BY <1>4 DEF AnomalyEnds
  <2>5. Automaton' /\ StepFits'
    BY <1>0, <2>1, <2>3 DEF Automaton, StepFits
  <2>6. LastCall'
    BY <1>0, <2>1, <2>3, <2>4 DEF LastCall, Inside, Turn, Heard, Hooks
  <2> QED BY <2>2, <2>3, <2>4, <2>5, <2>6, SilentKeeps
<1>5. CASE NextBucket
  <2>1. job \in Jobs /\ job.call = "none" /\ job.at <= job.to
    BY <1>0, <1>5 DEF NextBucket, Detecting, CallTypes
  <2>2. job.at + 1 \in 1..(MaxTime + 1)
    BY <2>1 DEF Jobs, Times
  <2>3. /\ job' \in Jobs /\ job'.at = job.at + 1 /\ job'.last = job.last
        /\ job'.anomaly = job.anomaly /\ job'.call = "none" /\ job'.step = "call"
    BY <1>5, <1>b, <2>1, <2>2 DEF NextBucket, Jobs
  <2>4. UNCHANGED <<evals, notified>>
    BY <1>5 DEF NextBucket
  <2>5. Automaton' /\ StepFits'
    BY <1>0, <2>1, <2>3 DEF Automaton, StepFits, Jobs, Times
  <2>6. LastCall'
    BY <1>0, <2>1, <2>3, <2>4 DEF LastCall, Inside, Heard
  <2> QED BY <2>3, <2>4, <2>5, <2>6, SilentKeeps
<1>6. CASE HooksCalled
  <2>1. job \in Jobs /\ job.call \in {"start", "end"} /\ job.hook > NbHooks /\ job.at \in Times
    BY <1>0, <1>6 DEF HooksCalled, CallTypes, Jobs
  <2>2. UNCHANGED <<evals, notified>>
    BY <1>6 DEF HooksCalled
  <2>3. job.at + 1 \in 1..(MaxTime + 1) /\ job.step = "call"
    BY <1>b, <2>1 DEF Times
  <2>4. CASE job.call = "start"
    <3>1. /\ job' \in Jobs /\ job'.at = job.at + 1 /\ job'.call = "none"
          /\ job'.anomaly = job.anomaly /\ job'.last = job.last /\ job'.step = "call"
      BY <1>6, <2>1, <2>3, <2>4 DEF HooksCalled, Jobs
    <3>2. job.anomaly = job.at /\ (job.last # None => job.last < job.at)
      BY <1>0, <2>1, <2>4 DEF Automaton
    <3>3. Automaton' /\ StepFits'
      BY <2>1, <3>1, <3>2 DEF Automaton, StepFits, Jobs, Times
    <3>4. \A h \in Hooks : Inside(h)
      BY <2>1, <2>3, <2>4 DEF Inside, Turn, Hooks, Jobs
    <3>5. LastCall'
      BY <1>0, <2>1, <2>2, <3>1, <3>2, <3>4 DEF LastCall, Inside, Heard, Times
    <3> QED BY <2>2, <3>1, <3>3, <3>5, SilentKeeps
  <2>5. CASE job.call = "end"
    <3>1. /\ job' \in Jobs /\ job'.at = job.at + 1 /\ job'.call = "none"
          /\ job'.anomaly = None /\ job'.last = job.at /\ job'.step = "call"
      BY <1>6, <2>1, <2>3, <2>5 DEF HooksCalled, Jobs
    <3>2. Automaton' /\ StepFits'
      BY <2>1, <3>1 DEF Automaton, StepFits, Times
    <3>3. \A h \in Hooks : ~Inside(h)
      BY <2>1, <2>3, <2>5 DEF Inside, Turn, Hooks, Jobs
    <3>4. LastCall'
      BY <1>0, <2>1, <2>2, <2>5, <3>1, <3>3 DEF LastCall, Inside, Heard
    <3> QED BY <2>2, <3>1, <3>2, <3>4, SilentKeeps
  <2> QED BY <2>1, <2>4, <2>5
<1>7. CASE HookStart \/ HookStartFails
  <2>1. /\ job \in Jobs /\ job.call = "start" /\ job.hook <= NbHooks /\ job.at \in Times
        /\ job.step = "call"
    BY <1>0, <1>7 DEF HookStart, HookStartFails, Calling, CallTypes
  <2>2. job.hook \in Hooks
    BY <2>1 DEF Jobs, Hooks
  <2>3. Notify("start") /\ UNCHANGED evals
    BY <1>7 DEF HookStart, HookStartFails
  <2>4. /\ job' \in Jobs /\ job'.at = job.at /\ job'.call = "start"
        /\ job'.anomaly = job.anomaly /\ job'.last = job.last
        /\ Turn' = Turn + 1 /\ Turn = job.hook /\ StepFits'
    <3>1. CASE NextHook
      <4>1. /\ job' \in Jobs /\ job'.hook = job.hook + 1 /\ job'.at = job.at
            /\ job'.call = "start" /\ job'.anomaly = job.anomaly /\ job'.last = job.last
            /\ job'.step = "call"
        BY <2>1, <3>1, NextHookIs
      <4>2. job.hook \in Nat
        BY <2>1 DEF Jobs
      <4> QED BY <2>1, <4>1, <4>2 DEF Turn, StepFits
    <3>2. CASE job.hook \in Annotators /\ GoOn("set")
      <4>1. /\ job' \in Jobs /\ job'.hook = job.hook /\ job'.at = job.at
            /\ job'.call = "start" /\ job'.anomaly = job.anomaly /\ job'.last = job.last
            /\ job'.step = "set"
        BY <2>1, <3>2, GoOnIs
      <4> QED BY <2>1, <3>2, <4>1 DEF Turn, StepFits
    <3> QED BY <1>7, <3>1, <3>2 DEF HookStart, HookStartFails
  <2>5. /\ job.anomaly = job.at
        /\ job.last # None => job.at - job.last >= Grace /\ job.last < job.at
    BY <1>0, <2>1 DEF Automaton
  <2>6. ASSUME Heard(job.hook)
        PROVE  LET last == notified[job.hook][Len(notified[job.hook])] IN
                 /\ last.kind = "end" /\ last.at = job.last /\ job.last # None
    <3>1. ~Inside(job.hook)
      BY <2>1, <2>2 DEF Inside, Turn, Hooks
    <3>2. notified[job.hook][Len(notified[job.hook])].at \in Times
      BY <1>0, <2>2, <2>6, CallsTyped DEF Heard, Event
    <3> QED BY <1>0, <2>1, <2>2, <2>6, <3>1, <3>2 DEF LastCall
  <2>7. /\ notified' \in [Hooks -> Seq(Event)]
        /\ NoFuture' /\ OneAnomalyAtATime'
        /\ \A h \in Hooks : h # job.hook => notified'[h] = notified[h]
        /\ notified'[job.hook] # <<>>
        /\ LET last == notified'[job.hook][Len(notified'[job.hook])] IN
             last.kind = "start" /\ last.at = job.at /\ last.eval = evals
    BY <2>1, <2>2, <2>3, <2>5, <2>6, NotifyKeeps
  <2>8. Automaton'
    BY <1>0, <2>1, <2>4, <2>5 DEF Automaton
  <2>9. ASSUME NEW h \in Hooks
        PROVE  LET last == notified'[h][Len(notified'[h])] IN
                 /\ Inside(h)' => Heard(h)' /\ last.kind = "start" /\ last.at = job'.anomaly
                 /\ ~Inside(h)' /\ Heard(h)' => last.kind = "end" /\ last.at = job'.last

    <3>1. CASE h = job.hook
      BY <2>1, <2>2, <2>3, <2>4, <2>5, <2>7, <3>1 DEF Inside, Heard, Hooks
    <3>2. CASE h # job.hook
      <4>1. Inside(h)' <=> Inside(h)
        BY <2>1, <2>2, <2>4, <3>2 DEF Inside, Hooks
      <4>2. notified'[h] = notified[h] /\ (Heard(h)' <=> Heard(h))
        BY <2>3, <2>7, <3>2 DEF Heard
      <4> QED BY <1>0, <2>1, <2>4, <4>1, <4>2 DEF LastCall
    <3> QED BY <3>1, <3>2
  <2>10. LastCall'
    BY <2>4, <2>9 DEF LastCall
  <2> QED BY <1>0, <2>1, <2>3, <2>4, <2>7, <2>8, <2>10 DEF CallInv, CallTypes, Event
<1>8. CASE HookEnd \/ HookEndFails
  <2>1. /\ job \in Jobs /\ job.call = "end" /\ job.hook <= NbHooks /\ job.at \in Times
        /\ job.step = "call"
    BY <1>0, <1>8 DEF HookEnd, HookEndFails, Calling, CallTypes
  <2>2. job.hook \in Hooks
    BY <2>1 DEF Jobs, Hooks
  <2>3. Notify("end") /\ UNCHANGED evals
    BY <1>8 DEF HookEnd, HookEndFails
  <2>4. \/ job' = None
        \/ /\ job' \in Jobs /\ job'.at = job.at /\ job'.call = "end"
           /\ job'.anomaly = job.anomaly /\ job'.last = job.last
           /\ Turn' = Turn + 1 /\ Turn = job.hook /\ StepFits'
    <3>1. CASE NextHook
      <4>1. /\ job' \in Jobs /\ job'.hook = job.hook + 1 /\ job'.at = job.at
            /\ job'.call = "end" /\ job'.anomaly = job.anomaly /\ job'.last = job.last
            /\ job'.step = "call"
        BY <2>1, <3>1, NextHookIs
      <4>2. job.hook \in Nat
        BY <2>1 DEF Jobs
      <4> QED BY <2>1, <4>1, <4>2 DEF Turn, StepFits
    <3>2. CASE job.hook \in Annotators /\ GoOn("move")
      <4>1. /\ job' \in Jobs /\ job'.hook = job.hook /\ job'.at = job.at
            /\ job'.call = "end" /\ job'.anomaly = job.anomaly /\ job'.last = job.last
            /\ job'.step = "move"
        BY <2>1, <3>2, GoOnIs
      <4> QED BY <2>1, <3>2, <4>1 DEF Turn, StepFits
    <3> QED BY <1>8, <3>1, <3>2 DEF HookEnd, HookEndFails
  <2>a. StepFits'
    BY <2>4 DEF StepFits
  <2>5. job.anomaly # None /\ job.anomaly < job.at /\ (job.last # None => job.last < job.at)
    BY <1>0, <2>1 DEF Automaton
  <2>6. LET last == notified[job.hook][Len(notified[job.hook])] IN
          Heard(job.hook) /\ last.kind = "start" /\ last.at = job.anomaly
    <3>1. Inside(job.hook)
      BY <2>1, <2>2 DEF Inside, Turn, Hooks
    <3> QED BY <1>0, <2>1, <2>2, <3>1 DEF LastCall
  <2>7. /\ notified' \in [Hooks -> Seq(Event)]
        /\ NoFuture' /\ OneAnomalyAtATime'
        /\ \A h \in Hooks : h # job.hook => notified'[h] = notified[h]
        /\ notified'[job.hook] # <<>>
        /\ LET last == notified'[job.hook][Len(notified'[job.hook])] IN
             last.kind = "end" /\ last.at = job.at /\ last.eval = evals
    <3>1. job.at > job.anomaly
      BY <2>1, <2>5 DEF Jobs, Times
    <3> QED BY <2>1, <2>2, <2>3, <2>6, <3>1, NotifyKeeps
  <2>8. Automaton'
    BY <1>0, <2>1, <2>4, <2>5 DEF Automaton
  <2>9. ASSUME job' # None, NEW h \in Hooks
        PROVE  LET last == notified'[h][Len(notified'[h])] IN
                 /\ Inside(h)' => Heard(h)' /\ last.kind = "start" /\ last.at = job'.anomaly
                 /\ ~Inside(h)' /\ Heard(h)' => last.kind = "end" /\ last.at = job'.at
    <3>1. CASE h = job.hook
      BY <2>1, <2>2, <2>3, <2>4, <2>7, <2>9, <3>1 DEF Inside, Heard, Hooks
    <3>2. CASE h # job.hook
      <4>1. Inside(h)' <=> Inside(h)
        BY <2>1, <2>2, <2>4, <2>9, <3>2 DEF Inside, Hooks
      <4>2. notified'[h] = notified[h] /\ (Heard(h)' <=> Heard(h))
        BY <2>3, <2>7, <3>2 DEF Heard
      <4> QED BY <1>0, <2>1, <2>4, <2>9, <4>1, <4>2 DEF LastCall
    <3> QED BY <3>1, <3>2
  <2>10. LastCall'
    BY <2>4, <2>9 DEF LastCall
  <2> QED BY <1>0, <2>1, <2>3, <2>4, <2>a, <2>7, <2>8, <2>10 DEF CallInv, CallTypes, Event
<1>9. CASE SaveOutput \/ Killed \/ EndIsCut
  <2>1. job' = None /\ UNCHANGED <<evals, notified>>
    BY <1>9 DEF SaveOutput, Killed, EndIsCut
  <2> QED BY <2>1, SilentKeeps DEF StepFits, Automaton, LastCall
<1>10. CASE UNCHANGED vars
  BY <1>10 DEF vars, CallInv, CallTypes, StepFits, NoFuture, Automaton, LastCall, Inside, Turn,
               Heard, OneAnomalyAtATime
<1>12. CASE KeepPoints \/ KeepFails \/ WriteEnd \/ ForgetPoints
  <2>1. /\ job \in Jobs /\ job.call \in {"start", "end"} /\ job.hook \in Annotators
        /\ job.hook <= NbHooks /\ job.at \in Times /\ job.step # "call"
        /\ UNCHANGED <<evals, notified>>
    BY <1>0, <1>12, <1>a
       DEF KeepPoints, KeepFails, WriteEnd, ForgetPoints, Within, StepFits, CallTypes, Hooks
  <2>2. /\ job' \in Jobs /\ job'.at = job.at /\ job'.call = job.call
        /\ job'.anomaly = job.anomaly /\ job'.last = job.last
        /\ Turn' = Turn /\ StepFits'
    <3>1. CASE NextHook
      <4>1. /\ job' \in Jobs /\ job'.hook = job.hook + 1 /\ job'.at = job.at
            /\ job'.call = job.call /\ job'.anomaly = job.anomaly /\ job'.last = job.last
            /\ job'.step = "call"
        BY <2>1, <3>1, NextHookIs
      <4>2. job.hook \in Nat
        BY <2>1 DEF Jobs
      <4> QED BY <2>1, <4>1, <4>2 DEF Turn, StepFits
    <3>2. CASE job.step = "move" /\ GoOn("forget")
      <4>1. /\ job' \in Jobs /\ job'.hook = job.hook /\ job'.at = job.at
            /\ job'.call = job.call /\ job'.anomaly = job.anomaly /\ job'.last = job.last
            /\ job'.step = "forget"
        BY <2>1, <3>2, GoOnIs
      <4> QED BY <1>0, <2>1, <3>2, <4>1 DEF Turn, StepFits
    <3> QED BY <1>12, <3>1, <3>2 DEF KeepPoints, KeepFails, WriteEnd, ForgetPoints, Within
  <2>3. Automaton'
    BY <1>0, <2>1, <2>2 DEF Automaton
  <2>4. LastCall'
    BY <1>0, <2>1, <2>2 DEF LastCall, Inside, Heard
  <2> QED BY <2>1, <2>2, <2>3, <2>4, SilentKeeps
<1>11. ASSUME NEW range \in Ranges, NEW output \in Outputs,
              UserEval(range, output) \/ ScheduledEval(range, output)
       PROVE  CallInv'
  BY <1>2, <1>11 DEF UserEval, ScheduledEval
<1> QED
  BY <1>1, <1>3, <1>4, <1>5, <1>6, <1>7, <1>8, <1>9, <1>10, <1>11, <1>12
     DEF Next, Step, Detection, HookCalls

\* Each hook hears of one anomaly after the other, whatever fails: for any
\* number of hooks and evaluations, any scores and any period of grace.
THEOREM OneAtATime == Spec => []OneAnomalyAtATime
<1>1. CallInv => OneAnomalyAtATime
  BY DEF CallInv
<1> QED BY <1>1, CallInit, CallStep, PTL DEF Spec
LEMMA CallsAlways == Spec => []CallInv
  BY CallInit, CallStep, PTL DEF Spec

-----------------------------------------------------------------------------
(* Types                                                                    *)

\* The end of an annotation is written for the annotation of the object.
ObjectAtHand == job # None /\ job.step \in {"move", "forget"} => object # None

\* The steps of the calls of hooks.
Calls ==
  \/ HookStart \/ KeepPoints \/ HookStartFails \/ KeepFails
  \/ HookEnd \/ WriteEnd \/ ForgetPoints \/ HookEndFails \/ EndIsCut

\* The step of the automaton that is under way is in the range of the
\* evaluation, which has its data.
TypeInv ==
  /\ TypeOK
  /\ job # None =>
       /\ evals \in Evals
       /\ job.to <= Len(scores)
       /\ job.from <= job.at /\ job.at <= job.to + 1
       /\ job.call # "none" => job.at <= job.to
  /\ ObjectAtHand

NotesTyped ==
  /\ points \in [Places -> Notes \cup {None}]
  /\ object \in Notes \cup {None}
  /\ cut \subseteq Notes

\* What an annotation is made of.
LEMMA NoteParts ==
  ASSUME NEW n \in Notes
  PROVE  /\ n[1] \in Hooks /\ n[2] \in Evals /\ n[3] \in Times
         /\ n[1] \in Nat /\ n[2] \in Nat /\ n[3] \in Nat
         /\ n = <<n[1], n[2], n[3]>> /\ n # None
  BY NotesAssumption DEF Notes, Hooks, Evals, Times

\* The place of a point.
LEMMA PlaceIs ==
  ASSUME NEW n \in Notes, NEW t \in Times
  PROVE  <<n[1], t>> \in Places
  BY NoteParts DEF Places

\* What the steps do to the fields of the evaluation, once for all proofs.
LEMMA JobSteps ==
  ASSUME CallInv, TypeInv
  PROVE  /\ AnomalyStarts =>
              /\ job \in Jobs /\ job.call = "none" /\ job.at <= job.to /\ job.anomaly = None
              /\ job' \in Jobs /\ job'.at = job.at /\ job'.from = job.from /\ job'.to = job.to
              /\ job'.last = job.last
              /\ job'.anomaly = job.at /\ job'.call = "start" /\ job'.hook = 1
              /\ job.step = "call" /\ job'.step = "call"
         /\ AnomalyEnds =>
              /\ job \in Jobs /\ job.call = "none" /\ job.at <= job.to /\ job.anomaly # None
              /\ job' \in Jobs /\ job'.at = job.at /\ job'.from = job.from /\ job'.to = job.to
              /\ job'.last = job.last
              /\ job'.anomaly = job.anomaly /\ job'.call = "end" /\ job'.hook = 1
              /\ job.step = "call" /\ job'.step = "call"
         /\ NextBucket =>
              /\ job \in Jobs /\ job.call = "none" /\ job.at <= job.to
              /\ job' \in Jobs /\ job'.at = job.at + 1 /\ job'.from = job.from /\ job'.to = job.to
              /\ job'.last = job.last /\ job'.anomaly = job.anomaly /\ job'.call = "none"
              /\ job.step = "call" /\ job'.step = "call"
         /\ HooksCalled =>
              /\ job \in Jobs /\ job' \in Jobs /\ job'.call = "none"
              /\ job.step = "call" /\ job'.step = "call"
              /\ job'.at = job.at + 1 /\ job'.from = job.from /\ job'.to = job.to
              /\ job'.anomaly = (IF job.call = "end" THEN None ELSE job.anomaly)
              /\ job'.last = (IF job.call = "end" THEN job.at ELSE job.last)
<1> USE DEF CallInv, TypeInv, TypeOK
<1>1. ASSUME job # None, job.call = "none", job.at <= job.to
      PROVE  /\ job \in Jobs /\ job.at \in Times /\ job.at + 1 \in 1..(MaxTime + 1)
             /\ 1 \in 1..(NbHooks + 1) /\ job.step = "call"
  <2>1. /\ job \in Jobs /\ job.at \in Times /\ job.at + 1 \in 1..(MaxTime + 1)
        /\ 1 \in 1..(NbHooks + 1)
    BY <1>1, TimeAssumption, HooksAssumption DEF Jobs, Times
  <2>2. job.step \in {"call", "set", "move", "forget"} /\ StepFits
    BY <2>1 DEF Jobs
  <2> QED BY <1>1, <2>1, <2>2 DEF StepFits
<1>2. ASSUME AnomalyStarts
      PROVE  /\ job \in Jobs /\ job.call = "none" /\ job.at <= job.to /\ job.anomaly = None
             /\ job' \in Jobs /\ job'.at = job.at /\ job'.from = job.from /\ job'.to = job.to
             /\ job'.last = job.last
             /\ job'.anomaly = job.at /\ job'.call = "start" /\ job'.hook = 1
             /\ job.step = "call" /\ job'.step = "call"
  <2>1. job' = [job EXCEPT !.anomaly = job.at, !.call = "start", !.hook = 1]
    BY <1>2 DEF AnomalyStarts
  <2> QED BY <1>1, <1>2, <2>1 DEF AnomalyStarts, Detecting, Jobs
<1>3. ASSUME AnomalyEnds
      PROVE  /\ job \in Jobs /\ job.call = "none" /\ job.at <= job.to /\ job.anomaly # None
             /\ job' \in Jobs /\ job'.at = job.at /\ job'.from = job.from /\ job'.to = job.to
             /\ job'.last = job.last
             /\ job'.anomaly = job.anomaly /\ job'.call = "end" /\ job'.hook = 1
             /\ job.step = "call" /\ job'.step = "call"
  <2>1. job' = [job EXCEPT !.call = "end", !.hook = 1]
    BY <1>3 DEF AnomalyEnds
  <2> QED BY <1>1, <1>3, <2>1 DEF AnomalyEnds, Detecting, Jobs
<1>4. ASSUME NextBucket
      PROVE  /\ job \in Jobs /\ job.call = "none" /\ job.at <= job.to
             /\ job' \in Jobs /\ job'.at = job.at + 1 /\ job'.from = job.from /\ job'.to = job.to
             /\ job'.last = job.last /\ job'.anomaly = job.anomaly /\ job'.call = "none"
             /\ job.step = "call" /\ job'.step = "call"
  BY <1>1, <1>4 DEF NextBucket, Detecting, Jobs
<1>5. ASSUME HooksCalled
      PROVE  /\ job \in Jobs /\ job' \in Jobs /\ job'.call = "none"
             /\ job.step = "call" /\ job'.step = "call"
             /\ job'.at = job.at + 1 /\ job'.from = job.from /\ job'.to = job.to
             /\ job'.anomaly = (IF job.call = "end" THEN None ELSE job.anomaly)
             /\ job'.last = (IF job.call = "end" THEN job.at ELSE job.last)
  <2>1. /\ job \in Jobs /\ job.at \in Times /\ job.at + 1 \in 1..(MaxTime + 1)
        /\ job.step = "call"
    <3>1. job \in Jobs /\ job.at \in Times /\ job.at + 1 \in 1..(MaxTime + 1)
      BY <1>5, TimeAssumption DEF HooksCalled, CallTypes, Times
    <3>2. job.hook \in Nat /\ job.hook > NbHooks /\ StepFits /\ job # None
      BY <1>5, <3>1 DEF HooksCalled, Jobs
    <3>3. job.hook \notin Annotators
      BY <3>2, HooksAssumption DEF Hooks
    <3> QED BY <3>1, <3>2, <3>3 DEF StepFits
  <2>2. CASE job.call = "end"
    <3>1. job' = [job EXCEPT !.at = @ + 1, !.call = "none", !.anomaly = None, !.last = job.at]
      BY <1>5, <2>2 DEF HooksCalled
    <3> QED BY <2>1, <2>2, <3>1 DEF Jobs
  <2>3. CASE job.call # "end"
    <3>1. /\ job'.at = job.at + 1 /\ job'.from = job.from /\ job'.to = job.to
          /\ job'.call = "none" /\ job'.anomaly = job.anomaly /\ job'.last = job.last
          /\ job' \in Jobs /\ job'.step = "call"
      BY <1>5, <2>1, <2>3 DEF HooksCalled, Jobs
    <3> QED BY <2>1, <2>3, <3>1
  <2> QED BY <2>2, <2>3
<1> QED BY <1>2, <1>3, <1>4, <1>5

LEMMA TypeInit == Init => TypeInv
  BY TimeAssumption DEF Init, TypeInv, TypeOK, ObjectAtHand

\* The call that is under way is that of the hook whose turn it is.
LEMMA CallsAre ==
  ASSUME CallInv, Calls
  PROVE  /\ job \in Jobs /\ job # None /\ job.at \in Times /\ job.hook \in Hooks
         /\ job.call \in {"start", "end"} /\ UNCHANGED <<scores, evals, saved>>
         /\ NextHook \/ (\E step \in {"set", "move", "forget"} : GoOn(step)) \/ job' = None
<1>1. /\ job # None /\ UNCHANGED <<scores, evals, saved>>
      /\ \/ job.step # "call"
         \/ job.call \in {"start", "end"} /\ job.hook <= NbHooks
      /\ NextHook \/ (\E step \in {"set", "move", "forget"} : GoOn(step)) \/ job' = None
  BY DEF Calls, HookStart, HookStartFails, HookEnd, HookEndFails, KeepPoints, KeepFails,
         WriteEnd, ForgetPoints, EndIsCut, Calling, Within
<1>2. job \in Jobs /\ job.hook \in Nat /\ job.hook >= 1
  BY <1>1 DEF CallInv, CallTypes, Jobs
<1>3. job.step \in {"call", "set", "move", "forget"} /\ StepFits
  BY <1>2 DEF CallInv, Jobs
<1>4. job.hook \in Hooks /\ job.call \in {"start", "end"}
  BY <1>1, <1>2, <1>3, HooksAssumption DEF StepFits, Hooks
<1> QED BY <1>1, <1>2, <1>4 DEF CallInv, CallTypes

LEMMA TypeStep ==
  ASSUME CallInv, CallInv', TypeInv, [Next]_vars
  PROVE  TypeInv'
<1> USE TimeAssumption, HooksAssumption, BucketsAssumption, JobsAssumption
<1>0. TypeOK /\ job' \in Jobs \cup {None}
  BY DEF TypeInv, CallInv, CallTypes
<1>1. ASSUME NEW s \in Scores, NewBucket(s) PROVE TypeInv'
  <2>1. scores' \in Seq(Scores) /\ Len(scores') <= MaxTime /\ Len(scores) <= Len(scores')
        /\ Len(scores) \in Nat
    BY <1>0, <1>1 DEF TypeOK, NewBucket
  <2>2. UNCHANGED <<evals, job, notified, points, object, cut, saved>>
    BY <1>1 DEF NewBucket
  <2>3. job # None => job.to \in Nat
    BY <1>0 DEF TypeOK, Jobs, Times
  <2> QED BY <1>0, <2>1, <2>2, <2>3 DEF TypeOK, TypeInv, ObjectAtHand
<1>2. ASSUME NEW range \in Ranges, NEW output \in Buckets \cup {None, NoneAsText},
             LoadModel(range, output)
      PROVE  TypeInv'
  <2>1. /\ evals' = evals + 1 /\ evals' \in Evals /\ evals' \in 0..MaxEvals
        /\ Evals \subseteq Nat
    BY <1>0, <1>2 DEF LoadModel, TypeOK, Evals
  <2>2. /\ job'.at = range[1] /\ job'.from = range[1] /\ job'.to = range[2]
        /\ job'.call = "none" /\ job' # None /\ job'.step = "call"
    <3> DEFINE new == [at |-> range[1], from |-> range[1], to |-> range[2],
                       output |-> output, anomaly |-> None, last |-> None,
                       call |-> "none", hook |-> 1, step |-> "call"]
    <3>1. new \in Jobs
      BY DEF Jobs, Times
    <3> QED BY <1>2, <3>1 DEF LoadModel
  <2>3. range[1] \in Times /\ range[2] \in Times /\ range[1] <= range[2] + 1
        /\ range[2] <= Len(scores)
    BY <1>2 DEF LoadModel, Times
  <2>4. UNCHANGED <<scores, notified, points, object, cut, saved>>
    BY <1>2 DEF LoadModel
  <2>5. TypeOK'
    BY <1>0, <2>1, <2>4 DEF TypeOK
  <2>6. range[1] \in Nat /\ range[2] \in Nat
    BY <2>3 DEF Times
  <2> QED BY <2>1, <2>2, <2>3, <2>4, <2>5, <2>6 DEF TypeInv, ObjectAtHand
<1>3. CASE Detection
  <2>1. /\ job \in Jobs /\ job' \in Jobs /\ job.call = "none" /\ job.at <= job.to
        /\ job'.from = job.from /\ job'.to = job.to
        /\ job'.at = job.at \/ (job'.at = job.at + 1 /\ job'.call = "none")
        /\ job'.step = "call"
    BY <1>3, JobSteps DEF Detection
  <2>2. UNCHANGED <<scores, evals, notified, points, object, cut, saved>>
    BY <1>3 DEF Detection, AnomalyStarts, AnomalyEnds, NextBucket
  <2>3. job.at \in Nat /\ job.to \in Nat /\ job.from \in Nat
    BY <2>1 DEF Jobs, Times
  <2> QED BY <1>0, <2>1, <2>2, <2>3 DEF TypeOK, TypeInv, ObjectAtHand
<1>4. CASE Calls
  <2>1. /\ job \in Jobs /\ job.call # "none" /\ job.at \in Times
        /\ job.hook \in Hooks /\ job.call \in {"start", "end"} /\ evals \in Evals
        /\ UNCHANGED <<scores, evals, saved>>
        /\ NextHook \/ (\E step \in {"set", "move", "forget"} : GoOn(step)) \/ job' = None
    BY <1>0, <1>4, CallsAre DEF TypeInv
  <2>3. job' # None =>
          /\ job'.at = job.at /\ job'.from = job.from /\ job'.to = job.to
          /\ job'.call = job.call
    BY <2>1, NextHookIs, GoOnIs DEF Hooks, Jobs
  <2>4. notified' \in [Hooks -> Seq(Events)]
    <3>1. ASSUME NEW kind \in {"start", "end"}, Notify(kind)
          PROVE  notified' \in [Hooks -> Seq(Events)]
      <4> DEFINE new == [kind |-> kind, at |-> job.at, eval |-> evals]
      <4>1. new \in Events
        BY <2>1 DEF Events
      <4>2. notified' = [notified EXCEPT ![job.hook] = Append(notified[job.hook], new)]
        BY <3>1 DEF Notify
      <4> HIDE DEF new
      <4> QED BY <1>0, <2>1, <4>1, <4>2 DEF TypeOK
    <3>2. CASE UNCHANGED notified
      BY <1>0, <3>2 DEF TypeOK
    <3> QED
      BY <1>4, <3>1, <3>2
         DEF Calls, HookStart, HookStartFails, HookEnd, HookEndFails, KeepPoints, KeepFails,
             WriteEnd, ForgetPoints, EndIsCut
  <2>5. NotesTyped'
    <3>1. NewNote \in Notes
      BY <2>1 DEF NewNote, Notes
    <3>2. NotesTyped
      BY <1>0 DEF TypeOK, NotesTyped
    <3>3. object' \in Notes \cup {None}
      BY <1>4, <3>1, <3>2
         DEF Calls, HookStart, HookStartFails, HookEnd, HookEndFails, KeepPoints, KeepFails,
             WriteEnd, ForgetPoints, EndIsCut, SetObject, DeleteObject, NotesTyped
    <3>4. cut' \subseteq Notes
      <4>1. EndIsCut => object # None
        BY <1>4 DEF TypeInv, ObjectAtHand, EndIsCut, Within
      <4> QED
        BY <1>4, <3>1, <3>2, <4>1
           DEF Calls, HookStart, HookStartFails, HookEnd, HookEndFails, KeepPoints, KeepFails,
               WriteEnd, ForgetPoints, EndIsCut, NotesTyped
    <3>5. points' \in [Places -> Notes \cup {None}]
      <4>1. UNCHANGED points \/ (\E p, n : n \in Notes \cup {None} /\ points' = [points EXCEPT ![p] = n])
        BY <1>4, <3>1, <3>2
           DEF Calls, HookStart, HookStartFails, HookEnd, HookEndFails, KeepPoints, KeepFails,
               WriteEnd, ForgetPoints, EndIsCut, WriteAt, MarkDeleted, NotesTyped
      <4> QED BY <3>2, <4>1 DEF NotesTyped
    <3> QED BY <3>3, <3>4, <3>5 DEF NotesTyped
  <2>7. ObjectAtHand'
    BY <1>4, <2>1
       DEF Calls, HookStart, HookStartFails, HookEnd, HookEndFails, KeepPoints, KeepFails,
           WriteEnd, ForgetPoints, EndIsCut, ObjectAtHand, NextHook, GoOn, Jobs, Within, TypeInv
  <2>6. TypeOK'
    BY <1>0, <2>1, <2>4, <2>5 DEF TypeOK, NotesTyped
  <2> QED BY <2>1, <2>3, <2>6, <2>7 DEF TypeInv
<1>5. CASE HooksCalled
  <2>1. /\ job \in Jobs /\ job.call # "none" /\ job.at <= job.to /\ job.from <= job.at
        /\ job.to <= Len(scores) /\ evals \in Evals
    BY <1>0, <1>5 DEF HooksCalled, TypeInv, TypeOK
  <2>2. /\ job'.at = job.at + 1 /\ job'.from = job.from /\ job'.to = job.to
        /\ job'.call = "none" /\ job'.step = "call"
    BY <1>5, JobSteps
  <2>3. UNCHANGED <<scores, evals, notified, points, object, cut, saved>>
    BY <1>5 DEF HooksCalled
  <2>4. job.at \in Nat /\ job.to \in Nat /\ job.from \in Nat
    BY <2>1 DEF Jobs, Times
  <2> QED BY <1>0, <2>1, <2>2, <2>3, <2>4 DEF TypeOK, TypeInv, ObjectAtHand
<1>6. CASE SaveOutput
  <2>1. job' = None /\ UNCHANGED <<scores, evals, notified, points, object, cut>>
    BY <1>6 DEF SaveOutput
  <2>2. job \in Jobs
    BY <1>0, <1>6 DEF SaveOutput, TypeOK
  <2>3. saved' \subseteq Buckets \X Times
    BY <1>0, <1>6, <2>2 DEF SaveOutput, TypeOK, Jobs, Times
  <2> QED BY <1>0, <2>1, <2>3 DEF TypeOK, TypeInv, ObjectAtHand
<1>7. CASE Killed
  <2>1. job \in Jobs /\ job.step \in {"call", "set", "move", "forget"}
    BY <1>0, <1>7 DEF Killed, TypeOK, Jobs
  <2>2. job.step = "set" => NewNote \in Notes
    <3>1. ASSUME job.step = "set" PROVE job.hook \in Hooks /\ job.at \in Times /\ evals \in Evals
      BY <1>0, <2>1, <3>1 DEF CallInv, StepFits, CallTypes, TypeInv
    <3> QED BY <3>1 DEF NewNote, Notes
  <2>3. job.step \in {"move", "forget"} => object \in Notes
    BY <1>0, <2>1 DEF TypeInv, ObjectAtHand, TypeOK
  <2>4. Halfway \subseteq Notes
    BY <2>1, <2>2, <2>3 DEF Halfway
  <2> QED BY <1>0, <1>7, <2>4 DEF Killed, TypeOK, TypeInv, ObjectAtHand
<1>8. CASE UNCHANGED vars
  BY <1>8 DEF vars, TypeOK, TypeInv, ObjectAtHand
<1>9. ASSUME NEW range \in Ranges, NEW output \in Outputs,
             UserEval(range, output) \/ ScheduledEval(range, output)
      PROVE  TypeInv'
  BY <1>2, <1>9 DEF UserEval, ScheduledEval
<1> QED
  BY <1>1, <1>3, <1>4, <1>5, <1>6, <1>7, <1>8, <1>9 DEF Next, Step, HookCalls, Calls

LEMMA TypesAlways == Spec => []TypeInv
<1>1. CallInv /\ CallInv' /\ TypeInv /\ [Next]_vars => TypeInv'
  BY TypeStep
<1> QED BY <1>1, TypeInit, CallsAlways, PTL DEF Spec

\* The state of evaluations, their calls and annotations is well-formed.
THEOREM TypeCorrect == Spec => []TypeOK
<1>1. TypeInv => TypeOK
  BY DEF TypeInv
<1> QED BY <1>1, TypesAlways, PTL

-----------------------------------------------------------------------------
(* What the hooks are told follows the scores                               *)

\* The calls of a hook go from evaluation to evaluation, and in each of them
\* forward in time.
Sequenced ==
  \A h \in Hooks : \A i, j \in DOMAIN notified[h] : i < j =>
    /\ notified[h][i].eval <= notified[h][j].eval
    /\ notified[h][i].eval = notified[h][j].eval => notified[h][i].at < notified[h][j].at

Follows(h, t) ==
  /\ scores[t] = "high" => InAnomaly(h, evals, t) \/ CoolingDown(h, evals, t)
  /\ scores[t] = "low" => ~InAnomaly(h, evals, t)
  /\ scores[t] = "mid" /\ t > job.from =>
       (InAnomaly(h, evals, t) <=> InAnomaly(h, evals, t - 1))

\* The hooks are being told of what the score says, all were told of an anomaly
\* that is over, and what they heard follows the scores that were looked at.
ScoreInv ==
  job # None =>
    /\ job.call = "start" => scores[job.at] = "high"
    /\ job.call = "end" => scores[job.at] = "low"
    /\ job.last # None \/ job.call = "end" => \A h \in Hooks : Heard(h)
    /\ \A h \in Hooks, t \in job.from..(job.at - 1) : Follows(h, t)

\* A hook whose last call was the start of an anomaly is in it from there on.
LEMMA InProgress ==
  ASSUME CallInv, TypeInv, NEW h \in Hooks, Heard(h), NEW t \in Nat,
         notified[h][Len(notified[h])].kind = "start",
         notified[h][Len(notified[h])].at <= t
  PROVE  InAnomaly(h, evals, t)
<1>1. CallTypes
  BY DEF CallInv
<1>2. Len(notified[h]) \in DOMAIN notified[h]
  BY <1>1, CallsTyped DEF Heard
<1>3. ~(Len(notified[h]) < Len(notified[h]))
  <2>1. notified[h] \in Seq(Event)
    BY <1>1 DEF CallTypes, Event
  <2> QED BY <2>1
<1> QED BY <1>2, <1>3 DEF InAnomaly, Heard

\* A hook whose last call was the end of an anomaly, or that heard nothing in
\* this evaluation, is in none.
LEMMA NoneInProgress ==
  ASSUME CallInv, TypeInv, Sequenced, NEW h \in Hooks, NEW t \in Nat,
         Heard(h) => /\ notified[h][Len(notified[h])].kind = "end"
                     /\ notified[h][Len(notified[h])].at <= t
  PROVE  ~InAnomaly(h, evals, t)
<1> DEFINE s == notified[h]
<1>1. /\ s \in Seq(Event) /\ evals \in Nat /\ \A i \in DOMAIN s : s[i] \in Event
      /\ DOMAIN s = 1..Len(s) /\ Len(s) \in Nat
  <2>1. CallTypes /\ s \in Seq(Event) /\ evals \in Nat
    BY DEF CallInv, CallTypes, Event
  <2> QED BY <2>1, CallsTyped
<1>2. \A i \in DOMAIN s : s[i].at \in Nat /\ s[i].eval \in Nat
  BY <1>1 DEF Event, Times
<1> SUFFICES ASSUME NEW i \in DOMAIN s,
                    s[i].eval = evals, s[i].kind = "start", s[i].at <= t,
                    i < Len(s) /\ s[i + 1].eval = evals => t < s[i + 1].at
             PROVE  FALSE
  BY DEF InAnomaly
<1>3. \A k, j \in DOMAIN s : k < j =>
         s[k].eval <= s[j].eval /\ (s[k].eval = s[j].eval => s[k].at < s[j].at)
  BY DEF Sequenced
<1>4. \A k \in DOMAIN s : s[k].eval <= evals
  BY DEF CallInv, NoFuture
<1> HIDE DEF s
<1>5. /\ Len(s) \in DOMAIN s /\ i \in Nat /\ i <= Len(s)
      /\ \A k \in DOMAIN s : k \in Nat /\ k <= Len(s)
  BY <1>1
<1>6. s[Len(s)].eval = evals
  BY <1>1, <1>2, <1>3, <1>4, <1>5
<1>7. Heard(h) /\ s[Len(s)].kind = "end" /\ s[Len(s)].at <= t
  BY <1>1, <1>5, <1>6 DEF Heard, s
<1>8. i < Len(s) /\ i + 1 \in DOMAIN s
  BY <1>1, <1>5, <1>7
<1>9. s[i + 1].eval = evals
  <2>1. s[i].eval <= s[i + 1].eval
    BY <1>1, <1>3, <1>8
  <2> QED BY <1>1, <1>2, <1>4, <1>8, <2>1
<1>10. s[i + 1].at <= s[Len(s)].at
  BY <1>1, <1>2, <1>3, <1>5, <1>6, <1>8, <1>9
<1> QED BY <1>2, <1>5, <1>7, <1>8, <1>9, <1>10

\* A call leaves the times before it as they were.
LEMMA PastIsKept ==
  ASSUME CallInv, job # None, job.hook \in Hooks, job.at \in Times,
         NEW kind \in {"start", "end"}, Notify(kind), UNCHANGED evals,
         NEW h \in Hooks, NEW t \in Nat, t < job.at
  PROVE  /\ InAnomaly(h, evals, t)' <=> InAnomaly(h, evals, t)
         /\ CoolingDown(h, evals, t)' <=> CoolingDown(h, evals, t)
<1> DEFINE new == [kind |-> kind, at |-> job.at, eval |-> evals]
           old == notified[job.hook]
<1>1. notified \in [Hooks -> Seq(Event)] /\ evals \in Nat
  BY DEF CallInv, CallTypes, Event
<1>2. notified' = [notified EXCEPT ![job.hook] = Append(old, new)]
  BY DEF Notify
<1>3. new \in Event /\ new.at = job.at /\ new.eval = evals
  BY <1>1 DEF Event
<1>4. job.at \in Nat
  BY DEF Times
<1> HIDE DEF new
<1>5. CASE h # job.hook
  <2>1. notified'[h] = notified[h]
    BY <1>1, <1>2, <1>5
  <2> QED BY <2>1 DEF InAnomaly, CoolingDown
<1>6. CASE h = job.hook
  <2>1. old \in Seq(Event) /\ notified'[h] = Append(old, new) /\ old = notified[h]
    BY <1>1, <1>2, <1>6
  <2> HIDE DEF old
  <2>2. /\ DOMAIN old = 1..Len(old) /\ Len(old) \in Nat
        /\ Len(notified'[h]) = Len(old) + 1
        /\ DOMAIN notified'[h] = 1..(Len(old) + 1)
        /\ notified'[h][Len(old) + 1] = new
        /\ \A i \in 1..Len(old) : notified'[h][i] = old[i]
    BY <1>3, <2>1, Appended
  <2>3. ASSUME InAnomaly(h, evals, t) PROVE InAnomaly(h, evals, t)'
    <3>1. PICK i \in DOMAIN old :
            /\ old[i].eval = evals /\ old[i].kind = "start" /\ old[i].at <= t
            /\ i < Len(old) /\ old[i + 1].eval = evals => t < old[i + 1].at
      BY <2>1, <2>3 DEF InAnomaly
    <3>2. i \in DOMAIN notified'[h] /\ notified'[h][i] = old[i]
      BY <2>2, <3>1
    <3>3. ASSUME i < Len(notified'[h]), notified'[h][i + 1].eval = evals
          PROVE  t < notified'[h][i + 1].at
      <4>1. CASE i = Len(old)
        BY <1>3, <1>4, <2>2, <4>1
      <4>2. CASE i < Len(old)
        BY <2>2, <3>1, <3>3, <4>2
      <4> QED BY <2>2, <3>1, <4>1, <4>2
    <3> QED BY <3>1, <3>2, <3>3 DEF InAnomaly
  <2>4. ASSUME InAnomaly(h, evals, t)' PROVE InAnomaly(h, evals, t)
    <3>1. PICK i \in DOMAIN notified'[h] :
            /\ notified'[h][i].eval = evals /\ notified'[h][i].kind = "start"
            /\ notified'[h][i].at <= t
            /\ i < Len(notified'[h]) /\ notified'[h][i + 1].eval = evals
                 => t < notified'[h][i + 1].at
      BY <2>4 DEF InAnomaly
    <3>2. i # Len(old) + 1
      BY <1>3, <1>4, <2>2, <3>1
    <3>3. i \in DOMAIN old /\ notified'[h][i] = old[i]
      BY <2>2, <3>1, <3>2
    <3>4. ASSUME i < Len(old), old[i + 1].eval = evals PROVE t < old[i + 1].at
      BY <2>2, <3>1, <3>3, <3>4
    <3> QED BY <2>1, <3>1, <3>3, <3>4 DEF InAnomaly
  <2>5. ASSUME CoolingDown(h, evals, t) PROVE CoolingDown(h, evals, t)'
    <3>1. PICK i \in DOMAIN old :
            /\ old[i].eval = evals /\ old[i].kind = "end"
            /\ old[i].at <= t /\ t - old[i].at < Grace
      BY <2>1, <2>5 DEF CoolingDown
    <3>2. i \in DOMAIN notified'[h] /\ notified'[h][i] = old[i]
      BY <2>2, <3>1
    <3> QED BY <3>1, <3>2 DEF CoolingDown
  <2>6. ASSUME CoolingDown(h, evals, t)' PROVE CoolingDown(h, evals, t)
    <3>1. PICK i \in DOMAIN notified'[h] :
            /\ notified'[h][i].eval = evals /\ notified'[h][i].kind = "end"
            /\ notified'[h][i].at <= t /\ t - notified'[h][i].at < Grace
      BY <2>6 DEF CoolingDown
    <3>2. i # Len(old) + 1
      BY <1>3, <1>4, <2>2, <3>1
    <3>3. i \in DOMAIN old /\ notified'[h][i] = old[i]
      BY <2>2, <3>1, <3>2
    <3> QED BY <2>1, <3>1, <3>3 DEF CoolingDown
  <2> QED BY <2>3, <2>4, <2>5, <2>6
<1> QED BY <1>5, <1>6

\* A call comes after those that its hook has received.
LEMMA CallIsLater ==
  ASSUME CallInv, CallInv', TypeInv, Sequenced, job # None, job.hook \in Hooks,
         job.at \in Times, NEW kind \in {"start", "end"}, Notify(kind), UNCHANGED evals
  PROVE  Sequenced'
<1> DEFINE k == job.hook
           new == [kind |-> kind, at |-> job.at, eval |-> evals]
           old == notified[k]
<1>1. notified \in [Hooks -> Seq(Event)] /\ evals \in Nat
  BY DEF CallInv, CallTypes, Event
<1>2. notified' = [notified EXCEPT ![k] = Append(old, new)]
  BY DEF Notify
<1>3. new \in Event /\ new.at = job.at /\ new.eval = evals
  BY <1>1 DEF Event
<1>4. OneAnomalyAtATime' /\ NoFuture
  BY DEF CallInv
<1> HIDE DEF new, old, k
<1>5. k \in Hooks /\ old \in Seq(Event) /\ old = notified[k]
  BY <1>1 DEF k, old
<1>6. /\ notified'[k] = Append(old, new)
      /\ \A h \in Hooks : h # k => notified'[h] = notified[h]
  BY <1>1, <1>2, <1>5
<1>7. /\ DOMAIN old = 1..Len(old) /\ Len(old) \in Nat
      /\ DOMAIN notified'[k] = 1..(Len(old) + 1)
      /\ notified'[k][Len(old) + 1] = new
      /\ \A i \in 1..Len(old) : notified'[k][i] = old[i]
  BY <1>3, <1>5, <1>6, Appended
<1>8. \A i \in 1..Len(old) : old[i].eval \in Nat /\ old[i].at \in Nat
  <2>1. \A i \in DOMAIN notified[k] : notified[k][i] \in Event
    BY <1>5, CallsTyped DEF CallInv
  <2>2. \A i \in 1..Len(old) : old[i] \in Event
    BY <1>5, <1>7, <2>1
  <2> QED BY <2>2 DEF Event, Times
<1>9. \A i, j \in 1..Len(old) : i < j =>
        old[i].eval <= old[j].eval /\ (old[i].eval = old[j].eval => old[i].at < old[j].at)
  BY <1>5, <1>7 DEF Sequenced
<1>10. ASSUME NEW i \in 1..Len(old)
       PROVE  old[i].eval <= evals /\ (old[i].eval = evals => old[i].at < job.at)
  <2> DEFINE n == Len(old)
  <2>1. /\ n \in 1..n /\ n + 1 \in DOMAIN notified'[k] /\ n + 1 # 1 /\ (n + 1) - 1 = n
        /\ i \in 1..n /\ n \in Nat
    BY <1>7, <1>10
  <2>2. notified'[k][n] = old[n] /\ notified'[k][n + 1] = new
    BY <1>7, <2>1
  <2>3. \A l \in 1..n : old[l].eval <= evals
    BY <1>4, <1>5, <1>7 DEF NoFuture
  <2>4. /\ old[i].eval \in Nat /\ old[i].at \in Nat /\ old[n].eval \in Nat /\ old[n].at \in Nat
        /\ job.at \in Nat
    BY <1>8, <2>1 DEF Times
  <2>5. i < n => old[i].eval <= old[n].eval /\ (old[i].eval = old[n].eval => old[i].at < old[n].at)
    BY <1>9, <2>1
  <2> HIDE DEF n
  <2>6. ASSUME old[n].eval = evals PROVE old[n].at < job.at
    <3>1. notified'[k][n].eval = notified'[k][n + 1].eval
      BY <1>3, <2>2, <2>6
    <3>2. notified'[k][n + 1].at > notified'[k][n].at
      BY <1>4, <1>5, <2>1, <3>1 DEF OneAnomalyAtATime
    <3> QED BY <1>3, <2>2, <2>4, <3>2
  <2>7. ASSUME old[i].eval = evals, i # n PROVE old[i].at < job.at
    <3>1. i < n
      BY <2>1, <2>7
    <3>2. old[n].eval = evals
      BY <1>1, <2>1, <2>3, <2>4, <2>5, <2>7, <3>1
    <3> QED BY <2>4, <2>5, <2>6, <2>7, <3>1, <3>2
  <2> QED BY <2>1, <2>3, <2>6, <2>7
<1>11. ASSUME NEW h \in Hooks, NEW i \in DOMAIN notified'[h], NEW j \in DOMAIN notified'[h], i < j
       PROVE  /\ notified'[h][i].eval <= notified'[h][j].eval
              /\ notified'[h][i].eval = notified'[h][j].eval
                   => notified'[h][i].at < notified'[h][j].at
  <2>1. CASE h # k
    BY <1>6, <1>11, <2>1 DEF Sequenced
  <2>2. CASE h = k /\ j = Len(old) + 1
    <3>1. i \in 1..Len(old) /\ notified'[h][i] = old[i] /\ notified'[h][j] = new
      BY <1>7, <1>11, <2>2
    <3> QED BY <1>3, <1>10, <3>1
  <2>3. CASE h = k /\ j # Len(old) + 1
    <3>1. i \in 1..Len(old) /\ j \in 1..Len(old)
      BY <1>7, <1>11, <2>3
    <3> QED BY <1>7, <1>9, <1>11, <2>3, <3>1
  <2> QED BY <2>1, <2>2, <2>3
<1> QED BY <1>11 DEF Sequenced

\* The steps that call a hook call the one whose turn it is.
LEMMA HookSteps ==
  ASSUME CallInv, HookStart \/ HookStartFails \/ HookEnd \/ HookEndFails
  PROVE  /\ UNCHANGED <<evals, scores>> /\ job # None /\ job.hook \in Hooks /\ job.at \in Times
         /\ job.call \in {"start", "end"} /\ Notify(job.call)
         /\ job' # None => /\ job'.at = job.at /\ job'.from = job.from
                           /\ job'.call = job.call /\ job'.last = job.last
<1>1. /\ job \in Jobs /\ job # None /\ job.at \in Times /\ job.hook \in Hooks
      /\ job.call \in {"start", "end"} /\ UNCHANGED <<scores, evals>>
      /\ NextHook \/ (\E step \in {"set", "move", "forget"} : GoOn(step)) \/ job' = None
  BY CallsAre DEF Calls
<1>2. Notify(job.call)
  BY DEF HookStart, HookStartFails, HookEnd, HookEndFails, Calling
<1>3. job' # None => /\ job'.at = job.at /\ job'.from = job.from
                     /\ job'.call = job.call /\ job'.last = job.last
  BY <1>1 DEF Jobs, NextHook, GoOn
<1> QED BY <1>1, <1>2, <1>3

\* The steps that go on with a call.
LEMMA MiddleSteps ==
  ASSUME CallInv, KeepPoints \/ KeepFails \/ WriteEnd \/ ForgetPoints \/ EndIsCut
  PROVE  /\ UNCHANGED <<evals, scores, notified>> /\ job # None
         /\ job' # None => /\ job'.at = job.at /\ job'.from = job.from
                           /\ job'.call = job.call /\ job'.last = job.last
<1>1. /\ job \in Jobs /\ job # None /\ UNCHANGED <<scores, evals>>
      /\ NextHook \/ (\E step \in {"set", "move", "forget"} : GoOn(step)) \/ job' = None
  BY CallsAre DEF Calls
<1>2. UNCHANGED notified
  BY DEF KeepPoints, KeepFails, WriteEnd, ForgetPoints, EndIsCut
<1>3. job' # None => /\ job'.at = job.at /\ job'.from = job.from
                     /\ job'.call = job.call /\ job'.last = job.last
  BY <1>1 DEF Jobs, NextHook, GoOn
<1> QED BY <1>1, <1>2, <1>3

LEMMA SequencedAlways == Spec => []Sequenced
<1>1. Init => Sequenced
  BY DEF Init, Sequenced
<1>2. ASSUME CallInv, CallInv', TypeInv, Sequenced, [Next]_vars PROVE Sequenced'
  <2>1. CASE UNCHANGED notified
    BY <1>2, <2>1 DEF Sequenced
  <2>2. CASE HookStart \/ HookStartFails \/ HookEnd \/ HookEndFails
    BY <1>2, <2>2, HookSteps, CallIsLater
  <2> QED
    BY <1>2, <2>1, <2>2
       DEF Next, Step, Detection, HookCalls, NewBucket, UserEval, ScheduledEval, LoadModel,
           AnomalyStarts, AnomalyEnds, NextBucket, HooksCalled, SaveOutput, Killed, vars,
           KeepPoints, KeepFails, WriteEnd, ForgetPoints, EndIsCut
<1>3. CallInv /\ CallInv' /\ TypeInv /\ Sequenced /\ [Next]_vars => Sequenced'
  BY <1>2
<1> QED BY <1>1, <1>3, CallsAlways, TypesAlways, PTL DEF Spec

\* Times whose score and calls have not changed are followed as before.
LEMMA StillFollows ==
  ASSUME UNCHANGED <<evals, notified>>, job # None, job' # None, job'.from = job.from,
         NEW h \in Hooks, NEW t, scores'[t] = scores[t], Follows(h, t)
  PROVE  Follows(h, t)'
<1>1. /\ InAnomaly(h, evals, t)' <=> InAnomaly(h, evals, t)
      /\ InAnomaly(h, evals, t - 1)' <=> InAnomaly(h, evals, t - 1)
      /\ CoolingDown(h, evals, t)' <=> CoolingDown(h, evals, t)
  BY DEF InAnomaly, CoolingDown
<1> QED BY <1>1 DEF Follows

\* Where the automaton goes on to the next bucket, the one that it leaves is
\* followed.
LEMMA BucketFollowed ==
  ASSUME CallInv, TypeInv, Sequenced, ScoreInv, NextBucket \/ HooksCalled, NEW h \in Hooks
  PROVE  Follows(h, job.at)
<1> DEFINE last == notified[h][Len(notified[h])]
<1>0. /\ job \in Jobs /\ job # None /\ job.at <= job.to /\ job.from <= job.at
      /\ job.at \in Nat /\ job.from \in Nat /\ job.from >= 1
  BY TimeAssumption DEF NextBucket, HooksCalled, Detecting, CallInv, CallTypes, TypeInv, Jobs, Times
<1>1. /\ Automaton /\ LastCall
      /\ \A g \in Hooks : Heard(g) => last.at \in Times \/ g # h
  BY CallsTyped DEF CallInv, Heard, Event
<1>2. /\ Inside(h) => Heard(h) /\ last.kind = "start" /\ last.at = job.anomaly
      /\ ~Inside(h) /\ Heard(h) =>
           last.kind = "end" /\ last.at = (IF job.call = "end" THEN job.at ELSE job.last)
  BY <1>0, <1>1 DEF LastCall
<1>3. Heard(h) => last.at \in Nat /\ last.at # None
  BY <1>1, BucketsAssumption DEF Times
<1>4. job.from < job.at => job.at - 1 \in Nat
  BY <1>0
<1> HIDE DEF last
<1>5. CASE NextBucket /\ job.anomaly = None
  <2>1. job.call = "none" /\ ~IsAnomaly /\ ~Inside(h)
    BY <1>5 DEF NextBucket, Detecting, Inside
  <2>2. Heard(h) => last.kind = "end" /\ last.at = job.last /\ last.at < job.at
    BY <1>0, <1>1, <1>2, <1>3, <2>1 DEF Automaton
  <2>3. ~InAnomaly(h, evals, job.at)
    BY <1>0, <1>3, <2>2, NoneInProgress DEF last
  <2>4. job.from < job.at => ~InAnomaly(h, evals, job.at - 1)
    <3>1. Heard(h) => last.at <= job.at - 1
      BY <1>0, <1>3, <2>2
    <3> QED BY <1>4, <2>2, <3>1, NoneInProgress DEF last
  <2>5. ASSUME scores[job.at] = "high" PROVE CoolingDown(h, evals, job.at)
    <3>1. job.last # None /\ job.at - job.last < Grace
      BY <2>1, <2>5 DEF IsAnomaly, InGracePeriod
    <3>2. Heard(h)
      BY <1>0, <3>1 DEF ScoreInv
    <3>3. Len(notified[h]) \in DOMAIN notified[h]
      BY <3>2, CallsTyped DEF Heard, CallInv
    <3>4. last.eval = evals /\ last.kind = "end" /\ last.at <= job.at /\ job.at - last.at < Grace
      BY <1>0, <1>3, <2>2, <3>1, <3>2 DEF Heard, last
    <3> QED BY <3>3, <3>4 DEF CoolingDown, last
  <2> QED BY <2>3, <2>4, <2>5 DEF Follows
<1>6. CASE NextBucket /\ job.anomaly # None
  <2>1. job.call = "none" /\ ~IsOver /\ Inside(h)
    BY <1>6 DEF NextBucket, Detecting, Inside
  <2>2. Heard(h) /\ last.kind = "start" /\ last.at < job.at
    BY <1>0, <1>1, <1>2, <1>6, <2>1 DEF Automaton
  <2>3. InAnomaly(h, evals, job.at)
    <3>1. last.at <= job.at
      BY <1>0, <1>3, <2>2
    <3> QED BY <1>0, <2>2, <3>1, InProgress DEF last
  <2>4. job.from < job.at => InAnomaly(h, evals, job.at - 1)
    <3>1. last.at <= job.at - 1
      BY <1>0, <1>3, <2>2
    <3> QED BY <1>4, <2>2, <3>1, InProgress DEF last
  <2>5. scores[job.at] # "low"
    BY <2>1 DEF IsOver, IsAnomaly
  <2> QED BY <2>3, <2>4, <2>5 DEF Follows
<1>7. CASE HooksCalled /\ job.call = "start"
  <2>1. Inside(h) /\ job.anomaly = job.at
    BY <1>0, <1>1, <1>7, HooksAssumption, JobSteps
       DEF HooksCalled, Inside, Turn, Automaton, Hooks, Jobs
  <2>2. InAnomaly(h, evals, job.at)
    <3>1. last.at <= job.at
      BY <1>0, <1>2, <2>1
    <3> QED BY <1>0, <1>2, <2>1, <3>1, InProgress DEF last
  <2>3. scores[job.at] = "high"
    BY <1>0, <1>7 DEF ScoreInv
  <2> QED BY <2>2, <2>3 DEF Follows
<1>8. CASE HooksCalled /\ job.call = "end"
  <2>1. ~Inside(h)
    BY <1>0, <1>8, HooksAssumption, JobSteps DEF HooksCalled, Inside, Turn, Hooks, Jobs
  <2>2. Heard(h) => last.kind = "end" /\ last.at <= job.at
    BY <1>0, <1>2, <1>8, <2>1
  <2>3. ~InAnomaly(h, evals, job.at)
    BY <1>0, <2>2, NoneInProgress DEF last
  <2>4. scores[job.at] = "low"
    BY <1>0, <1>8 DEF ScoreInv
  <2> QED BY <2>3, <2>4 DEF Follows
<1> QED BY <1>0, <1>5, <1>6, <1>7, <1>8 DEF HooksCalled, Jobs

LEMMA ScoreStep ==
  ASSUME CallInv, CallInv', TypeInv, TypeInv', Sequenced, ScoreInv, [Next]_vars
  PROVE  ScoreInv'
<1> USE TimeAssumption, HooksAssumption, BucketsAssumption, JobsAssumption
<1>0. job \in Jobs \cup {None} /\ job' \in Jobs \cup {None}
  BY DEF CallInv, CallTypes
<1>1. ASSUME NEW s \in Scores, NewBucket(s) PROVE ScoreInv'
  <2>1. UNCHANGED <<evals, job, notified>> /\ scores' = Append(scores, s) /\ scores \in Seq(Scores)
    BY <1>1 DEF NewBucket, TypeInv, TypeOK
  <2>2. \A t \in 1..Len(scores) : scores'[t] = scores[t]
    BY <2>1
  <2>3. ASSUME job # None
        PROVE  /\ job.call # "none" => job.at \in 1..Len(scores)
               /\ \A t \in job.from..(job.at - 1) : t \in 1..Len(scores)
    <3>1. /\ job.at \in Nat /\ job.from \in Nat /\ job.to \in Nat /\ 1 <= job.from
          /\ job.from <= job.at /\ job.at <= job.to + 1 /\ job.to <= Len(scores)
          /\ job.call # "none" => job.at <= job.to
      BY <1>0, <2>3 DEF TypeInv, Jobs, Times
    <3>2. Len(scores) \in Nat
      BY <2>1
    <3> QED BY <3>1, <3>2
  <2>4. ASSUME job # None, NEW h \in Hooks, NEW t \in job.from..(job.at - 1)
        PROVE  Follows(h, t)'
    BY <2>1, <2>2, <2>3, <2>4, StillFollows DEF ScoreInv
  <2>5. \A h \in Hooks : Heard(h)' <=> Heard(h)
    BY <2>1 DEF Heard
  <2>6. job # None => /\ job.call = "start" => scores'[job.at] = "high"
                      /\ job.call = "end" => scores'[job.at] = "low"
    BY <2>2, <2>3 DEF ScoreInv
  <2> QED BY <2>1, <2>4, <2>5, <2>6 DEF ScoreInv
<1>2. ASSUME NEW range \in Ranges, NEW output \in Buckets \cup {None, NoneAsText},
             LoadModel(range, output)
      PROVE  ScoreInv'
  <2>1. /\ job'.at = range[1] /\ job'.from = range[1] /\ job'.last = None
        /\ job'.call = "none" /\ job' # None
    <3> DEFINE new == [at |-> range[1], from |-> range[1], to |-> range[2],
                       output |-> output, anomaly |-> None, last |-> None,
                       call |-> "none", hook |-> 1, step |-> "call"]
    <3>1. new \in Jobs
      BY DEF Jobs, Times
    <3> QED BY <1>2, <3>1 DEF LoadModel
  <2>2. range[1] \in Nat /\ \A t \in range[1]..(range[1] - 1) : FALSE
    BY DEF Times
  <2> QED BY <2>1, <2>2 DEF ScoreInv
<1>3. CASE AnomalyStarts
  <2>1. /\ job \in Jobs /\ job' \in Jobs /\ job'.at = job.at /\ job'.from = job.from
        /\ job'.last = job.last /\ job'.call = "start" /\ scores[job.at] = "high"
        /\ UNCHANGED <<scores, evals, notified>>
    BY <1>3, JobSteps DEF AnomalyStarts, IsAnomaly
  <2>2. ASSUME NEW h \in Hooks, NEW t \in job.from..(job.at - 1) PROVE Follows(h, t)'
    BY <2>1, <2>2, StillFollows DEF ScoreInv
  <2>3. \A h \in Hooks : Heard(h)' <=> Heard(h)
    BY <2>1 DEF Heard
  <2> QED BY <2>1, <2>2, <2>3 DEF ScoreInv
<1>4. CASE AnomalyEnds
  <2>1. /\ job \in Jobs /\ job' \in Jobs /\ job'.at = job.at /\ job'.from = job.from
        /\ job'.last = job.last /\ job'.call = "end" /\ scores[job.at] = "low"
        /\ job.anomaly # None /\ job.call = "none"
        /\ UNCHANGED <<scores, evals, notified>>
    BY <1>4, JobSteps DEF AnomalyEnds, IsOver
  <2>2. ASSUME NEW h \in Hooks, NEW t \in job.from..(job.at - 1) PROVE Follows(h, t)'
    BY <2>1, <2>2, StillFollows DEF ScoreInv
  <2>3. ASSUME NEW h \in Hooks PROVE Heard(h)'
    <3>1. Inside(h)
      BY <2>1 DEF Inside
    <3>2. Heard(h)
      BY <2>1, <3>1 DEF CallInv, LastCall
    <3> QED BY <2>1, <3>2 DEF Heard
  <2> QED BY <2>1, <2>2, <2>3 DEF ScoreInv
<1>5. CASE NextBucket \/ HooksCalled
  <2>1. /\ job \in Jobs /\ job' # None /\ job'.at = job.at + 1 /\ job'.from = job.from
        /\ job'.call = "none" /\ (job'.last # None => job.last # None \/ job.call = "end")
        /\ UNCHANGED <<scores, evals, notified>>
    <3>1. CASE NextBucket
      BY <3>1, JobSteps DEF NextBucket
    <3>2. CASE HooksCalled
      BY <3>2, JobSteps DEF HooksCalled
    <3> QED BY <1>5, <3>1, <3>2
  <2>2. job.at \in Nat /\ job.from \in Nat
    BY <2>1 DEF Jobs, Times
  <2>3. \A h \in Hooks : Follows(h, job.at)
    BY <1>5, BucketFollowed
  <2>4. ASSUME NEW h \in Hooks, NEW t \in job'.from..(job'.at - 1) PROVE Follows(h, t)'
    <3>1. t = job.at \/ t \in job.from..(job.at - 1)
      BY <2>1, <2>2, <2>4
    <3>2. Follows(h, t)
      BY <2>1, <2>3, <3>1 DEF ScoreInv
    <3> QED BY <2>1, <3>2, StillFollows
  <2>5. \A h \in Hooks : Heard(h)' <=> Heard(h)
    BY <2>1 DEF Heard
  <2>6. job'.last # None \/ job'.call = "end" => \A h \in Hooks : Heard(h)'
    BY <2>1, <2>5 DEF ScoreInv
  <2> QED BY <2>1, <2>4, <2>6 DEF ScoreInv
<1>6. ASSUME UNCHANGED <<evals, scores>>, job # None, job.hook \in Hooks, job.at \in Times,
             job.call \in {"start", "end"}, Notify(job.call),
             job' # None, job'.at = job.at, job'.from = job.from,
             job'.call = job.call, job'.last = job.last
      PROVE  ScoreInv'
  <2>1. job.at \in Nat /\ job.from \in Nat /\ 1 <= job.from
    BY <1>0, <1>6 DEF Jobs, Times
  <2>2. ASSUME NEW h \in Hooks, NEW t \in job.from..(job.at - 1) PROVE Follows(h, t)'
    <3>1. t \in Nat /\ t < job.at /\ (t > job.from => t - 1 \in Nat /\ t - 1 < job.at)
      BY <2>1, <2>2
    <3>2. /\ InAnomaly(h, evals, t)' <=> InAnomaly(h, evals, t)
          /\ CoolingDown(h, evals, t)' <=> CoolingDown(h, evals, t)
      BY <1>6, <2>2, <3>1, PastIsKept
    <3>3. t > job.from => (InAnomaly(h, evals, t - 1)' <=> InAnomaly(h, evals, t - 1))
      BY <1>6, <2>2, <3>1, PastIsKept
    <3>4. Follows(h, t)
      BY <1>6, <2>2 DEF ScoreInv
    <3> QED BY <1>6, <3>2, <3>3, <3>4 DEF Follows
  <2>3. ASSUME NEW h \in Hooks, Heard(h) PROVE Heard(h)'
    <3> DEFINE new == [kind |-> job.call, at |-> job.at, eval |-> evals]
               old == notified[job.hook]
    <3>1. notified \in [Hooks -> Seq(Event)] /\ evals \in Nat
      BY DEF CallInv, CallTypes, Event
    <3>2. notified' = [notified EXCEPT ![job.hook] = Append(old, new)]
      BY <1>6 DEF Notify
    <3>3. new \in Event /\ new.eval = evals /\ old \in Seq(Event)
      BY <1>6, <3>1 DEF Event
    <3> HIDE DEF new, old
    <3>4. CASE h # job.hook
      <4>1. notified'[h] = notified[h]
        BY <3>1, <3>2, <3>4
      <4> QED BY <1>6, <2>3, <4>1 DEF Heard
    <3>5. CASE h = job.hook
      <4>1. notified'[h] = Append(old, new)
        BY <1>6, <3>1, <3>2, <3>5
      <4>2. /\ Len(notified'[h]) = Len(old) + 1 /\ notified'[h][Len(old) + 1] = new
            /\ notified'[h] # <<>>
        BY <3>3, <4>1, Appended
      <4> QED BY <1>6, <3>3, <4>2 DEF Heard
    <3> QED BY <3>4, <3>5
  <2>4. /\ job.call = "start" => scores[job.at] = "high"
        /\ job.call = "end" => scores[job.at] = "low"
        /\ job.last # None \/ job.call = "end" => \A h \in Hooks : Heard(h)
    BY <1>6 DEF ScoreInv
  <2> QED BY <1>6, <2>2, <2>3, <2>4 DEF ScoreInv
<1>7. CASE job' = None
  BY <1>7 DEF ScoreInv
<1>8. CASE UNCHANGED vars
  <2>1. UNCHANGED <<scores, evals, job, notified>>
    BY <1>8 DEF vars
  <2>2. \A h \in Hooks : Heard(h)' <=> Heard(h)
    BY <2>1 DEF Heard
  <2>3. job # None => \A h \in Hooks, t \in job.from..(job.at - 1) : Follows(h, t)'
    BY <2>1, StillFollows DEF ScoreInv
  <2> QED BY <2>1, <2>2, <2>3 DEF ScoreInv
<1>9. ASSUME NEW range \in Ranges, NEW output \in Outputs,
             UserEval(range, output) \/ ScheduledEval(range, output)
      PROVE  ScoreInv'
  BY <1>2, <1>9 DEF UserEval, ScheduledEval
<1>10. CASE HookStart \/ HookStartFails \/ HookEnd \/ HookEndFails
  BY <1>6, <1>7, <1>10, HookSteps
<1>11. CASE KeepPoints \/ KeepFails \/ WriteEnd \/ ForgetPoints \/ EndIsCut
  <2>1. CASE job' = None
    BY <1>7, <2>1
  <2>2. CASE job' # None
    <3>1. /\ UNCHANGED <<evals, scores, notified>> /\ job # None
          /\ job'.at = job.at /\ job'.from = job.from
          /\ job'.call = job.call /\ job'.last = job.last
      BY <1>11, <2>2, MiddleSteps
    <3>2. \A h \in Hooks : Heard(h)' <=> Heard(h)
      BY <3>1 DEF Heard
    <3>3. \A h \in Hooks, t \in job.from..(job.at - 1) : Follows(h, t)'
      BY <2>2, <3>1, StillFollows DEF ScoreInv
    <3> QED BY <3>1, <3>2, <3>3 DEF ScoreInv
  <2> QED BY <2>1, <2>2
<1> QED
  BY <1>1, <1>3, <1>4, <1>5, <1>6, <1>7, <1>8, <1>9, <1>10, <1>11
     DEF Next, Step, Detection, HookCalls, SaveOutput, Killed

LEMMA ScoresAlways == Spec => []ScoreInv
<1>1. Init => ScoreInv
  BY DEF Init, ScoreInv
<1>2. /\ CallInv /\ CallInv' /\ TypeInv /\ TypeInv' /\ Sequenced /\ ScoreInv /\ [Next]_vars
      => ScoreInv'
  BY ScoreStep
<1> QED BY <1>1, <1>2, CallsAlways, TypesAlways, SequencedAlways, PTL DEF Spec

\* What each hook is told follows the scores: a high score is in an anomaly or
\* in a period of grace, a low one ends the anomaly and one in between changes
\* nothing, for any hooks, ranges and scores, and whatever hooks fail.
THEOREM ToldWhatScoresSay == Spec => []AnomaliesFollowScores
<1>1. ScoreInv => AnomaliesFollowScores
  BY DEF ScoreInv, Follows, AnomaliesFollowScores
<1> QED BY <1>1, ScoresAlways, PTL

-----------------------------------------------------------------------------
(* The annotations                                                          *)

\* The annotation of the start that hook h heard of in its call number i.
Starts(h, i) == notified[h][i].eval = evals /\ notified[h][i].kind = "start"
NoteOf(h, i) == <<h, evals, notified[h][i].at>>

\* Annotation n is from before the place of the evaluation, or from the start
\* that its hooks are being told of, and of a hook before k.
Mentioned(n, k) ==
  /\ n[2] <= evals
  /\ job # None /\ n[2] = evals =>
       n[3] < job.at \/ (n[3] = job.at /\ job.call = "start" /\ n[1] < k)

\* Nothing names an annotation that is yet to be made, and that of the object
\* is not shown at an end as long as its calls were not cut off.
Marks ==
  /\ \A p \in Places : points[p] # None => Mentioned(points[p], Turn)
  /\ \A n \in cut : Mentioned(n, job.hook)
  /\ object # None =>
       /\ Mentioned(object, job.hook) /\ object[1] \in Annotators
       /\ object \notin cut /\ (job = None \/ job.step # "forget") =>
            Shown(object) \subseteq {object[3]}

\* An object of the evaluation is of the anomaly in progress; an older one
\* is there only when no annotation of the evaluation was kept. The first
\* annotation hook that hears of an end takes the object.
ObjectFits ==
  job # None /\ object # None =>
    /\ object[2] = evals => object[3] = job.anomaly /\ object \notin cut
    /\ job.call = "end" => \A a \in Annotators : a >= job.hook
    /\ object[2] # evals =>
         \A h \in Annotators : \A i \in DOMAIN notified[h] :
           Starts(h, i) => \/ NoteOf(h, i) \in cut
                           \/ NoteOf(h, i) = NewNote /\ job.step = "set"

\* A hook that was told of the end was told of it right after the start.
EndHeard ==
  job # None /\ job.call = "end" =>
    \A h \in Annotators : \A i \in DOMAIN notified[h] :
      Starts(h, i) /\ notified[h][i].at = job.anomaly /\ i < Len(notified[h])
        => notified[h][i + 1].at = job.at

\* The anomalies that are over ended before this time.
Bound == IF job.anomaly = None THEN job.at ELSE job.anomaly

Closed(h, i) ==
  /\ i < Len(notified[h])
  /\ notified[h][i + 1].at < Bound
  /\ NoteOf(h, i) \notin cut /\ ~Replaced(NoteOf(h, i)) =>
       Shown(NoteOf(h, i)) = {notified[h][i + 1].at}

\* The annotations of the anomalies that are over are shown at their ends.
PastClosed ==
  job # None =>
    \A h \in Annotators : \A i \in DOMAIN notified[h] :
      Starts(h, i) /\ notified[h][i].at # job.anomaly => Closed(h, i)

\* The annotation of hook h for the anomaly in progress.
Current(h) == <<h, evals, job.anomaly>>

\* It is open, and the object is the last of them.
Open(h) ==
  /\ Shown(Current(h)) = {job.anomaly}
  /\ object # None /\ object[2] = evals /\ object[1] >= h

\* Its end is being written, or was written.
Ending(h) ==
  \/ object = Current(h) /\ job.step = "call" /\ Shown(Current(h)) = {job.anomaly}
  \/ object = Current(h) /\ job.step = "move" /\ Shown(Current(h)) = {}
  \/ object = Current(h) /\ job.step = "forget" /\ Shown(Current(h)) = {job.at}
  \/ object = None /\ job.step = "call" /\ Shown(Current(h)) = {job.at}

CurrentOpen ==
  job # None /\ job.anomaly # None =>
    \A h \in Annotators : Current(h) \notin cut =>
      /\ job.call = "none" \/ (job.call = "start" /\ h < job.hook) => Open(h)
      /\ job.call = "start" /\ job.step = "set" /\ h = job.hook =>
           Shown(Current(h)) = {job.anomaly}
      /\ job.call = "end" /\ ~Replaced(Current(h)) => Ending(h)

NotesInv == Marks /\ ObjectFits /\ EndHeard /\ PastClosed /\ CurrentOpen

LEMMA NotesInit == Init => NotesInv
  BY DEF Init, NotesInv, Marks, ObjectFits, EndHeard, PastClosed, CurrentOpen

\* Where an annotation is shown among given points.
ShownIn(pts, n) == {t \in Times : pts[<<n[1], t>>] = n}

LEMMA ShownIs == \A n : Shown(n) = ShownIn(points, n) /\ ShownIn(points, n)' = ShownIn(points', n')
  BY DEF Shown, ShownIn

\* What the writing of a point changes.
LEMMA Written ==
  ASSUME TypeInv, NEW m \in Notes, NEW t \in Times, WriteAt(t, m)
  PROVE  /\ \A p \in Places : points'[p] = points[p] \/ points'[p] = m
         /\ \A n \in Notes :
              /\ n = m => ShownIn(points', n) = ShownIn(points, n) \cup {t}
              /\ n # m => ShownIn(points', n) \subseteq ShownIn(points, n)
              /\ n # m /\ t \notin ShownIn(points, n) =>
                   ShownIn(points', n) = ShownIn(points, n)
              /\ n[1] # m[1] => ShownIn(points', n) = ShownIn(points, n)
<1>1. points \in [Places -> Notes \cup {None}] /\ <<m[1], t>> \in Places
  BY PlaceIs DEF TypeInv, TypeOK
<1>2. points' = [points EXCEPT ![<<m[1], t>>] = m]
  BY DEF WriteAt
<1>3. \A p \in Places : points'[p] = IF p = <<m[1], t>> THEN m ELSE points[p]
  BY <1>1, <1>2
<1>4. ASSUME NEW n \in Notes, NEW u \in Times
      PROVE  points'[<<n[1], u>>] = IF n[1] = m[1] /\ u = t THEN m ELSE points[<<n[1], u>>]
  BY <1>3, PlaceIs
<1>5. \A p \in Places : points'[p] = points[p] \/ points'[p] = m
  BY <1>3
<1>6. ASSUME NEW n \in Notes
      PROVE  /\ n = m => ShownIn(points', n) = ShownIn(points, n) \cup {t}
             /\ n # m => ShownIn(points', n) \subseteq ShownIn(points, n)
             /\ n # m /\ t \notin ShownIn(points, n) =>
                  ShownIn(points', n) = ShownIn(points, n)
             /\ n[1] # m[1] => ShownIn(points', n) = ShownIn(points, n)
  BY <1>4 DEF ShownIn
<1> QED BY <1>5, <1>6

\* What the deletion of a point changes.
LEMMA Deleted ==
  ASSUME TypeInv, NEW m \in Notes, MarkDeleted(m)
  PROVE  /\ \A p \in Places : points'[p] = points[p] \/ points'[p] = None
         /\ \A n \in Notes :
              /\ ShownIn(points', n) \subseteq ShownIn(points, n)
              /\ ShownIn(points, n) \ {m[3]} \subseteq ShownIn(points', n)
              /\ n = m => m[3] \notin ShownIn(points', n)
<1>1. points \in [Places -> Notes \cup {None}] /\ <<m[1], m[3]>> \in Places
  BY PlaceIs, NoteParts DEF TypeInv, TypeOK
<1>2. points' = [points EXCEPT ![<<m[1], m[3]>>] = None]
  BY DEF MarkDeleted
<1>3. \A p \in Places : points'[p] = IF p = <<m[1], m[3]>> THEN None ELSE points[p]
  BY <1>1, <1>2
<1>4. ASSUME NEW n \in Notes, NEW u \in Times
      PROVE  points'[<<n[1], u>>] = IF n[1] = m[1] /\ u = m[3] THEN None ELSE points[<<n[1], u>>]
  BY <1>3, PlaceIs
<1>5. \A p \in Places : points'[p] = points[p] \/ points'[p] = None
  BY <1>3
<1>6. ASSUME NEW n \in Notes
      PROVE  /\ ShownIn(points', n) \subseteq ShownIn(points, n)
             /\ ShownIn(points, n) \ {m[3]} \subseteq ShownIn(points', n)
             /\ n = m => m[3] \notin ShownIn(points', n)
  BY <1>4, NotesAssumption DEF ShownIn
<1> QED BY <1>5, <1>6

\* The calls that the hooks heard of before are kept by one more.
LEMMA EventsKept ==
  ASSUME CallInv, job.hook \in Hooks, job.at \in Times, NEW kind \in {"start", "end"},
         Notify(kind), NEW h \in Hooks, NEW i \in DOMAIN notified'[h]
  PROVE  \/ /\ i \in DOMAIN notified[h] /\ notified'[h][i] = notified[h][i]
            /\ i < Len(notified[h]) =>
                 i < Len(notified'[h]) /\ notified'[h][i + 1] = notified[h][i + 1]
            /\ ~(i < Len(notified[h])) /\ i < Len(notified'[h]) =>
                 h = job.hook /\ notified'[h][i + 1].at = job.at
         \/ h = job.hook /\ notified'[h][i].kind = kind /\ notified'[h][i].at = job.at
<1> DEFINE new == [kind |-> kind, at |-> job.at, eval |-> evals]
           old == notified[job.hook]
<1>1. notified \in [Hooks -> Seq(Event)] /\ evals \in Nat
  BY DEF CallInv, CallTypes, Event
<1>2. notified' = [notified EXCEPT ![job.hook] = Append(old, new)]
  BY DEF Notify
<1>3. new \in Event /\ new.at = job.at /\ new.kind = kind
  BY <1>1 DEF Event
<1> HIDE DEF new
<1>4. CASE h # job.hook
  <2>1. notified'[h] = notified[h] /\ notified[h] \in Seq(Event)
    BY <1>1, <1>2, <1>4
  <2>2. DOMAIN notified[h] = 1..Len(notified[h]) /\ Len(notified[h]) \in Nat
    BY <2>1
  <2> QED BY <2>1, <2>2
<1>5. CASE h = job.hook
  <2>1. old \in Seq(Event) /\ notified'[h] = Append(old, new) /\ old = notified[h]
    BY <1>1, <1>2, <1>5
  <2> HIDE DEF old
  <2>2. /\ DOMAIN old = 1..Len(old) /\ Len(old) \in Nat
        /\ Len(notified'[h]) = Len(old) + 1
        /\ DOMAIN notified'[h] = 1..(Len(old) + 1)
        /\ notified'[h][Len(old) + 1] = new
        /\ \A k \in 1..Len(old) : notified'[h][k] = old[k]
    BY <1>3, <2>1, Appended
  <2>3. CASE i = Len(old) + 1
    BY <1>3, <1>5, <2>2, <2>3
  <2>4. CASE i \in 1..Len(old)
    <3>1. i \in DOMAIN old /\ notified'[h][i] = old[i]
      BY <2>2, <2>4
    <3>2. i < Len(old) => i < Len(notified'[h]) /\ notified'[h][i + 1] = old[i + 1]
      BY <2>2, <2>4
    <3>3. ~(i < Len(old)) => notified'[h][i + 1].at = job.at
      BY <1>3, <2>2, <2>4
    <3> QED BY <1>5, <2>1, <3>1, <3>2, <3>3
  <2> QED BY <2>2, <2>3, <2>4
<1> QED BY <1>4, <1>5

\* What a call that hook h heard of in the evaluation under way is made of.
LEMMA EventParts ==
  ASSUME CallInv, TypeInv, NEW h \in Annotators, NEW i \in DOMAIN notified[h]
  PROVE  /\ h \in Hooks /\ h \in Nat /\ h >= 1 /\ h <= NbHooks
         /\ notified[h][i].at \in Times /\ notified[h][i].at \in Nat
         /\ notified[h][i].at # None /\ notified[h][i].eval \in Nat
         /\ job # None => NoteOf(h, i) \in Notes
         /\ NoteOf(h, i)[1] = h /\ NoteOf(h, i)[2] = evals
         /\ NoteOf(h, i)[3] = notified[h][i].at
<1>1. h \in Hooks /\ h \in Nat /\ h >= 1 /\ h <= NbHooks
  BY HooksAssumption DEF Hooks
<1>2. notified[h][i] \in Event
  BY <1>1, CallsTyped DEF CallInv
<1>3. notified[h][i].at \in Times /\ notified[h][i].at \in Nat /\ notified[h][i].eval \in Nat
  BY <1>2 DEF Event, Times
<1>4. notified[h][i].at # None
  BY <1>3, BucketsAssumption
<1>5. job # None => NoteOf(h, i) \in Notes
  BY <1>1, <1>3 DEF NoteOf, Notes, TypeInv
<1> QED BY <1>1, <1>3, <1>4, <1>5 DEF NoteOf

\* The annotation of a hook for the anomaly in progress.
LEMMA CurrentParts ==
  ASSUME CallInv, TypeInv, job # None, job.anomaly # None, NEW h \in Annotators
  PROVE  /\ Current(h) \in Notes /\ h \in Hooks /\ h \in Nat /\ h >= 1 /\ h <= NbHooks
         /\ Current(h)[1] = h /\ Current(h)[2] = evals /\ Current(h)[3] = job.anomaly
         /\ job.anomaly \in Times /\ job.anomaly \in Nat /\ evals \in Nat
<1>1. h \in Hooks /\ h \in Nat /\ h >= 1 /\ h <= NbHooks
  BY HooksAssumption DEF Hooks
<1>2. job \in Jobs /\ evals \in Evals /\ evals \in Nat
  BY DEF TypeInv, TypeOK, Evals
<1>3. job.anomaly \in Times /\ job.anomaly \in Nat
  BY <1>2 DEF Jobs, Times
<1> QED BY <1>1, <1>2, <1>3 DEF Current, Notes

\* What the evaluation knows of its fields.
LEMMA JobParts ==
  ASSUME TypeInv, job # None
  PROVE  /\ job \in Jobs /\ job.at \in Nat /\ job.hook \in Nat /\ job.hook >= 1
         /\ job.anomaly \in Times \cup {None} /\ evals \in Nat /\ evals \in Evals
         /\ job.anomaly # None => job.anomaly \in Nat
         /\ job.step \in {"call", "set", "move", "forget"} /\ job.call \in {"none", "start", "end"}
<1>1. job \in Jobs /\ evals \in Evals /\ evals \in Nat
  BY DEF TypeInv, TypeOK, Evals
<1> QED BY <1>1 DEF Jobs, Times

\* The annotations of an anomaly that is over stay closed.
LEMMA StillClosed ==
  ASSUME evals' = evals, NEW h, NEW i, notified'[h][i] = notified[h][i],
         i < Len(notified[h]) => i < Len(notified'[h]) /\ notified'[h][i + 1] = notified[h][i + 1],
         notified[h][i + 1].at < Bound => notified[h][i + 1].at < Bound',
         cut \subseteq cut', Replaced(NoteOf(h, i)) => Replaced(NoteOf(h, i))',
         NoteOf(h, i) \notin cut /\ ~Replaced(NoteOf(h, i)) =>
           ShownIn(points', NoteOf(h, i)) = ShownIn(points, NoteOf(h, i)),
         Closed(h, i)
  PROVE  Closed(h, i)'
<1>1. NoteOf(h, i)' = NoteOf(h, i)
  BY DEF NoteOf
<1>2. Shown(NoteOf(h, i))' = ShownIn(points', NoteOf(h, i))
  BY <1>1 DEF Shown, ShownIn
<1> DEFINE n == NoteOf(h, i)
<1>3. Shown(n) = ShownIn(points, n)
  BY ShownIs
<1> QED BY <1>1, <1>2, <1>3 DEF Closed

\* The place and the anomaly of the evaluation stay as they are in the calls.
LEMMA CallKeeps ==
  ASSUME CallInv, TypeInv, Calls
  PROVE  /\ job # None /\ job.hook \in Hooks /\ job.hook \in Nat /\ job.hook <= NbHooks
         /\ job.at \in Times /\ job.at \in Nat
         /\ job.call \in {"start", "end"} /\ evals' = evals
         /\ job.anomaly # None /\ job.anomaly \in Times /\ job.anomaly \in Nat
         /\ job.call = "start" => job.anomaly = job.at
         /\ job.call = "end" => job.anomaly < job.at
         /\ NewNote \in Notes /\ NewNote[1] = job.hook /\ NewNote[2] = evals
         /\ NewNote[3] = job.at
         /\ job' # None => /\ job'.at = job.at /\ job'.call = job.call
                           /\ job'.anomaly = job.anomaly
         /\ NextHook => job' # None /\ job'.hook = job.hook + 1 /\ job'.step = "call"
         /\ \A step \in {"set", "move", "forget"} :
              GoOn(step) => job' # None /\ job'.hook = job.hook /\ job'.step = step
<1>1. /\ job \in Jobs /\ job # None /\ job.at \in Times /\ job.hook \in Hooks
      /\ job.call \in {"start", "end"} /\ evals' = evals
      /\ NextHook \/ (\E step \in {"set", "move", "forget"} : GoOn(step)) \/ job' = None
  BY CallsAre
<1>2. /\ job.hook \in Nat /\ job.hook <= NbHooks /\ job.at \in Nat /\ evals \in Evals
  BY <1>1, HooksAssumption DEF Hooks, Times, TypeInv
<1>3. Automaton
  BY DEF CallInv
<1>4. job.anomaly # None
  BY <1>1, <1>3, BucketsAssumption DEF Automaton
<1>5. job.anomaly \in Times /\ job.anomaly \in Nat
  BY <1>1, <1>4 DEF Jobs, Times
<1>6. /\ job.call = "start" => job.anomaly = job.at
      /\ job.call = "end" => job.anomaly < job.at
  BY <1>1, <1>3, <1>4 DEF Automaton
<1>7. NewNote \in Notes /\ NewNote[1] = job.hook /\ NewNote[2] = evals /\ NewNote[3] = job.at
  BY <1>1, <1>2 DEF NewNote, Notes
<1>8. NextHook => /\ job' # None /\ job'.hook = job.hook + 1 /\ job'.step = "call"
                  /\ job'.at = job.at /\ job'.call = job.call /\ job'.anomaly = job.anomaly
  BY <1>1, <1>2, NextHookIs, JobsAssumption
<1>9. ASSUME NEW step \in {"set", "move", "forget"}, GoOn(step)
      PROVE  /\ job' # None /\ job'.hook = job.hook /\ job'.step = step
             /\ job'.at = job.at /\ job'.call = job.call /\ job'.anomaly = job.anomaly
  BY <1>1, <1>9, GoOnIs, JobsAssumption
<1>10. job' # None => /\ job'.at = job.at /\ job'.call = job.call
                      /\ job'.anomaly = job.anomaly
  BY <1>1, <1>8, <1>9
<1> QED BY <1>1, <1>2, <1>4, <1>5, <1>6, <1>7, <1>8, <1>9, <1>10

\* The starts that a hook has heard of after a step of a call: those it had
\* heard of, and that of the call.
LEMMA StartsKept ==
  ASSUME CallInv, TypeInv, Calls, NEW h \in Hooks, NEW i \in DOMAIN notified'[h], Starts(h, i)'
  PROVE  \/ /\ i \in DOMAIN notified[h] /\ Starts(h, i) /\ notified'[h][i] = notified[h][i]
            /\ i < Len(notified[h]) =>
                 i < Len(notified'[h]) /\ notified'[h][i + 1] = notified[h][i + 1]
            /\ ~(i < Len(notified[h])) /\ i < Len(notified'[h]) =>
                 notified'[h][i + 1].at = job.at
            /\ NoteOf(h, i)' = NoteOf(h, i)
         \/ /\ h = job.hook /\ job.call = "start" /\ notified'[h][i].at = job.at
            /\ NoteOf(h, i)' = NewNote /\ (HookStart \/ HookStartFails)
<1>1. evals' = evals /\ job # None /\ job.hook \in Hooks /\ job.at \in Times
  BY CallKeeps
<1>2. CASE UNCHANGED notified
  BY <1>1, <1>2 DEF Starts, NoteOf
<1>3. CASE HookStart \/ HookStartFails \/ HookEnd \/ HookEndFails
  <2>1. Notify(job.call) /\ job.call \in {"start", "end"}
    BY <1>3, HookSteps
  <2>2. \/ /\ i \in DOMAIN notified[h] /\ notified'[h][i] = notified[h][i]
           /\ i < Len(notified[h]) =>
                i < Len(notified'[h]) /\ notified'[h][i + 1] = notified[h][i + 1]
           /\ ~(i < Len(notified[h])) /\ i < Len(notified'[h]) =>
                h = job.hook /\ notified'[h][i + 1].at = job.at
        \/ h = job.hook /\ notified'[h][i].kind = job.call /\ notified'[h][i].at = job.at
    BY <1>1, <2>1, EventsKept
  <2>3. job.call = "start" => HookStart \/ HookStartFails
    BY <1>3 DEF HookEnd, HookEndFails, Calling
  <2> QED BY <1>1, <2>1, <2>2, <2>3 DEF Starts, NoteOf, NewNote
<1>4. UNCHANGED notified \/ HookStart \/ HookStartFails \/ HookEnd \/ HookEndFails
  BY DEF Calls, KeepPoints, KeepFails, WriteEnd, ForgetPoints, EndIsCut
<1> QED BY <1>2, <1>3, <1>4

\* The annotations of the anomalies that are over stay closed in the calls that
\* do not touch their points.
LEMMA PastKept ==
  ASSUME CallInv, TypeInv, PastClosed, Calls, job' # None,
         cut \subseteq cut', \A n \in cut' \ cut : n[3] = job.anomaly,
         \A h \in Annotators : \A i \in DOMAIN notified[h] : \A e \in Nat :
           /\ Starts(h, i) /\ notified[h][i].at # job.anomaly /\ e < job.anomaly
           /\ NoteOf(h, i) \notin cut /\ ShownIn(points, NoteOf(h, i)) = {e}
           => ShownIn(points', NoteOf(h, i)) = {e}
  PROVE  PastClosed'
<1>1. /\ job # None /\ evals' = evals /\ job.anomaly # None /\ job.anomaly \in Nat
      /\ job'.at = job.at /\ job'.anomaly = job.anomaly
  BY CallKeeps
<1>2. Bound = job.anomaly /\ Bound' = job.anomaly
  BY <1>1 DEF Bound
<1>3. ASSUME NEW h \in Annotators, NEW i \in DOMAIN notified'[h],
             Starts(h, i)', notified'[h][i].at # job.anomaly
      PROVE  Closed(h, i)'
  <2>0. h \in Hooks
    BY HooksAssumption
  <2>1. CASE /\ h = job.hook /\ job.call = "start" /\ notified'[h][i].at = job.at
    BY <1>3, <2>1, CallKeeps
  <2>2. CASE /\ i \in DOMAIN notified[h] /\ Starts(h, i) /\ notified'[h][i] = notified[h][i]
             /\ i < Len(notified[h]) =>
                  i < Len(notified'[h]) /\ notified'[h][i + 1] = notified[h][i + 1]
             /\ NoteOf(h, i)' = NoteOf(h, i)
    <3>1. Closed(h, i)
      BY <1>1, <1>3, <2>2 DEF PastClosed
    <3>2. Replaced(NoteOf(h, i)) => Replaced(NoteOf(h, i))'
      <4>1. NoteOf(h, i)[1] = h /\ NoteOf(h, i)[2] = evals
            /\ NoteOf(h, i)[3] = notified[h][i].at
        BY DEF NoteOf
      <4>2. \A g : <<g, evals, notified[h][i].at>>[3] # job.anomaly
        BY <1>3, <2>2
      <4>3. \A g : <<g, evals, notified[h][i].at>> \notin cut =>
                     <<g, evals, notified[h][i].at>> \notin cut'
        BY <4>2
      <4> HIDE <1>3
      <4> QED BY <2>2, <4>1, <4>3 DEF Replaced
    <3>3. i < Len(notified[h]) => notified[h][i + 1].at \in Nat
      <4>1. notified[h] \in Seq(Event)
        BY <2>0 DEF CallInv, CallTypes, Event
      <4>2. i \in 1..Len(notified[h]) /\ Len(notified[h]) \in Nat
        BY <2>2, <4>1
      <4>3. i < Len(notified[h]) => notified[h][i + 1] \in Event
        BY <4>1, <4>2
      <4> QED BY <4>3 DEF Event, Times
    <3>4. NoteOf(h, i) \notin cut /\ ~Replaced(NoteOf(h, i)) =>
            ShownIn(points', NoteOf(h, i)) = ShownIn(points, NoteOf(h, i))
      <4>1. SUFFICES ASSUME NoteOf(h, i) \notin cut, ~Replaced(NoteOf(h, i))
                     PROVE  ShownIn(points', NoteOf(h, i)) = ShownIn(points, NoteOf(h, i))
        OBVIOUS
      <4>2. /\ i < Len(notified[h]) /\ notified[h][i + 1].at < job.anomaly
            /\ ShownIn(points, NoteOf(h, i)) = {notified[h][i + 1].at}
        BY <1>2, <3>1, <4>1, ShownIs DEF Closed
      <4>3. notified[h][i + 1].at \in Nat
        BY <3>3, <4>2
      <4>4. notified[h][i].at # job.anomaly
        BY <1>3, <2>2
      <4> QED BY <2>2, <4>1, <4>2, <4>3, <4>4
    <3> QED BY <1>1, <1>2, <2>2, <3>1, <3>2, <3>4, StillClosed
  <2> QED BY <1>3, <2>0, <2>1, <2>2, StartsKept
<1> QED BY <1>1, <1>3 DEF PastClosed

\* The step at the end of an evaluation, or where it stops.
LEMMA NotesStop ==
  ASSUME TypeInv, NotesInv, job # None, job' = None, UNCHANGED <<evals, points, object>>,
         cut' = cut \/ cut' = cut \cup Halfway, job.step = "forget" => object \in cut'
  PROVE  NotesInv'
<1>1. job.step \in {"call", "set", "move", "forget"} /\ evals \in Nat
  BY JobParts
<1>2. \A n \in Halfway : n[2] <= evals
  <2>1. job.step \in {"move", "forget"} => object[2] <= evals
    BY DEF NotesInv, Marks, Mentioned, TypeInv, ObjectAtHand
  <2> QED BY <1>1, <2>1 DEF Halfway, NewNote
<1>3. \A p \in Places : points'[p] # None => points'[p][2] <= evals
  BY DEF NotesInv, Marks, Mentioned
<1>4. \A n \in cut' : n[2] <= evals
  BY <1>2 DEF NotesInv, Marks, Mentioned
<1>5. object # None =>
        /\ object[2] <= evals /\ object[1] \in Annotators
        /\ object \notin cut' => ShownIn(points, object) \subseteq {object[3]}
  BY ShownIs DEF NotesInv, Marks, Mentioned
<1>6. Shown(object)' = ShownIn(points, object)
  BY DEF Shown, ShownIn
<1>7. Marks'
  BY <1>3, <1>4, <1>5, <1>6 DEF Marks, Mentioned
<1>8. ObjectFits' /\ EndHeard' /\ PastClosed' /\ CurrentOpen'
  BY DEF ObjectFits, EndHeard, PastClosed, CurrentOpen
<1> QED BY <1>7, <1>8 DEF NotesInv

\* What stays as it is when only the evaluation moves on.
LEMMA QuietNotes ==
  ASSUME UNCHANGED <<evals, notified, points, object, cut>>
  PROVE  /\ \A n : Shown(n)' = Shown(n)
         /\ \A h, i : Starts(h, i)' = Starts(h, i) /\ NoteOf(h, i)' = NoteOf(h, i)
         /\ \A h, i : Replaced(NoteOf(h, i))' = Replaced(NoteOf(h, i))
         /\ \A h, i : Shown(NoteOf(h, i))' = Shown(NoteOf(h, i))
<1>1. \A h, i : Starts(h, i)' = Starts(h, i) /\ NoteOf(h, i)' = NoteOf(h, i)
  BY DEF Starts, NoteOf
<1>2. \A h, i : Replaced(NoteOf(h, i))' = Replaced(NoteOf(h, i))
  BY <1>1 DEF Replaced
<1>3. \A h, i : Shown(NoteOf(h, i))' = Shown(NoteOf(h, i))
  BY <1>1 DEF Shown
<1>4. \A n : Shown(n)' = Shown(n)
  BY DEF Shown
<1> QED BY <1>1, <1>2, <1>3, <1>4

LEMMA NotesAnomalyStarts ==
  ASSUME CallInv, TypeInv, NotesInv, AnomalyStarts
  PROVE  NotesInv'
<1>1. /\ job # None /\ job' # None /\ job.call = "none" /\ job.anomaly = None
      /\ job'.at = job.at /\ job'.anomaly = job.at /\ job'.call = "start" /\ job'.hook = 1
      /\ job.step = "call" /\ job'.step = "call" /\ job.at \in Nat /\ job.hook \in Nat
  BY JobSteps, JobsAssumption, JobParts DEF AnomalyStarts, Detecting
<1>2. UNCHANGED <<evals, notified, points, object, cut>>
  BY DEF AnomalyStarts
<1>3. Marks'
  <2>1. \A n, k, l : Mentioned(n, k) => Mentioned(n, l)'
    BY <1>1, <1>2 DEF Mentioned
  <2> QED BY <1>1, <1>2, <2>1, QuietNotes DEF NotesInv, Marks, Turn, Mentioned
<1>4. ObjectFits'
  <2>1. object # None => object[2] # evals
    BY <1>1, NoteParts, BucketsAssumption DEF NotesInv, ObjectFits, TypeInv, TypeOK
  <2>2. ASSUME object # None, NEW h \in Annotators, NEW i \in DOMAIN notified[h], Starts(h, i)
        PROVE  NoteOf(h, i) \in cut
    BY <1>1, <2>1, <2>2 DEF NotesInv, ObjectFits
  <2> QED BY <1>1, <1>2, <2>1, <2>2, QuietNotes DEF ObjectFits
<1>5. EndHeard'
  BY <1>1 DEF EndHeard
<1>6. PastClosed'
  <2>1. Bound' = Bound
    BY <1>1 DEF Bound
  <2>2. ASSUME NEW h \in Annotators, NEW i \in DOMAIN notified[h], Starts(h, i)
        PROVE  Closed(h, i)
    BY <1>1, <2>2, EventParts DEF NotesInv, PastClosed
  <2>3. ASSUME NEW h, NEW i, Closed(h, i) PROVE Closed(h, i)'
    BY <1>2, <2>1, <2>3, QuietNotes DEF Closed
  <2> QED BY <1>2, <2>2, <2>3, QuietNotes DEF PastClosed
<1>7. CurrentOpen'
  <2>1. \A h \in Annotators : h >= 1 /\ h \in Nat
    BY HooksAssumption DEF Hooks
  <2> QED BY <1>1, <2>1 DEF CurrentOpen
<1> QED BY <1>3, <1>4, <1>5, <1>6, <1>7 DEF NotesInv

\* The last annotation that was kept of the anomaly in progress is the object.
LEMMA OpenIsKept ==
  ASSUME CallInv, TypeInv, NotesInv, job # None, job.anomaly # None, NEW h \in Annotators,
         Open(h), ~Replaced(Current(h))
  PROVE  object = Current(h)
<1>1. object \in Notes /\ object[2] = evals /\ object[1] >= h
  BY DEF Open, TypeInv, TypeOK
<1>2. object[3] = job.anomaly /\ object \notin cut /\ object[1] \in Annotators
  BY <1>1, NoteParts DEF NotesInv, ObjectFits, Marks
<1>3. object = <<object[1], evals, job.anomaly>> /\ object[1] \in Nat
  BY <1>1, <1>2, NoteParts
<1>4. h \in Nat /\ Current(h)[1] = h /\ Current(h)[2] = evals /\ Current(h)[3] = job.anomaly
  BY CurrentParts
<1>5. ~(object[1] > h)
  BY <1>2, <1>3, <1>4 DEF Replaced
<1>6. object[1] = h
  BY <1>1, <1>3, <1>4, <1>5
<1> QED BY <1>3, <1>6 DEF Current

LEMMA NotesAnomalyEnds ==
  ASSUME CallInv, TypeInv, Sequenced, NotesInv, AnomalyEnds
  PROVE  NotesInv'
<1>1. /\ job # None /\ job' # None /\ job.call = "none" /\ job.anomaly # None
      /\ job'.at = job.at /\ job'.anomaly = job.anomaly /\ job'.call = "end" /\ job'.hook = 1
      /\ job.step = "call" /\ job'.step = "call" /\ job.at \in Nat /\ job.hook \in Nat
      /\ job.anomaly \in Nat
  BY JobSteps, JobsAssumption, JobParts DEF AnomalyEnds, Detecting
<1>2. UNCHANGED <<evals, notified, points, object, cut>>
  BY DEF AnomalyEnds
<1>a. \A h \in Annotators : h \in Hooks /\ h >= 1 /\ h \in Nat
  BY HooksAssumption DEF Hooks
<1>3. Marks'
  <2>1. \A n, k, l : Mentioned(n, k) => Mentioned(n, l)'
    BY <1>1, <1>2 DEF Mentioned
  <2> QED BY <1>1, <1>2, <2>1, QuietNotes DEF NotesInv, Marks, Turn, Mentioned
<1>4. ObjectFits'
  <2>1. ASSUME object # None, object[2] # evals,
               NEW h \in Annotators, NEW i \in DOMAIN notified[h], Starts(h, i)
        PROVE  NoteOf(h, i) \in cut
    BY <1>1, <2>1 DEF NotesInv, ObjectFits
  <2> QED BY <1>1, <1>2, <1>a, <2>1, QuietNotes DEF NotesInv, ObjectFits
<1>5. EndHeard'
  <2>1. ASSUME NEW h \in Annotators, NEW i \in DOMAIN notified[h], Starts(h, i),
               notified[h][i].at = job.anomaly
        PROVE  ~(i < Len(notified[h]))
    <3> DEFINE last == notified[h][Len(notified[h])]
    <3>1. Heard(h) /\ last.at = job.anomaly
      BY <1>1, <1>a DEF CallInv, LastCall, Inside
    <3>2. notified[h] # <<>> /\ last.eval = evals
      BY <3>1 DEF Heard
    <3>3. Len(notified[h]) \in DOMAIN notified[h]
      BY <1>a, <3>2, CallsTyped DEF CallInv
    <3>4. i < Len(notified[h]) => notified[h][i].at < last.at
      BY <1>a, <2>1, <3>2, <3>3 DEF Sequenced, Starts
    <3> QED BY <1>1, <2>1, <3>1, <3>4
  <2> QED BY <1>1, <1>2, <2>1, QuietNotes DEF EndHeard
<1>6. PastClosed'
  <2>1. Bound' = Bound
    BY <1>1 DEF Bound
  <2>2. ASSUME NEW h, NEW i, Closed(h, i) PROVE Closed(h, i)'
    BY <1>2, <2>1, <2>2, QuietNotes DEF Closed
  <2> QED BY <1>1, <1>2, <2>2, QuietNotes DEF NotesInv, PastClosed
<1>7. CurrentOpen'
  <2>1. ASSUME NEW h \in Annotators, Current(h)' \notin cut', ~Replaced(Current(h))'
        PROVE  Ending(h)'
    <3>1. Current(h)' = Current(h)
      BY <1>1, <1>2 DEF Current
    <3>2. Current(h) \notin cut /\ ~Replaced(Current(h))
      BY <1>2, <2>1, <3>1 DEF Replaced
    <3>3. Open(h)
      BY <1>1, <3>2 DEF NotesInv, CurrentOpen
    <3>4. object = Current(h) /\ Shown(Current(h)) = {job.anomaly}
      BY <1>1, <3>2, <3>3, OpenIsKept DEF Open
    <3>5. Shown(Current(h))' = {job.anomaly}
      BY <1>2, <3>1, <3>4 DEF Shown
    <3> QED BY <1>1, <1>2, <3>1, <3>4, <3>5 DEF Ending
  <2> QED BY <1>1, <2>1 DEF CurrentOpen
<1> QED BY <1>3, <1>4, <1>5, <1>6, <1>7 DEF NotesInv

LEMMA NotesNextBucket ==
  ASSUME CallInv, TypeInv, NotesInv, NextBucket
  PROVE  NotesInv'
<1>1. /\ job # None /\ job' # None /\ job.call = "none" /\ job'.at = job.at + 1
      /\ job'.anomaly = job.anomaly /\ job'.call = "none"
      /\ job.step = "call" /\ job'.step = "call" /\ job.at \in Nat
  BY JobSteps, JobsAssumption, JobParts DEF NextBucket, Detecting
<1>2. UNCHANGED <<evals, notified, points, object, cut>>
  BY DEF NextBucket
<1>3. Marks'
  <2>1. ASSUME NEW n, NEW k, Mentioned(n, k), n[3] \in Nat
        PROVE  n[2] <= evals /\ (n[2] = evals => n[3] < job'.at)
    BY <1>1, <2>1 DEF Mentioned
  <2>2. /\ \A p \in Places : points[p] # None => points[p][3] \in Nat
        /\ \A n \in cut : n[3] \in Nat
        /\ object # None => object[3] \in Nat
    BY NoteParts DEF TypeInv, TypeOK
  <2>3. /\ \A p \in Places : points[p] # None =>
             points[p][2] <= evals /\ (points[p][2] = evals => points[p][3] < job'.at)
        /\ \A n \in cut : n[2] <= evals /\ (n[2] = evals => n[3] < job'.at)
        /\ object # None =>
             object[2] <= evals /\ (object[2] = evals => object[3] < job'.at)
    BY <2>1, <2>2 DEF NotesInv, Marks
  <2> QED BY <1>1, <1>2, <2>3, QuietNotes DEF NotesInv, Marks, Turn, Mentioned
<1>4. ObjectFits'
  <2>1. ASSUME object # None, object[2] # evals,
               NEW h \in Annotators, NEW i \in DOMAIN notified[h], Starts(h, i)
        PROVE  NoteOf(h, i) \in cut
    BY <1>1, <2>1 DEF NotesInv, ObjectFits
  <2> QED BY <1>1, <1>2, <2>1, QuietNotes DEF NotesInv, ObjectFits
<1>5. EndHeard'
  BY <1>1 DEF EndHeard
<1>6. PastClosed'
  <2>1. ASSUME NEW h \in Annotators, NEW i \in DOMAIN notified[h], Closed(h, i)
        PROVE  Closed(h, i)'
    <3>1. i < Len(notified[h]) => notified[h][i + 1].at \in Nat
      <4>1. notified[h] \in Seq(Event)
        BY HooksAssumption DEF CallInv, CallTypes, Event
      <4>2. i \in 1..Len(notified[h]) /\ Len(notified[h]) \in Nat
        BY <2>1, <4>1
      <4>3. i < Len(notified[h]) => notified[h][i + 1] \in Event
        BY <4>1, <4>2
      <4> QED BY <4>3 DEF Event, Times
    <3>2. i < Len(notified[h]) /\ notified[h][i + 1].at < Bound => notified[h][i + 1].at < Bound'
      BY <1>1, <3>1 DEF Bound
    <3> QED BY <1>2, <2>1, <3>2, QuietNotes DEF Closed
  <2> QED BY <1>1, <1>2, <2>1, QuietNotes DEF NotesInv, PastClosed
<1>7. CurrentOpen'
  <2>1. ASSUME job.anomaly # None, NEW h \in Annotators, Current(h)' \notin cut'
        PROVE  Open(h)'
    <3>1. Current(h)' = Current(h)
      BY <1>1, <1>2 DEF Current
    <3>2. Open(h)
      BY <1>1, <1>2, <2>1, <3>1 DEF NotesInv, CurrentOpen
    <3>3. Shown(Current(h))' = Shown(Current(h))
      BY <1>2, <3>1 DEF Shown
    <3> QED BY <1>1, <1>2, <3>2, <3>3 DEF Open
  <2> QED BY <1>1, <2>1 DEF CurrentOpen
<1> QED BY <1>3, <1>4, <1>5, <1>6, <1>7 DEF NotesInv

\* All hooks were told of a start: its annotations are open.
LEMMA NotesAllTold ==
  ASSUME CallInv, TypeInv, NotesInv, HooksCalled
  PROVE  Marks' /\ EndHeard'
<1>1. /\ job # None /\ job' # None /\ job'.call = "none" /\ job'.at = job.at + 1
      /\ job.step = "call" /\ job'.step = "call" /\ job.at \in Nat
  BY JobSteps, JobsAssumption, JobParts DEF HooksCalled
<1>2. UNCHANGED <<evals, notified, points, object, cut>>
  BY DEF HooksCalled
<1>3. ASSUME NEW n, NEW k, Mentioned(n, k), n[3] \in Nat
      PROVE  n[2] <= evals /\ (n[2] = evals => n[3] < job'.at)
  BY <1>1, <1>3 DEF Mentioned
<1>4. /\ \A p \in Places : points[p] # None => points[p][3] \in Nat
      /\ \A n \in cut : n[3] \in Nat
      /\ object # None => object[3] \in Nat
  BY NoteParts DEF TypeInv, TypeOK
<1>5. /\ \A p \in Places : points[p] # None =>
           points[p][2] <= evals /\ (points[p][2] = evals => points[p][3] < job'.at)
      /\ \A n \in cut : n[2] <= evals /\ (n[2] = evals => n[3] < job'.at)
      /\ object # None =>
           object[2] <= evals /\ (object[2] = evals => object[3] < job'.at)
  BY <1>3, <1>4 DEF NotesInv, Marks
<1>6. Marks'
  BY <1>1, <1>2, <1>5, QuietNotes DEF NotesInv, Marks, Turn, Mentioned
<1>7. EndHeard'
  BY <1>1 DEF EndHeard
<1> QED BY <1>6, <1>7

LEMMA NotesStartTold ==
  ASSUME CallInv, TypeInv, NotesInv, HooksCalled, job.call = "start"
  PROVE  NotesInv'
<1>1. /\ job # None /\ job' # None /\ job'.call = "none" /\ job'.at = job.at + 1
      /\ job'.anomaly = job.anomaly /\ job.hook > NbHooks /\ job.hook \in Nat
      /\ job.step = "call" /\ job'.step = "call" /\ job.at \in Nat
      /\ job.anomaly = job.at
  BY JobSteps, JobsAssumption, JobParts DEF HooksCalled, CallInv, Automaton
<1>2. UNCHANGED <<evals, notified, points, object, cut>>
  BY DEF HooksCalled
<1>3. ObjectFits'
  <2>1. ASSUME object # None, object[2] # evals,
               NEW h \in Annotators, NEW i \in DOMAIN notified[h], Starts(h, i)
        PROVE  NoteOf(h, i) \in cut
    BY <1>1, <2>1 DEF NotesInv, ObjectFits
  <2> QED BY <1>1, <1>2, <2>1, QuietNotes DEF NotesInv, ObjectFits
<1>4. PastClosed'
  <2>1. Bound' = Bound
    <3>1. job.at # None
      BY <1>1, BucketsAssumption DEF CallInv, CallTypes
    <3> QED BY <1>1, <3>1 DEF Bound
  <2>2. ASSUME NEW h, NEW i, Closed(h, i) PROVE Closed(h, i)'
    BY <1>2, <2>1, <2>2, QuietNotes DEF Closed
  <2> QED BY <1>1, <1>2, <2>2, QuietNotes DEF NotesInv, PastClosed
<1>5. CurrentOpen'
  <2>1. ASSUME job.anomaly # None, NEW h \in Annotators, Current(h)' \notin cut'
        PROVE  Open(h)'
    <3>1. Current(h)' = Current(h)
      BY <1>1, <1>2 DEF Current
    <3>2. h < job.hook
      BY <1>1, HooksAssumption DEF Hooks
    <3>3. Open(h)
      BY <1>1, <1>2, <2>1, <3>1, <3>2 DEF NotesInv, CurrentOpen
    <3>4. Shown(Current(h))' = Shown(Current(h))
      BY <1>2, <3>1 DEF Shown
    <3> QED BY <1>1, <1>2, <3>3, <3>4 DEF Open
  <2> QED BY <1>1, <2>1 DEF CurrentOpen
<1> QED BY <1>3, <1>4, <1>5, NotesAllTold DEF NotesInv

\* All hooks were told of an end: the annotations of the anomaly are closed.
LEMMA NotesEndTold ==
  ASSUME CallInv, TypeInv, NotesInv, HooksCalled, job.call = "end"
  PROVE  NotesInv'
<1>1. /\ job # None /\ job' # None /\ job'.call = "none" /\ job'.at = job.at + 1
      /\ job'.anomaly = None /\ job.hook > NbHooks /\ job.hook \in Nat
      /\ job.step = "call" /\ job'.step = "call" /\ job.at \in Nat
      /\ job.anomaly # None /\ job.anomaly \in Nat /\ job.anomaly < job.at
  BY JobSteps, JobsAssumption, JobParts DEF HooksCalled, CallInv, Automaton
<1>2. UNCHANGED <<evals, notified, points, object, cut>>
  BY DEF HooksCalled
<1>3. \A h \in Annotators : h \in Hooks /\ h \in Nat /\ h < job.hook
  BY <1>1, HooksAssumption DEF Hooks
<1>4. object = None
  <2>1. object # None => object[1] \in Annotators /\ object[1] >= job.hook
    BY <1>1 DEF NotesInv, Marks, ObjectFits
  <2> QED BY <1>1, <1>3, <2>1
<1>5. ObjectFits' /\ CurrentOpen'
  BY <1>1, <1>2, <1>4 DEF ObjectFits, CurrentOpen
<1>6. PastClosed'
  <2>1. Bound = job.anomaly /\ Bound' = job.at + 1
    BY <1>1 DEF Bound
  <2>2. ASSUME NEW h \in Annotators, NEW i \in DOMAIN notified[h], Starts(h, i)
        PROVE  Closed(h, i)'
    <3>0. notified[h] \in Seq(Event)
      BY <1>3 DEF CallInv, CallTypes, Event
    <3>1. i < Len(notified[h]) => notified[h][i + 1].at \in Nat
      <4>1. i \in 1..Len(notified[h]) /\ Len(notified[h]) \in Nat
        BY <2>2, <3>0
      <4>2. i < Len(notified[h]) => notified[h][i + 1] \in Event
        BY <3>0, <4>1
      <4> QED BY <4>2 DEF Event, Times
    <3>2. CASE notified[h][i].at # job.anomaly
      <4>1. Closed(h, i)
        BY <1>1, <2>2, <3>2 DEF NotesInv, PastClosed
      <4>2. i < Len(notified[h]) /\ notified[h][i + 1].at < job.at + 1
        BY <1>1, <2>1, <3>1, <4>1 DEF Closed
      <4> QED BY <1>2, <2>1, <4>1, <4>2, QuietNotes DEF Closed
    <3>3. CASE notified[h][i].at = job.anomaly
      <4>1. i < Len(notified[h])
        <5>1. CASE i = Len(notified[h])
          <6>1. notified[h] # <<>> /\ Heard(h)
            BY <2>2, <3>0, <5>1 DEF Heard, Starts
          <6>2. ~Inside(h)
            BY <1>1, <1>3 DEF Inside, Turn
          <6>3. notified[h][i].kind = "end"
            BY <1>1, <1>3, <5>1, <6>1, <6>2 DEF CallInv, LastCall
          <6> QED BY <2>2, <6>3 DEF Starts
        <5> QED BY <2>2, <3>0, <5>1
      <4>2. notified[h][i + 1].at = job.at
        BY <1>1, <2>2, <3>3, <4>1 DEF NotesInv, EndHeard
      <4>3. NoteOf(h, i) = Current(h)
        BY <3>3 DEF NoteOf, Current
      <4>4. NoteOf(h, i) \notin cut /\ ~Replaced(NoteOf(h, i)) => Shown(NoteOf(h, i)) = {job.at}
        <5>1. SUFFICES ASSUME Current(h) \notin cut, ~Replaced(Current(h))
                       PROVE  Shown(Current(h)) = {job.at}
          BY <4>3
        <5>2. Ending(h)
          BY <1>1, <5>1 DEF NotesInv, CurrentOpen
        <5>3. Current(h) # None
          BY <1>1, CurrentParts, NotesAssumption
        <5> QED BY <1>1, <1>4, <5>2, <5>3 DEF Ending
      <4>5. job.at < job.at + 1
        BY <1>1
      <4> QED BY <1>2, <2>1, <4>1, <4>2, <4>4, <4>5, QuietNotes DEF Closed
    <3> QED BY <3>2, <3>3
  <2> QED BY <1>1, <1>2, <2>2, QuietNotes DEF PastClosed
<1> QED BY <1>5, <1>6, NotesAllTold DEF NotesInv

\* A new evaluation has no annotations.
LEMMA NotesLoadModel ==
  ASSUME CallInv, TypeInv, NotesInv, NEW range \in Ranges,
         NEW output \in Buckets \cup {None, NoneAsText}, LoadModel(range, output)
  PROVE  NotesInv'
<1>1. /\ job = None /\ evals' = evals + 1 /\ UNCHANGED <<notified, points, object, cut>>
      /\ evals \in Nat
  BY DEF LoadModel, CallInv, CallTypes
<1>2. job' # None /\ job'.call = "none" /\ job'.anomaly = None /\ job'.step = "call"
  <2> DEFINE new == [at |-> range[1], from |-> range[1], to |-> range[2],
                     output |-> output, anomaly |-> None, last |-> None,
                     call |-> "none", hook |-> 1, step |-> "call"]
  <2>1. new \in Jobs
    BY TimeAssumption, HooksAssumption DEF Jobs, Times
  <2> QED BY <2>1, JobsAssumption DEF LoadModel
<1>3. ASSUME NEW h \in Annotators, NEW i \in DOMAIN notified[h]
      PROVE  ~Starts(h, i)'
  <2>1. notified[h][i].eval <= evals /\ notified[h][i].eval \in Nat
    BY HooksAssumption, EventParts DEF CallInv, NoFuture
  <2> QED BY <1>1, <2>1 DEF Starts
<1>4. ASSUME NEW n \in Notes, NEW k, Mentioned(n, k) PROVE n[2] <= evals' /\ n[2] # evals'
  <2>1. n[2] \in Nat /\ n[2] <= evals
    BY <1>4, NoteParts DEF Mentioned
  <2> QED BY <1>1, <2>1 DEF Mentioned
<1>5. /\ \A p \in Places : points[p] # None =>
           points[p][2] <= evals' /\ points[p][2] # evals'
      /\ \A n \in cut : n[2] <= evals' /\ n[2] # evals'
      /\ object # None => object[2] <= evals' /\ object[2] # evals'
  BY <1>4 DEF NotesInv, Marks, TypeInv, TypeOK
<1>6. Shown(object)' = Shown(object)
  BY <1>1 DEF Shown
<1>7. Marks'
  BY <1>1, <1>2, <1>5, <1>6 DEF NotesInv, Marks, Turn, Mentioned
<1>8. ObjectFits'
  BY <1>1, <1>2, <1>3, <1>5 DEF ObjectFits
<1>9. EndHeard' /\ PastClosed' /\ CurrentOpen'
  BY <1>1, <1>2, <1>3 DEF EndHeard, PastClosed, CurrentOpen
<1> QED BY <1>7, <1>8, <1>9 DEF NotesInv

\* The annotation that a hook makes is known nowhere before.
LEMMA NewIsNew ==
  ASSUME CallInv, TypeInv, NotesInv, Calls, job.call = "start"
  PROVE  /\ NewNote \notin cut /\ object # NewNote
         /\ job.step = "call" => /\ \A p \in Places : points[p] # NewNote
                                 /\ ShownIn(points, NewNote) = {}
<1>1. /\ job # None /\ job.hook \in Nat /\ job.at \in Nat /\ NewNote \in Notes
      /\ NewNote[1] = job.hook /\ NewNote[2] = evals /\ NewNote[3] = job.at
  BY CallKeeps
<1>2. ~Mentioned(NewNote, job.hook)
  BY <1>1 DEF Mentioned
<1>3. NewNote \notin cut /\ object # NewNote
  BY <1>1, <1>2, NotesAssumption DEF NotesInv, Marks
<1>4. ASSUME job.step = "call" PROVE \A p \in Places : points[p] # NewNote
  BY <1>1, <1>2, <1>4, NotesAssumption DEF NotesInv, Marks, Turn
<1>5. job.step = "call" => ShownIn(points, NewNote) = {}
  BY <1>1, <1>4, PlaceIs DEF ShownIn
<1> QED BY <1>3, <1>4, <1>5

LEMMA MentionedMore ==
  ASSUME NEW n \in Notes, NEW k \in Nat, NEW l \in Nat, k <= l, Mentioned(n, k)
  PROVE  Mentioned(n, l)
<1>1. n[1] \in Nat
  BY NoteParts
<1> QED BY <1>1 DEF Mentioned

\* The marks after a step of a call, in terms of the call.
LEMMA MarksAre ==
  ASSUME CallInv, TypeInv, Calls, job' # None,
         \A p \in Places : points'[p] # None => Mentioned(points'[p], job.hook + 1),
         \A n \in cut' : Mentioned(n, job'.hook),
         object' # None =>
           /\ Mentioned(object', job'.hook) /\ object'[1] \in Annotators
           /\ object' \notin cut' /\ job'.step # "forget" =>
                ShownIn(points', object') \subseteq {object'[3]}
  PROVE  Marks'
<1>1. /\ job # None /\ evals' = evals /\ job'.at = job.at /\ job'.call = job.call
      /\ job.hook \in Nat
  BY CallKeeps
<1>2. Turn' = job.hook + 1
  <2>1. NextHook \/ (\E step \in {"set", "move", "forget"} : GoOn(step))
    BY CallsAre
  <2>2. \/ job'.hook = job.hook + 1 /\ job'.step = "call"
        \/ job'.hook = job.hook /\ job'.step # "call"
    BY <2>1, CallKeeps
  <2> QED BY <2>2 DEF Turn
<1>3. \A p \in Places : points'[p] # None => Mentioned(points[p], Turn)'
  BY <1>1, <1>2 DEF Mentioned
<1>4. \A n \in cut' : Mentioned(n, job.hook)'
  BY <1>1 DEF Mentioned
<1>5. object' # None => Mentioned(object, job.hook)'
  BY <1>1 DEF Mentioned
<1>6. Shown(object)' = ShownIn(points', object')
  BY DEF Shown, ShownIn
<1> QED BY <1>1, <1>3, <1>4, <1>5, <1>6 DEF Marks

\* What was marked before the step of a call.
LEMMA MarksWere ==
  ASSUME CallInv, TypeInv, NotesInv, Calls, NEW l \in Nat, job.hook <= l
  PROVE  /\ \A p \in Places : points[p] # None => Mentioned(points[p], job.hook + 1)
         /\ \A n \in cut : Mentioned(n, l)
         /\ object # None =>
              /\ object \in Notes /\ Mentioned(object, l) /\ object[1] \in Annotators
              /\ object \notin cut /\ job.step # "forget" =>
                   ShownIn(points, object) \subseteq {object[3]}
<1>1. job # None /\ job.hook \in Nat
  BY CallKeeps
<1>2. Turn \in Nat /\ Turn <= job.hook + 1
  BY <1>1 DEF Turn
<1>3. \A p \in Places : points[p] # None => points[p] \in Notes /\ Mentioned(points[p], Turn)
  BY DEF NotesInv, Marks, TypeInv, TypeOK
<1>4. \A p \in Places : points[p] # None => Mentioned(points[p], job.hook + 1)
  BY <1>1, <1>2, <1>3, MentionedMore
<1>5. \A n \in cut : n \in Notes /\ Mentioned(n, job.hook)
  BY DEF NotesInv, Marks, TypeInv, TypeOK
<1>6. \A n \in cut : Mentioned(n, l)
  BY <1>1, <1>5, MentionedMore
<1>7. object # None =>
        /\ object \in Notes /\ Mentioned(object, job.hook) /\ object[1] \in Annotators
        /\ object \notin cut /\ job.step # "forget" =>
             ShownIn(points, object) \subseteq {object[3]}
  BY <1>1, ShownIs DEF NotesInv, Marks, TypeInv, TypeOK
<1>8. object # None => Mentioned(object, l)
  BY <1>1, <1>7, MentionedMore
<1> QED BY <1>4, <1>6, <1>7, <1>8

\* Replaced, after a step that cuts off only annotations of the anomaly.
LEMMA CurrentIs ==
  ASSUME CallInv, TypeInv, Calls, job' # None
  PROVE  \A h : /\ Current(h)' = Current(h)
                /\ Shown(Current(h))' = ShownIn(points', Current(h))
                /\ Shown(Current(h)) = ShownIn(points, Current(h))
                /\ cut' = cut => Replaced(Current(h))' = Replaced(Current(h))
<1>1. evals' = evals /\ job'.anomaly = job.anomaly
  BY CallKeeps
<1>2. \A h : Current(h)' = Current(h)
  BY <1>1 DEF Current
<1> QED BY <1>2 DEF Replaced, Shown, ShownIn

\* The hook of a start is told of it; an annotation hook writes its point.
LEMMA NotesHookStart ==
  ASSUME CallInv, TypeInv, NotesInv, HookStart
  PROVE  NotesInv'
<1>0. Calls /\ job.call = "start" /\ job.step = "call" /\ UNCHANGED <<object, cut>>
  BY DEF HookStart, Calls, Calling
<1>1. /\ job # None /\ job' # None /\ job.hook \in Nat /\ evals' = evals
      /\ job.hook \in Hooks /\ job.at \in Times
      /\ job.at \in Nat /\ job.anomaly = job.at /\ job.anomaly # None
      /\ job'.anomaly = job.anomaly /\ job'.at = job.at /\ job'.call = "start"
      /\ NewNote \in Notes /\ NewNote[1] = job.hook /\ NewNote[2] = evals /\ NewNote[3] = job.at
      /\ job.hook \in Annotators => job'.hook = job.hook /\ job'.step = "set"
      /\ job.hook \notin Annotators => job'.hook = job.hook + 1 /\ job'.step = "call"
  BY <1>0, CallKeeps DEF HookStart
<1>a. \A h \in Annotators : h \in Nat /\ h \in Hooks
  BY HooksAssumption DEF Hooks
<1>2. /\ job.hook \in Annotators => WriteAt(job.at, NewNote)
      /\ job.hook \notin Annotators => points' = points
  BY DEF HookStart
<1>3. /\ NewNote \notin cut /\ object # NewNote /\ ShownIn(points, NewNote) = {}
  BY <1>0, NewIsNew
<1>4. /\ \A p \in Places : points'[p] = points[p] \/ points'[p] = NewNote
      /\ \A n \in Notes :
           /\ n # NewNote => ShownIn(points', n) \subseteq ShownIn(points, n)
           /\ n # NewNote /\ job.at \notin ShownIn(points, n) =>
                ShownIn(points', n) = ShownIn(points, n)
           /\ n[1] # job.hook => ShownIn(points', n) = ShownIn(points, n)
      /\ job.hook \in Annotators => ShownIn(points', NewNote) = {job.at}
  BY <1>1, <1>2, <1>3, Written
<1>5. Marks'
  <2>1. job.hook <= job'.hook /\ job'.hook \in Nat
    BY <1>1
  <2>2. Mentioned(NewNote, job.hook + 1)
    BY <1>0, <1>1, JobParts DEF Mentioned
  <2>3. /\ \A p \in Places : points[p] # None => Mentioned(points[p], job.hook + 1)
        /\ \A n \in cut : Mentioned(n, job'.hook)
        /\ object # None =>
             /\ object \in Notes /\ Mentioned(object, job'.hook) /\ object[1] \in Annotators
             /\ object \notin cut => ShownIn(points, object) \subseteq {object[3]}
    BY <1>0, <2>1, MarksWere
  <2>4. \A p \in Places : points'[p] # None => Mentioned(points'[p], job.hook + 1)
    BY <1>4, <2>2, <2>3
  <2>5. object # None /\ object \notin cut => ShownIn(points', object) \subseteq {object[3]}
    BY <1>3, <1>4, <2>3
  <2> QED BY <1>0, <1>1, <2>3, <2>4, <2>5, MarksAre
<1>6. ObjectFits'
  <2>1. ASSUME object # None, object[2] # evals,
               NEW h \in Annotators, NEW i \in DOMAIN notified'[h], Starts(h, i)'
        PROVE  NoteOf(h, i)' \in cut \/ (NoteOf(h, i)' = NewNote /\ h = job.hook)
    <3>1. CASE i \in DOMAIN notified[h] /\ Starts(h, i) /\ NoteOf(h, i)' = NoteOf(h, i)
      BY <1>0, <1>1, <2>1, <3>1 DEF NotesInv, ObjectFits
    <3> QED BY <1>0, <1>a, <2>1, <3>1, StartsKept
  <2>2. job.hook \in Annotators => NewNote' = NewNote
    BY <1>1 DEF NewNote
  <2> QED BY <1>0, <1>1, <2>1, <2>2 DEF NotesInv, ObjectFits
<1>7. EndHeard'
  BY <1>1 DEF EndHeard
<1>8. PastClosed'
  <2>1. ASSUME NEW h \in Annotators, NEW i \in DOMAIN notified[h], NEW e \in Nat,
               notified[h][i].at # job.anomaly, e < job.anomaly,
               ShownIn(points, NoteOf(h, i)) = {e}
        PROVE  ShownIn(points', NoteOf(h, i)) = {e}
    <3>1. NoteOf(h, i) \in Notes /\ NoteOf(h, i)[3] # NewNote[3]
      BY <1>1, <2>1, EventParts
    <3>2. job.at \notin ShownIn(points, NoteOf(h, i)) /\ NoteOf(h, i) # NewNote
      BY <1>1, <2>1, <3>1
    <3> QED BY <1>4, <2>1, <3>1, <3>2
  <2> QED BY <1>0, <1>1, <2>1, PastKept DEF NotesInv
<1>9. CurrentOpen'
  <2>1. ASSUME NEW h \in Annotators, Current(h) \notin cut, h < job.hook PROVE Open(h)'
    <3>1. Open(h) /\ Current(h) \in Notes /\ Current(h)[1] # job.hook
      BY <1>0, <1>1, <1>a, <2>1, CurrentParts DEF NotesInv, CurrentOpen
    <3>2. ShownIn(points', Current(h)) = {job.anomaly}
      BY <1>0, <1>1, <1>4, <3>1, CurrentIs DEF Open
    <3> QED BY <1>0, <1>1, <3>1, <3>2, CurrentIs DEF Open
  <2>2. ASSUME NEW h \in Annotators, Current(h)' \notin cut'
        PROVE  /\ h < job'.hook => Open(h)'
               /\ job'.step = "set" /\ h = job'.hook => Shown(Current(h))' = {job.anomaly}
    <3>1. Current(h) \notin cut
      BY <1>0, <1>1, <2>2, CurrentIs
    <3>2. h < job'.hook => h < job.hook
      BY <1>1, <1>a
    <3>3. job'.step = "set" /\ h = job'.hook => h = job.hook
      BY <1>1
    <3>4. h = job.hook => Shown(Current(h))' = {job.anomaly}
      <4>1. h = job.hook => Current(h) = NewNote
        BY <1>1 DEF Current, NewNote
      <4> QED BY <1>0, <1>1, <1>4, <4>1, CurrentIs
    <3> QED BY <2>1, <3>1, <3>2, <3>3, <3>4
  <2> QED BY <1>1, <2>2 DEF CurrentOpen
<1> QED BY <1>5, <1>6, <1>7, <1>8, <1>9 DEF NotesInv

\* The annotation of a start is kept in the object.
LEMMA NotesKeepPoints ==
  ASSUME CallInv, TypeInv, NotesInv, KeepPoints
  PROVE  NotesInv'
<1>0. /\ Calls /\ job.step = "set" /\ object' = NewNote /\ UNCHANGED <<points, cut, notified>>
      /\ job # None /\ StepFits
  BY DEF KeepPoints, Calls, Within, SetObject, CallInv
<1>1. /\ job.call = "start" /\ job.hook \in Annotators
      /\ job' # None /\ job.hook \in Nat /\ evals' = evals
      /\ job.at \in Nat /\ job.anomaly = job.at /\ job.anomaly # None
      /\ job'.anomaly = job.anomaly /\ job'.at = job.at /\ job'.call = "start"
      /\ NewNote \in Notes /\ NewNote[1] = job.hook /\ NewNote[2] = evals /\ NewNote[3] = job.at
      /\ job'.hook = job.hook + 1 /\ job'.step = "call" /\ evals \in Nat
  BY <1>0, CallKeeps, JobParts DEF KeepPoints, StepFits
<1>2. NewNote \notin cut /\ NewNote # None
  BY <1>0, <1>1, NewIsNew, NotesAssumption
<1>3. /\ \A h \in Annotators : h \in Nat
      /\ \A h : h = job.hook => Current(h) = NewNote
  <2>1. \A h \in Annotators : h \in Nat
    BY HooksAssumption DEF Hooks
  <2>2. \A h : h = job.hook => Current(h) = NewNote
    BY <1>1 DEF Current, NewNote
  <2> QED BY <2>1, <2>2
<1>4. ShownIn(points, NewNote) = {job.anomaly}
  <2>1. ASSUME NEW h \in Annotators, h = job.hook PROVE Shown(NewNote) = {job.anomaly}
    <3>1. Current(h) = NewNote
      BY <1>3, <2>1
    <3>2. Current(h) \notin cut => Shown(Current(h)) = {job.anomaly}
      BY <1>0, <1>1, <2>1 DEF NotesInv, CurrentOpen
    <3> QED BY <1>2, <3>1, <3>2
  <2> QED BY <1>1, <2>1, ShownIs
<1>5. Marks'
  <2>1. /\ \A p \in Places : points[p] # None => Mentioned(points[p], job.hook + 1)
        /\ \A n \in cut : Mentioned(n, job'.hook)
    BY <1>0, <1>1, MarksWere
  <2>2. Mentioned(NewNote, job'.hook)
    BY <1>1 DEF Mentioned
  <2> QED BY <1>0, <1>1, <1>4, <2>1, <2>2, MarksAre
<1>6. ObjectFits'
  BY <1>0, <1>1, <1>2 DEF ObjectFits
<1>7. EndHeard'
  BY <1>1 DEF EndHeard
<1>8. PastClosed'
  BY <1>0, <1>1, PastKept DEF NotesInv
<1>9. CurrentOpen'
  <2>1. ASSUME NEW h \in Annotators, Current(h)' \notin cut', h < job'.hook
        PROVE  Open(h)'
    <3>1. Current(h) \notin cut /\ h \in Nat
      BY <1>0, <1>1, <1>3, <2>1, CurrentIs
    <3>2. Shown(Current(h)) = {job.anomaly}
      <4>1. CASE h < job.hook
        BY <1>0, <1>1, <3>1, <4>1 DEF NotesInv, CurrentOpen, Open
      <4>2. CASE h = job.hook
        BY <1>3, <1>4, <4>2, ShownIs
      <4> QED BY <1>1, <2>1, <3>1, <4>1, <4>2
    <3>3. Shown(Current(h))' = {job.anomaly}
      BY <1>0, <1>1, <3>2, CurrentIs
    <3>4. object' # None /\ object'[2] = evals /\ object'[1] >= h
      BY <1>0, <1>1, <1>2, <2>1, <3>1
    <3> QED BY <1>1, <3>3, <3>4 DEF Open
  <2> QED BY <1>1, <2>1 DEF CurrentOpen
<1> QED BY <1>5, <1>6, <1>7, <1>8, <1>9 DEF NotesInv

\* The annotation of a start is cut off.
LEMMA NotesStartFails ==
  ASSUME CallInv, TypeInv, NotesInv, HookStartFails \/ KeepFails
  PROVE  NotesInv'
<1>0. /\ Calls /\ UNCHANGED <<points, object>> /\ job # None /\ StepFits /\ NextHook
      /\ cut' = IF job.hook \in Annotators THEN cut \cup {NewNote} ELSE cut
      /\ job.call = "start" /\ job.step \in {"call", "set"}
  BY DEF HookStartFails, KeepFails, Calls, Calling, Within, CallInv, StepFits
<1>1. /\ job' # None /\ job.hook \in Nat /\ evals' = evals
      /\ job.at \in Nat /\ job.anomaly = job.at /\ job.anomaly # None
      /\ job'.anomaly = job.anomaly /\ job'.at = job.at /\ job'.call = "start"
      /\ NewNote \in Notes /\ NewNote[1] = job.hook /\ NewNote[2] = evals /\ NewNote[3] = job.at
      /\ job'.hook = job.hook + 1 /\ job'.step = "call" /\ evals \in Nat
  BY <1>0, CallKeeps, JobParts
<1>2. NewNote \notin cut /\ object # NewNote /\ cut \subseteq cut' /\ cut' \subseteq cut \cup {NewNote}
  BY <1>0, NewIsNew
<1>3. /\ \A h \in Annotators : h \in Nat
      /\ \A h : h = job.hook => Current(h) = NewNote
  <2>1. \A h \in Annotators : h \in Nat
    BY HooksAssumption DEF Hooks
  <2>2. \A h : h = job.hook => Current(h) = NewNote
    BY <1>1 DEF Current, NewNote
  <2> QED BY <2>1, <2>2
<1>5. Marks'
  <2>1. /\ \A p \in Places : points[p] # None => Mentioned(points[p], job.hook + 1)
        /\ \A n \in cut : Mentioned(n, job'.hook)
        /\ object # None =>
             /\ object \in Notes /\ Mentioned(object, job'.hook) /\ object[1] \in Annotators
             /\ object \notin cut => ShownIn(points, object) \subseteq {object[3]}
    BY <1>0, <1>1, MarksWere
  <2>2. Mentioned(NewNote, job'.hook)
    BY <1>0, <1>1 DEF Mentioned
  <2>3. \A n \in cut' : Mentioned(n, job'.hook)
    BY <1>2, <2>1, <2>2
  <2> QED BY <1>0, <1>1, <1>2, <2>1, <2>3, MarksAre
<1>6. ObjectFits'
  <2>1. ASSUME object # None, object[2] # evals,
               NEW h \in Annotators, NEW i \in DOMAIN notified'[h], Starts(h, i)'
        PROVE  NoteOf(h, i)' \in cut'
    <3>0. h \in Hooks
      BY HooksAssumption
    <3>1. CASE i \in DOMAIN notified[h] /\ Starts(h, i) /\ NoteOf(h, i)' = NoteOf(h, i)
      <4>1. NoteOf(h, i) \in cut \/ NoteOf(h, i) = NewNote
        BY <1>0, <2>1, <3>1 DEF NotesInv, ObjectFits
      <4>2. NoteOf(h, i) = NewNote => h = job.hook
        BY <1>1 DEF NoteOf
      <4> QED BY <1>0, <3>1, <4>1, <4>2
    <3>2. CASE h = job.hook /\ NoteOf(h, i)' = NewNote
      BY <1>0, <2>1, <3>2
    <3> QED BY <1>0, <2>1, <3>0, <3>1, <3>2, StartsKept
  <2> QED BY <1>0, <1>1, <1>2, <2>1 DEF NotesInv, ObjectFits
<1>7. EndHeard'
  BY <1>1 DEF EndHeard
<1>8. PastClosed'
  BY <1>0, <1>1, <1>2, PastKept DEF NotesInv
<1>9. CurrentOpen'
  <2>1. ASSUME NEW h \in Annotators, Current(h)' \notin cut', h < job'.hook
        PROVE  Open(h)'
    <3>1. Current(h) \notin cut' /\ h \in Nat
      BY <1>0, <1>1, <1>3, <2>1, CurrentIs
    <3>2. h < job.hook
      BY <1>0, <1>1, <1>3, <2>1, <3>1
    <3>3. Open(h)
      BY <1>0, <1>1, <1>2, <3>1, <3>2 DEF NotesInv, CurrentOpen
    <3>4. Shown(Current(h))' = Shown(Current(h))
      BY <1>0, <1>1, CurrentIs
    <3> QED BY <1>0, <1>1, <3>3, <3>4 DEF Open
  <2> QED BY <1>1, <2>1 DEF CurrentOpen
<1> QED BY <1>5, <1>6, <1>7, <1>8, <1>9 DEF NotesInv

\* The end that a hook hears of comes right after the start.
LEMMA EndHeardKept ==
  ASSUME CallInv, TypeInv, NotesInv, Calls, job.call = "end", job' # None
  PROVE  EndHeard'
<1>1. /\ evals' = evals /\ job # None /\ job'.at = job.at /\ job'.anomaly = job.anomaly
  BY CallKeeps
<1>2. ASSUME NEW h \in Annotators, NEW i \in DOMAIN notified'[h], Starts(h, i)',
             notified'[h][i].at = job.anomaly, i < Len(notified'[h])
      PROVE  notified'[h][i + 1].at = job.at
  <2>1. /\ i \in DOMAIN notified[h] /\ Starts(h, i) /\ notified'[h][i] = notified[h][i]
        /\ i < Len(notified[h]) =>
             i < Len(notified'[h]) /\ notified'[h][i + 1] = notified[h][i + 1]
        /\ ~(i < Len(notified[h])) /\ i < Len(notified'[h]) =>
             notified'[h][i + 1].at = job.at
    <3>1. h \in Hooks
      BY HooksAssumption
    <3> QED BY <1>2, <3>1, StartsKept
  <2>2. i < Len(notified[h]) => notified[h][i + 1].at = job.at
    BY <1>1, <1>2, <2>1 DEF NotesInv, EndHeard
  <2> QED BY <1>2, <2>1, <2>2
<1> QED BY <1>1, <1>2 DEF EndHeard

\* The object of the evaluation stays until the end that is told.
LEMMA ObjectKept ==
  ASSUME CallInv, TypeInv, NotesInv, Calls, job.call = "end", job' # None,
         object' = object, cut' = cut,
         object # None => \A a \in Annotators : a >= job'.hook
  PROVE  ObjectFits'
<1>1. /\ evals' = evals /\ job # None /\ job'.anomaly = job.anomaly
  BY CallKeeps
<1>2. job.step # "set"
  BY <1>1 DEF CallInv, StepFits
<1>3. ASSUME object # None, object[2] # evals,
             NEW h \in Annotators, NEW i \in DOMAIN notified'[h], Starts(h, i)'
      PROVE  NoteOf(h, i)' \in cut
  <2>0. h \in Hooks
    BY HooksAssumption
  <2>1. i \in DOMAIN notified[h] /\ Starts(h, i) /\ NoteOf(h, i)' = NoteOf(h, i)
    BY <1>3, <2>0, StartsKept
  <2> QED BY <1>1, <1>2, <1>3, <2>1 DEF NotesInv, ObjectFits
<1> QED BY <1>1, <1>3 DEF NotesInv, ObjectFits

\* While an end is told, each hook either goes on with its ending or keeps it.
LEMMA EndsKept ==
  ASSUME CallInv, TypeInv, NotesInv, Calls, job.call = "end", job' # None, cut' = cut,
         \A h \in Annotators : Ending(h) => Ending(h)'
  PROVE  CurrentOpen'
<1>1. /\ job # None /\ job.anomaly # None /\ job'.call = "end" /\ job'.anomaly = job.anomaly
  BY CallKeeps
<1>2. ASSUME NEW h \in Annotators, Current(h)' \notin cut', ~Replaced(Current(h))'
      PROVE  Ending(h)'
  <2>1. Current(h) \notin cut /\ ~Replaced(Current(h))
    BY <1>2, CurrentIs
  <2>2. Ending(h)
    BY <1>1, <2>1 DEF NotesInv, CurrentOpen
  <2> QED BY <2>2
<1> QED BY <1>1, <1>2 DEF CurrentOpen

\* The hook of an end is told of it; an annotation hook marks the point of the
\* object deleted.
LEMMA NotesHookEnd ==
  ASSUME CallInv, TypeInv, NotesInv, HookEnd
  PROVE  NotesInv'
<1>0. Calls /\ job.call = "end" /\ job.step = "call" /\ UNCHANGED <<object, cut>>
  BY DEF HookEnd, Calls, Calling
<1> DEFINE Takes == job.hook \in Annotators /\ object # None
<1>1. /\ job # None /\ job' # None /\ job.hook \in Nat /\ evals' = evals
      /\ job.anomaly # None /\ job.anomaly \in Nat
      /\ job'.anomaly = job.anomaly /\ job'.at = job.at /\ job'.call = "end"
      /\ Takes => job'.hook = job.hook /\ job'.step = "move"
      /\ ~Takes => job'.hook = job.hook + 1 /\ job'.step = "call"
  BY <1>0, CallKeeps DEF HookEnd
<1>2. /\ Takes => MarkDeleted(object)
      /\ ~Takes => points' = points
  BY DEF HookEnd
<1>3. object # None => object \in Notes /\ object[3] \in Nat
  BY NoteParts DEF TypeInv, TypeOK
<1>4. /\ \A p \in Places : points'[p] = points[p] \/ points'[p] = None
      /\ \A n \in Notes :
           /\ ShownIn(points', n) \subseteq ShownIn(points, n)
           /\ object # None => ShownIn(points, n) \ {object[3]} \subseteq ShownIn(points', n)
           /\ object = None => ShownIn(points', n) = ShownIn(points, n)
      /\ Takes => object[3] \notin ShownIn(points', object)
  <2>1. CASE Takes
    BY <1>2, <1>3, <2>1, Deleted
  <2>2. CASE ~Takes
    BY <1>2, <2>2
  <2> QED BY <2>1, <2>2
<1>5. Marks'
  <2>1. job.hook <= job'.hook /\ job'.hook \in Nat
    BY <1>1
  <2>2. /\ \A p \in Places : points[p] # None => Mentioned(points[p], job.hook + 1)
        /\ \A n \in cut : Mentioned(n, job'.hook)
        /\ object # None =>
             /\ object \in Notes /\ Mentioned(object, job'.hook) /\ object[1] \in Annotators
             /\ object \notin cut => ShownIn(points, object) \subseteq {object[3]}
    BY <1>0, <2>1, MarksWere
  <2>3. \A p \in Places : points'[p] # None => Mentioned(points'[p], job.hook + 1)
    BY <1>4, <2>2
  <2>4. object # None /\ object \notin cut => ShownIn(points', object) \subseteq {object[3]}
    BY <1>4, <2>2
  <2> QED BY <1>0, <1>1, <2>2, <2>3, <2>4, MarksAre
<1>6. ObjectFits'
  <2>1. object # None => \A a \in Annotators : a >= job.hook
    BY <1>0, <1>1 DEF NotesInv, ObjectFits
  <2>2. object # None => \A a \in Annotators : a >= job'.hook
    <3>1. \A a \in Annotators : a \in Nat
      BY HooksAssumption DEF Hooks
    <3> QED BY <1>1, <2>1, <3>1
  <2> QED BY <1>0, <1>1, <2>2, ObjectKept
<1>7. EndHeard'
  BY <1>0, <1>1, EndHeardKept
<1>8. PastClosed'
  <2>1. ASSUME NEW h \in Annotators, NEW i \in DOMAIN notified[h], NEW e \in Nat, Starts(h, i),
               notified[h][i].at # job.anomaly, e < job.anomaly,
               NoteOf(h, i) \notin cut, ShownIn(points, NoteOf(h, i)) = {e}
        PROVE  ShownIn(points', NoteOf(h, i)) = {e}
    <3>1. NoteOf(h, i) \in Notes
      BY <1>1, EventParts
    <3>2. object # None => object[2] = evals
      BY <1>0, <1>1, <2>1 DEF NotesInv, ObjectFits
    <3>3. object # None => object[3] = job.anomaly
      BY <1>1, <3>2 DEF NotesInv, ObjectFits
    <3> QED BY <1>1, <1>4, <2>1, <3>1, <3>3
  <2> QED BY <1>0, <1>1, <2>1, PastKept DEF NotesInv
<1>9. CurrentOpen'
  <2>1. ASSUME NEW h \in Annotators, Ending(h) PROVE Ending(h)'
    <3>1. /\ Current(h) \in Notes /\ Current(h)[3] = job.anomaly
      BY <1>1, CurrentParts
    <3>2. /\ Current(h)' = Current(h) /\ Shown(Current(h))' = ShownIn(points', Current(h))
          /\ Shown(Current(h)) = ShownIn(points, Current(h))
      BY <1>0, <1>1, CurrentIs
    <3>3. CASE object = Current(h) /\ Shown(Current(h)) = {job.anomaly}
      <4>1. object # None
        BY <3>1, <3>3, NotesAssumption
      <4>2. CASE Takes
        <5>1. ShownIn(points', Current(h)) = {}
          <6>1. job.anomaly \notin ShownIn(points', Current(h))
            BY <1>4, <3>1, <3>3, <4>2
          <6>2. ShownIn(points', Current(h)) \subseteq ShownIn(points, Current(h))
            BY <1>4, <3>1
          <6> QED BY <3>2, <3>3, <6>1, <6>2
        <5> QED BY <1>0, <1>1, <3>2, <3>3, <4>2, <5>1 DEF Ending
      <4>3. CASE ~Takes
        <5>1. points' = points
          BY <1>2, <4>3
        <5> QED BY <1>0, <1>1, <3>2, <3>3, <4>3, <5>1 DEF Ending
      <4> QED BY <4>2, <4>3
    <3>4. CASE object = None /\ Shown(Current(h)) = {job.at}
      <4>1. ~Takes /\ points' = points
        BY <1>2, <3>4
      <4> QED BY <1>0, <1>1, <3>2, <3>4, <4>1 DEF Ending
    <3> QED BY <1>0, <2>1, <3>3, <3>4 DEF Ending
  <2> QED BY <1>0, <1>1, <2>1, EndsKept
<1> QED BY <1>5, <1>6, <1>7, <1>8, <1>9 DEF NotesInv

\* The point of the object is written again, at the end of the anomaly.
LEMMA NotesWriteEnd ==
  ASSUME CallInv, TypeInv, NotesInv, WriteEnd
  PROVE  NotesInv'
<1>0. /\ Calls /\ job # None /\ job.step = "move" /\ UNCHANGED <<object, cut>>
      /\ WriteAt(job.at, object) /\ GoOn("forget") /\ StepFits
  BY DEF WriteEnd, Calls, Within, CallInv
<1>1. /\ job' # None /\ job.hook \in Nat /\ evals' = evals /\ job.call = "end"
      /\ job.anomaly # None /\ job.anomaly \in Nat /\ job.at \in Nat /\ job.at \in Times
      /\ job.anomaly < job.at
      /\ job'.anomaly = job.anomaly /\ job'.at = job.at /\ job'.call = "end"
      /\ job'.hook = job.hook /\ job'.step = "forget"
  BY <1>0, CallKeeps DEF StepFits
<1>2. object # None /\ object \in Notes /\ object[3] \in Nat
  BY <1>0, NoteParts DEF TypeInv, TypeOK, ObjectAtHand
<1>4. /\ \A p \in Places : points'[p] = points[p] \/ points'[p] = object
      /\ \A n \in Notes :
           /\ n = object => ShownIn(points', n) = ShownIn(points, n) \cup {job.at}
           /\ n # object /\ job.at \notin ShownIn(points, n) =>
                ShownIn(points', n) = ShownIn(points, n)
  BY <1>0, <1>1, <1>2, Written
<1>5. Marks'
  <2>1. /\ \A p \in Places : points[p] # None => Mentioned(points[p], job.hook + 1)
        /\ \A n \in cut : Mentioned(n, job.hook)
        /\ object # None => Mentioned(object, job.hook) /\ object[1] \in Annotators
    BY <1>0, <1>1, MarksWere
  <2>2. Mentioned(object, job.hook + 1)
    BY <1>1, <1>2, <2>1, MentionedMore
  <2>3. \A p \in Places : points'[p] # None => Mentioned(points'[p], job.hook + 1)
    BY <1>4, <2>1, <2>2
  <2> QED BY <1>0, <1>1, <2>1, <2>3, MarksAre
<1>6. ObjectFits'
  <2>1. object # None => \A a \in Annotators : a >= job'.hook
    BY <1>0, <1>1 DEF NotesInv, ObjectFits
  <2> QED BY <1>0, <1>1, <2>1, ObjectKept
<1>7. EndHeard'
  BY <1>0, <1>1, EndHeardKept
<1>8. PastClosed'
  <2>1. ASSUME NEW h \in Annotators, NEW i \in DOMAIN notified[h], NEW e \in Nat, Starts(h, i),
               notified[h][i].at # job.anomaly, e < job.anomaly,
               NoteOf(h, i) \notin cut, ShownIn(points, NoteOf(h, i)) = {e}
        PROVE  ShownIn(points', NoteOf(h, i)) = {e}
    <3>1. NoteOf(h, i) \in Notes /\ NoteOf(h, i)[3] = notified[h][i].at
      BY <1>0, EventParts
    <3>2. object[2] = evals
      BY <1>0, <1>1, <1>2, <2>1 DEF NotesInv, ObjectFits
    <3>3. object[3] = job.anomaly
      BY <1>0, <1>2, <3>2 DEF NotesInv, ObjectFits
    <3>4. NoteOf(h, i) # object /\ job.at \notin ShownIn(points, NoteOf(h, i))
      BY <1>1, <2>1, <3>1, <3>3
    <3> QED BY <1>4, <2>1, <3>1, <3>4
  <2> QED BY <1>0, <1>1, <2>1, PastKept DEF NotesInv
<1>9. CurrentOpen'
  <2>1. ASSUME NEW h \in Annotators, Ending(h) PROVE Ending(h)'
    <3>1. object = Current(h) /\ Shown(Current(h)) = {}
      BY <1>0, <2>1 DEF Ending
    <3>2. /\ Current(h)' = Current(h) /\ Shown(Current(h))' = ShownIn(points', Current(h))
          /\ Shown(Current(h)) = ShownIn(points, Current(h))
      BY <1>0, <1>1, CurrentIs
    <3>3. ShownIn(points', Current(h)) = {job.at}
      BY <1>2, <1>4, <3>1, <3>2
    <3> QED BY <1>0, <1>1, <3>1, <3>2, <3>3 DEF Ending
  <2> QED BY <1>0, <1>1, <2>1, EndsKept
<1> QED BY <1>5, <1>6, <1>7, <1>8, <1>9 DEF NotesInv

\* The object is deleted.
LEMMA NotesForgetPoints ==
  ASSUME CallInv, TypeInv, NotesInv, ForgetPoints
  PROVE  NotesInv'
<1>0. /\ Calls /\ job # None /\ job.step = "forget" /\ UNCHANGED <<points, cut>>
      /\ object' = None /\ NextHook /\ StepFits
  BY DEF ForgetPoints, Calls, Within, CallInv, DeleteObject
<1>1. /\ job' # None /\ job.hook \in Nat /\ job.call = "end" /\ job.at \in Nat
      /\ job'.anomaly = job.anomaly /\ job'.at = job.at /\ job'.call = "end"
      /\ job'.hook = job.hook + 1 /\ job'.step = "call"
  BY <1>0, CallKeeps DEF StepFits
<1>5. Marks'
  <2>1. /\ \A p \in Places : points[p] # None => Mentioned(points[p], job.hook + 1)
        /\ \A n \in cut : Mentioned(n, job'.hook)
    BY <1>0, <1>1, MarksWere
  <2> QED BY <1>0, <1>1, <2>1, MarksAre
<1>6. ObjectFits'
  BY <1>0 DEF ObjectFits
<1>7. EndHeard'
  BY <1>0, <1>1, EndHeardKept
<1>8. PastClosed'
  BY <1>0, <1>1, PastKept DEF NotesInv
<1>9. CurrentOpen'
  <2>1. ASSUME NEW h \in Annotators, Ending(h) PROVE Ending(h)'
    <3>1. Shown(Current(h)) = {job.at}
      BY <1>0, <2>1 DEF Ending
    <3>2. Shown(Current(h))' = Shown(Current(h))
      BY <1>0, <1>1, CurrentIs
    <3> QED BY <1>0, <1>1, <3>1, <3>2 DEF Ending
  <2> QED BY <1>0, <1>1, <2>1, EndsKept
<1> QED BY <1>5, <1>6, <1>7, <1>8, <1>9 DEF NotesInv

\* Where nothing of it changes.
LEMMA NotesIdle ==
  ASSUME NotesInv, UNCHANGED <<evals, job, notified, points, object, cut>>
  PROVE  NotesInv'
<1>1. Marks'
  BY DEF NotesInv, Marks, Mentioned, Turn, Shown
<1>2. ObjectFits'
  BY DEF NotesInv, ObjectFits, Starts, NoteOf, NewNote
<1>3. EndHeard'
  BY DEF NotesInv, EndHeard, Starts
<1>4. PastClosed'
  <2>1. Bound' = Bound
    BY DEF Bound
  <2>2. \A h, i : Starts(h, i)' = Starts(h, i) /\ Closed(h, i) = Closed(h, i)'
    BY <2>1, QuietNotes DEF Closed
  <2> QED BY <2>2 DEF NotesInv, PastClosed
<1>5. CurrentOpen'
  <2>1. \A h : /\ Current(h)' = Current(h) /\ Open(h)' = Open(h) /\ Ending(h)' = Ending(h)
               /\ Replaced(Current(h))' = Replaced(Current(h))
               /\ Shown(Current(h))' = Shown(Current(h))
    BY DEF Current, Open, Ending, Replaced, Shown
  <2> QED BY <2>1 DEF NotesInv, CurrentOpen
<1> QED BY <1>1, <1>2, <1>3, <1>4, <1>5 DEF NotesInv

LEMMA NotesStep ==
  ASSUME CallInv, TypeInv, Sequenced, NotesInv, [Next]_vars
  PROVE  NotesInv'
<1>1. ASSUME NEW s \in Scores, NewBucket(s) PROVE NotesInv'
  <2>1. UNCHANGED <<evals, job, notified, points, object, cut>>
    BY <1>1 DEF NewBucket
  <2> QED BY <2>1, NotesIdle
<1>2. CASE UNCHANGED vars
  <2>1. UNCHANGED <<evals, job, notified, points, object, cut>>
    BY <1>2 DEF vars
  <2> QED BY <2>1, NotesIdle
<1>3. ASSUME NEW range \in Ranges, NEW output \in Outputs,
             UserEval(range, output) \/ ScheduledEval(range, output)
      PROVE  NotesInv'
  <2>1. \E o \in Buckets \cup {None, NoneAsText} : LoadModel(range, o)
    BY <1>3, BucketsAssumption DEF UserEval, ScheduledEval
  <2> QED BY <2>1, NotesLoadModel
<1>4. CASE SaveOutput \/ HookEndFails \/ EndIsCut \/ Killed
  <2>1. /\ job # None /\ job' = None /\ UNCHANGED <<evals, points, object>>
        /\ job.step \in {"call", "set", "move", "forget"} /\ StepFits
    BY <1>4, JobParts DEF SaveOutput, HookEndFails, EndIsCut, Killed, Calling, Within, CallInv
  <2>2. EndIsCut => cut' = cut \cup Halfway
    BY DEF EndIsCut, Within, Halfway
  <2>3. cut' = cut \/ cut' = cut \cup Halfway
    BY <1>4, <2>2 DEF SaveOutput, HookEndFails, Killed
  <2>4. SaveOutput \/ HookEndFails => job.step # "forget"
    BY <2>1 DEF SaveOutput, HookEndFails, Calling, StepFits
  <2>5. job.step = "forget" => object \in cut'
    BY <1>4, <2>2, <2>4 DEF Killed, Halfway
  <2> QED BY <2>1, <2>3, <2>5, NotesStop
<1>5. CASE HooksCalled
  <2>1. job.call \in {"none", "start", "end"} /\ job.call # "none"
    BY <1>5, JobParts DEF HooksCalled
  <2> QED BY <1>5, <2>1, NotesStartTold, NotesEndTold
<1>6. CASE Detection
  BY <1>6, NotesAnomalyStarts, NotesAnomalyEnds, NotesNextBucket DEF Detection
<1>7. CASE \/ HookStart \/ KeepPoints \/ HookStartFails \/ KeepFails
           \/ HookEnd \/ WriteEnd \/ ForgetPoints
  BY <1>7, NotesHookStart, NotesKeepPoints, NotesStartFails, NotesHookEnd, NotesWriteEnd,
     NotesForgetPoints
<1> QED
  BY <1>1, <1>2, <1>3, <1>4, <1>5, <1>6, <1>7 DEF Next, Step, HookCalls

LEMMA NotesAlways == Spec => []NotesInv
<1>1. CallInv /\ TypeInv /\ Sequenced /\ NotesInv /\ [Next]_vars => NotesInv'
  BY NotesStep
<1> QED BY <1>1, NotesInit, CallsAlways, TypesAlways, SequencedAlways, PTL DEF Spec

\* Between two buckets, an annotation that a hook was told to make and that no
\* call of its own left half-made is shown where it should be: at the start
\* while its anomaly is in progress and at the end once it is over, for any
\* hooks, failures, kills and evaluations before.
THEOREM AnnotationsEnd == Spec => []AnnotationsClosed
<1>1. CallInv /\ TypeInv /\ Sequenced /\ NotesInv => AnnotationsClosed
  <2>1. SUFFICES ASSUME CallInv, TypeInv, Sequenced, NotesInv, job # None, job.call = "none",
                        NEW h \in Annotators, NEW i \in DOMAIN notified[h], Starts(h, i),
                        NoteOf(h, i) \notin cut, ~Replaced(NoteOf(h, i))
                 PROVE  Shown(NoteOf(h, i)) =
                          {IF i = Len(notified[h]) THEN notified[h][i].at
                           ELSE notified[h][i + 1].at}
    BY DEF AnnotationsClosed, Starts, NoteOf
  <2>0. notified[h] \in Seq(Event) /\ h \in Hooks
    BY <2>1, HooksAssumption DEF CallInv, CallTypes, Event
  <2>2. i \in 1..Len(notified[h]) /\ Len(notified[h]) \in Nat
    BY <2>0
  <2>3. CASE notified[h][i].at # job.anomaly
    <3>1. Closed(h, i)
      BY <2>1, <2>3 DEF NotesInv, PastClosed
    <3> QED BY <2>1, <2>2, <3>1 DEF Closed
  <2>4. CASE notified[h][i].at = job.anomaly
    <3>1. job.anomaly # None /\ NoteOf(h, i) = Current(h)
      BY <2>1, <2>4, EventParts DEF NoteOf, Current
    <3>2. Shown(NoteOf(h, i)) = {job.anomaly}
      BY <2>1, <3>1 DEF NotesInv, CurrentOpen, Open
    <3>3. i = Len(notified[h])
      <4> DEFINE last == notified[h][Len(notified[h])]
      <4>1. Inside(h) /\ Heard(h) /\ last.at = job.anomaly
        BY <2>0, <2>1, <3>1 DEF CallInv, LastCall, Inside
      <4>2. notified[h] # <<>> /\ last.eval = evals
        BY <4>1 DEF Heard
      <4>3. Len(notified[h]) \in DOMAIN notified[h]
        BY <2>0, <4>2, CallsTyped DEF CallInv
      <4>4. i < Len(notified[h]) => notified[h][i].at < last.at
        BY <2>0, <2>1, <4>2, <4>3 DEF Sequenced, Starts
      <4>5. notified[h][i].at \in Nat
        BY <2>1, EventParts
      <4> QED BY <2>2, <2>4, <4>1, <4>4, <4>5
    <3> QED BY <2>4, <3>2, <3>3
  <2> QED BY <2>3, <2>4
<1> QED BY <1>1, CallsAlways, TypesAlways, SequencedAlways, NotesAlways, PTL

\* An annotation shown at its end is never shown anywhere else, unless the call
\* that wrote its end was cut off before the object was deleted: no later end,
\* no other hook and no later evaluation writes it again.
THEOREM EndsAreFinal == Spec => AnnotationsFinal
<1>1. ASSUME CallInv, TypeInv, NotesInv, [Next]_vars
      PROVE  [\A n \in Notes : \A t \in Shown(n) :
                t # n[3] /\ n \notin cut' => Shown(n)' \subseteq Shown(n)]_vars
  <2>1. SUFFICES ASSUME NEW n \in Notes, NEW t \in Shown(n), t # n[3], n \notin cut'
                 PROVE  ShownIn(points', n) \subseteq ShownIn(points, n)
    BY DEF Shown, ShownIn
  <2>2. t \in ShownIn(points, n)
    BY <2>1, ShownIs
  <2>3. CASE UNCHANGED points
    BY <2>3
  <2>4. CASE HookStart
    <3>1. Calls /\ job.call = "start" /\ job.step = "call"
      BY <2>4 DEF HookStart, Calling, Calls
    <3>2. NewNote \in Notes /\ job.at \in Times /\ n # NewNote
      BY <1>1, <2>2, <3>1, CallKeeps, NewIsNew
    <3>3. UNCHANGED points \/ WriteAt(job.at, NewNote)
      BY <2>4 DEF HookStart
    <3> QED BY <1>1, <2>3, <3>2, <3>3, Written
  <2>5. CASE HookEnd
    <3>1. UNCHANGED points \/ (object \in Notes /\ MarkDeleted(object))
      BY <1>1, <2>5 DEF HookEnd, TypeInv, TypeOK
    <3> QED BY <1>1, <2>3, <3>1, Deleted
  <2>6. CASE WriteEnd
    <3>1. /\ Calls /\ job # None /\ job.step = "move" /\ WriteAt(job.at, object) /\ cut' = cut
      BY <2>6 DEF WriteEnd, Within, Calls
    <3>2. object \in Notes /\ object # None /\ job.at \in Times
      BY <1>1, <3>1, CallKeeps DEF TypeInv, TypeOK, ObjectAtHand
    <3>3. object \notin cut => ShownIn(points, object) \subseteq {object[3]}
      BY <1>1, <3>1, <3>2, ShownIs DEF NotesInv, Marks
    <3>4. n # object
      BY <2>1, <2>2, <3>1, <3>3
    <3> QED BY <1>1, <3>1, <3>2, <3>4, Written
  <2> QED
    BY <1>1, <2>3, <2>4, <2>5, <2>6
       DEF Next, Step, Detection, HookCalls, NewBucket, UserEval, ScheduledEval, LoadModel,
           AnomalyStarts, AnomalyEnds, NextBucket, HooksCalled, SaveOutput, Killed, vars,
           HookStartFails, HookEndFails, KeepPoints, KeepFails, ForgetPoints, EndIsCut
<1>2. CallInv /\ TypeInv /\ NotesInv /\ [Next]_vars =>
        [\A n \in Notes : \A t \in Shown(n) :
           t # n[3] /\ n \notin cut' => Shown(n)' \subseteq Shown(n)]_vars
  BY <1>1
<1> QED BY <1>2, CallsAlways, TypesAlways, NotesAlways, PTL DEF Spec, AnnotationsFinal
=============================================================================
