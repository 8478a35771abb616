--------------------------- MODULE JobServerProofs ---------------------------
(***************************************************************************)
(* Theorems about JobServer for any set of jobs, any number of workers and *)
(* any number of progress messages.                                        *)
(***************************************************************************)
EXTENDS JobServer, TLAPS

-----------------------------------------------------------------------------
(* Type correctness                                                         *)

\* The initial state of the server is well typed.
LEMMA TypeInit == Init => TypeOK
  BY JobsAssumption, BoundsAssumption
  DEF Init, TypeOK, Jobs, States, Stopped, Futures, Callbacks, Messages, Idle

\* Every step of a handler, the pools, a worker or the timer keeps the types.
LEMMA TypeStep == TypeOK /\ [Next]_vars => TypeOK'
<1> SUFFICES ASSUME TypeOK, [Next]_vars PROVE TypeOK'
  OBVIOUS
<1> USE JobsAssumption, BoundsAssumption
    DEF TypeOK, Jobs, States, Stopped, Futures, Callbacks, Messages,
        HttpSteps, Idle, At, jobVars, poolVars
<1>1. ASSUME NEW j \in Jobs, StartJob(j) PROVE TypeOK'
  BY <1>1 DEF StartJob
<1>2. ASSUME NEW j \in Jobs, CancelJob(j) PROVE TypeOK'
  BY <1>2 DEF CancelJob
<1>3. CASE AttachCallback
  <2>1. http \in [at : HttpSteps, job : Jobs] /\ http.job \in Jobs
    BY <1>3 DEF AttachCallback
  <2>2. http' \in [at : HttpSteps, job : Jobs]
    BY <1>3, <2>1 DEF AttachCallback
  <2>3. callback' \in [Jobs -> Callbacks]
    BY <1>3, <2>1 DEF AttachCallback
  <2> QED BY <1>3, <2>2, <2>3 DEF AttachCallback
<1>4. CASE AttachedCallbackOver
  BY <1>4 DEF AttachedCallbackOver
<1>5. CASE RecordTraining
  BY <1>5 DEF RecordTraining
<1>6. CASE RecordBackground
  BY <1>6 DEF RecordBackground
<1>7. CASE ReturnResult
  BY <1>7 DEF ReturnResult
<1>8. CASE MarkCanceling
  BY <1>8 DEF MarkCanceling
<1>9. CASE CancelFuture
  <2>1. http \in [at : HttpSteps, job : Jobs] /\ http.job \in Jobs
    BY <1>9 DEF CancelFuture
  <2>2. http' \in [at : HttpSteps, job : Jobs] \cup {Idle}
    BY <1>9, <2>1 DEF CancelFuture
  <2>3. callback' \in [Jobs -> Callbacks] /\ future' \in [Jobs -> Futures]
    BY <1>9, <2>1 DEF CancelFuture
  <2> QED BY <1>9, <2>2, <2>3 DEF CancelFuture
<1>10. CASE CanceledCallbackOver
  BY <1>10 DEF CanceledCallbackOver
<1>11. ASSUME NEW j \in Jobs, RunJob(j) PROVE TypeOK'
  BY <1>11 DEF RunJob
<1>12. ASSUME NEW j \in Jobs, NEW f \in {"finished", "error"}, FinishJob(j, f)
       PROVE TypeOK'
  BY <1>12 DEF FinishJob
<1>13. ASSUME NEW j \in Jobs, KillWorker(j) PROVE TypeOK'
  BY <1>13 DEF KillWorker
<1>14. ASSUME NEW j \in Jobs, AnswerCallback(j) PROVE TypeOK'
  BY <1>14 DEF AnswerCallback
<1>15. ASSUME NEW j \in Jobs, StateCallback(j) PROVE TypeOK'
  BY <1>15 DEF StateCallback, Verdict
<1>16. ASSUME NEW j \in Jobs, ReportProgress(j) PROVE TypeOK'
  <2>1. sent'[j] \in 0..MaxEval /\ sent' \in [Jobs -> 0..MaxEval]
    BY <1>16 DEF ReportProgress
  <2>2. queue' \in Seq(Messages)
    BY <1>16, <2>1 DEF ReportProgress
  <2> QED BY <1>16, <2>1, <2>2 DEF ReportProgress
<1>17. CASE TakeMessage
  <2> HIDE DEF Messages
  <2>1. Head(queue) \in Messages /\ queue' \in Seq(Messages)
    BY <1>17 DEF TakeMessage
  <2>2. timer' \in Messages \cup {NoJob}
    BY <1>17, <2>1 DEF TakeMessage
  <2> QED BY <1>17, <2>1, <2>2 DEF TakeMessage
<1>18. CASE ApplyMessage
  <2>1. timer \in Messages /\ timer.job \in Jobs /\ timer.eval \in 0..MaxEval
    BY <1>18 DEF ApplyMessage
  <2>2. state' \in [Jobs -> States]
    BY <1>18, <2>1 DEF ApplyMessage
  <2>3. eval' \in [Jobs -> 0..MaxEval]
    BY <1>18, <2>1 DEF ApplyMessage
  <2>4. timer' \in Messages \cup {NoJob}
    BY <1>18 DEF ApplyMessage
  <2> QED BY <1>18, <2>2, <2>3, <2>4 DEF ApplyMessage
<1>19. ASSUME NEW expired \in SUBSET Jobs, ClearJobs(expired) PROVE TypeOK'
  BY <1>19 DEF ClearJobs
<1>20. CASE UNCHANGED vars
  BY <1>20 DEF vars
<1> QED
  BY <1>1, <1>2, <1>3, <1>4, <1>5, <1>6, <1>7, <1>8, <1>9, <1>10, <1>11, <1>12,
     <1>13, <1>14, <1>15, <1>16, <1>17, <1>18, <1>19, <1>20
  DEF Next, Request, Handler, Pool, Timer

\* Every reachable state of the job server is well typed.
THEOREM TypeCorrect == Spec => []TypeOK
  BY TypeInit, TypeStep, PTL DEF Spec

-----------------------------------------------------------------------------
(* The inductive invariant                                                  *)

\* The future, Job._done_cb and its effects advance in this order.
CallbackOrder ==
  \A j \in Jobs :
    /\ callback[j] \in {"ready", "answered", "over"} => Completed(j)
    /\ answered[j] <=> callback[j] \in {"answered", "over"}

\* Where a job is between its creation, the end of start and its expiry.
Registration ==
  \A j \in Jobs :
    /\ future[j] = "none" => registered[j] = "no" /\ callback[j] = "none"
    /\ future[j] # "none" /\ ~Starting(j) => registered[j] # "no"
    /\ Starting(j) => future[j] \notin {"none", "cancelled"}
    /\ Starting(j) => (registered[j] = "no" <=> j \in Background)
    /\ registered[j] = "expired" => callback[j] = "over"
    /\ http.at = "attach" /\ http.job = j => callback[j] = "none"

\* BlockedRequestNotCanceled is inductive only with Registration, which says
\* that the job a handler starts cannot be cancelled before the handler waits.
IInv ==
  /\ TypeOK
  /\ CallbackOrder
  /\ Registration
  /\ VerdictMatchesOutcome
  /\ BlockedRequestNotCanceled

\* The initial state, without any job, satisfies the inductive invariant.
LEMMA IInvInit == Init => IInv
  BY TypeInit, JobsAssumption
  DEF Init, IInv, CallbackOrder, Registration, VerdictMatchesOutcome,
      BlockedRequestNotCanceled, Starting, Completed, IsStopped, Stopped, Idle, Jobs

\* A handler that is not idle handles a job.
LEMMA HttpJob == TypeOK /\ http.at # "idle" => http.job \in Jobs /\ http # Idle
  BY DEF TypeOK, Idle

\* Every step keeps the inductive invariant, which is why VerdictMatchesOutcome
\* and its companions hold whatever the threads do.
LEMMA IInvStep == IInv /\ [Next]_vars => IInv'
<1> SUFFICES ASSUME IInv, [Next]_vars
             PROVE  /\ CallbackOrder'
                    /\ Registration'
                    /\ VerdictMatchesOutcome'
                    /\ BlockedRequestNotCanceled'
  BY TypeStep DEF IInv
<1> DEFINE Goal == CallbackOrder /\ Registration /\ VerdictMatchesOutcome
                     /\ BlockedRequestNotCanceled
<1>0. NoJob \notin Jobs /\ Training \cap Background = {} /\ TypeOK'
  BY JobsAssumption, TypeStep DEF Jobs, IInv
<1> USE <1>0, HttpJob
    DEF IInv, TypeOK, CallbackOrder, Registration, VerdictMatchesOutcome,
        BlockedRequestNotCanceled, Starting, Completed, IsStopped, Stopped, Idle, At,
        jobVars, poolVars
<1>1. ASSUME NEW j \in Jobs, StartJob(j) PROVE Goal'
  BY <1>1 DEF StartJob, Jobs
<1>2. ASSUME NEW j \in Jobs, CancelJob(j) PROVE Goal'
  BY <1>2 DEF CancelJob
<1>3. CASE AttachCallback
  BY <1>3 DEF AttachCallback
<1>4. CASE AttachedCallbackOver
  BY <1>4 DEF AttachedCallbackOver
<1>5. CASE RecordTraining
  BY <1>5 DEF RecordTraining, Jobs
<1>6. CASE RecordBackground
  BY <1>6 DEF RecordBackground, Jobs
<1>7. CASE ReturnResult
  BY <1>7 DEF ReturnResult
<1>8. CASE MarkCanceling
  BY <1>8 DEF MarkCanceling
<1>9. CASE CancelFuture
  <2>1. http.job \in Jobs /\ http.at = "cancel"
    BY <1>9 DEF CancelFuture
  <2>2. CASE future[http.job] = "pending"
    <3>1. /\ future' = [future EXCEPT ![http.job] = "cancelled"]
          /\ callback' = [callback EXCEPT ![http.job] = "ready"]
          /\ http' = At("runCanceled", http.job)
          /\ UNCHANGED jobVars
      BY <1>9, <2>2 DEF CancelFuture
    <3> QED BY <2>1, <2>2, <3>1
  <2>3. CASE future[http.job] # "pending"
    BY <1>9, <2>1, <2>3 DEF CancelFuture
  <2> QED BY <2>2, <2>3
<1>10. CASE CanceledCallbackOver
  BY <1>10 DEF CanceledCallbackOver
<1>11. ASSUME NEW j \in Jobs, RunJob(j) PROVE Goal'
  BY <1>11 DEF RunJob
<1>12. ASSUME NEW j \in Jobs, NEW f \in {"finished", "error"}, FinishJob(j, f)
      PROVE Goal'
  BY <1>12 DEF FinishJob
<1>13. ASSUME NEW j \in Jobs, KillWorker(j) PROVE Goal'
  BY <1>13 DEF KillWorker
<1>14. ASSUME NEW j \in Jobs, AnswerCallback(j) PROVE Goal'
  BY <1>14 DEF AnswerCallback
<1>15. ASSUME NEW j \in Jobs, StateCallback(j) PROVE Goal'
  BY <1>15 DEF StateCallback, Verdict
<1>16. ASSUME NEW j \in Jobs, ReportProgress(j) PROVE Goal'
  BY <1>16 DEF ReportProgress
<1>17. CASE TakeMessage
  BY <1>17 DEF TakeMessage
<1>18. CASE ApplyMessage
  BY <1>18 DEF ApplyMessage
<1>19. ASSUME NEW expired \in SUBSET Jobs, ClearJobs(expired) PROVE Goal'
  BY <1>19 DEF ClearJobs
<1>20. CASE UNCHANGED vars
  BY <1>20 DEF vars
<1> QED
  BY <1>1, <1>2, <1>3, <1>4, <1>5, <1>6, <1>7, <1>8, <1>9, <1>10, <1>11, <1>12, <1>13, <1>14, <1>15, <1>16, <1>17, <1>18, <1>19, <1>20
  DEF Next, Request, Handler, Pool, Timer

\* The inductive invariant holds in every reachable state.
LEMMA Invariant == Spec => []IInv
  BY IInvInit, IInvStep, PTL DEF Spec

\* A stopped state always agrees with the outcome of the future, however the
\* callback, cancel and the messages of the worker interleave.
THEOREM VerdictCorrect == Spec => []VerdictMatchesOutcome
  BY Invariant, PTL DEF IInv

\* A request that waits for a result is never surprised by a cancellation.
THEOREM NoCancelUnderRequest == Spec => []BlockedRequestNotCanceled
  BY Invariant, PTL DEF IInv

\* daemon_clear_jobs always finds the done_dt of a stopped job.
THEOREM EndDateSet == Spec => []StoppedHasEndDate
<1>1. IInv => StoppedHasEndDate
  BY DEF IInv, CallbackOrder, VerdictMatchesOutcome, StoppedHasEndDate
<1> QED BY <1>1, Invariant, PTL

\* A job that can still run stays in g_jobs once it is started.
THEOREM LiveListed == Spec => []LiveJobIsListed
<1>1. IInv => LiveJobIsListed
  BY DEF IInv, TypeOK, Registration, CallbackOrder, LiveJobIsListed, Completed
<1> QED BY <1>1, Invariant, PTL

-----------------------------------------------------------------------------
(* Refinement of JobLedger                                                  *)

\* The phase of every job is one of the cases of Phase.
LEMMA PhaseCases ==
  ASSUME IInv, NEW j \in Jobs
  PROVE  /\ Phase(j) = "forgotten" <=> registered[j] = "expired"
         /\ Phase(j) = "answered" <=> registered[j] # "expired" /\ answered[j]
         /\ Phase(j) = "over" <=> ~answered[j] /\ Completed(j)
         /\ Phase(j) = "live" <=> future[j] = "pending"
         /\ Phase(j) = "absent" <=> future[j] = "none"
         /\ Phase(j) \in {"forgotten", "answered", "over", "live", "absent"}
  BY DEF IInv, TypeOK, Phase, CallbackOrder, Registration, Completed, Futures

Outcome(j) == IF Completed(j) THEN future[j] ELSE "none"

\* A step that leaves the phases and outcomes alone is a stutter of the ledger.
LEMMA Stutter ==
  ASSUME \A j \in Jobs : Phase(j)' = Phase(j) /\ Outcome(j)' = Outcome(j)
  PROVE  UNCHANGED Ledger!vars
  BY DEF Ledger!vars, Outcome

\* A step that changes neither the phase nor the outcome of any job stutters.
LEMMA StutterSame ==
  ASSUME UNCHANGED <<registered, answered, future>>
  PROVE  UNCHANGED Ledger!vars
  BY Stutter DEF Phase, Outcome, Completed

\* One job moves to another phase and outcome; the others keep theirs.
Moves(j, p, o) ==
  /\ Phase(j)' = p /\ Outcome(j)' = o
  /\ \A k \in Jobs \ {j} : Phase(k)' = Phase(k) /\ Outcome(k)' = Outcome(k)

\* How the ledger's functions change when one job moves.
LEMMA MovesLedger ==
  ASSUME NEW j \in Jobs, NEW p, NEW o, Moves(j, p, o)
  PROVE  /\ [k \in Jobs |-> Phase(k)]' = [[k \in Jobs |-> Phase(k)] EXCEPT ![j] = p]
         /\ [k \in Jobs |-> Outcome(k)]' = [[k \in Jobs |-> Outcome(k)] EXCEPT ![j] = o]
         /\ Outcome(j) = o => [k \in Jobs |-> Outcome(k)]' = [k \in Jobs |-> Outcome(k)]
  BY DEF Moves

\* Submit: the future of the job is created.
LEMMA SubmitStep ==
  ASSUME IInv, IInv', NEW j \in Jobs, StartJob(j)
  PROVE  Ledger!Submit(j)
<1>1. Phase(j) = "absent" /\ Outcome(j) = "none"
  BY PhaseCases DEF StartJob, Outcome, Completed
<1>2. future'[j] = "pending" /\ \A k \in Jobs \ {j} :
        /\ future'[k] = future[k] /\ answered'[k] = answered[k]
        /\ registered'[k] = registered[k]
  BY DEF StartJob, IInv, TypeOK
<1>3. Moves(j, "live", "none")
  <2>1. Phase(j)' = "live"
    <3>1. registered'[j] # "expired" /\ ~answered'[j] /\ future'[j] = "pending"
      BY <1>2 DEF IInv, CallbackOrder, Registration, Completed
    <3> QED BY <3>1 DEF Phase, Completed
  <2>2. Outcome(j)' = "none"
    BY <1>2 DEF Outcome, Completed
  <2>3. ASSUME NEW k \in Jobs \ {j}
        PROVE  Phase(k)' = Phase(k) /\ Outcome(k)' = Outcome(k)
    BY <1>2 DEF Phase, Outcome, Completed
  <2> QED BY <2>1, <2>2, <2>3 DEF Moves
<1> QED BY <1>1, <1>3, MovesLedger DEF Ledger!Submit, Outcome

\* Settle: the future of a live job completes, with any of the outcomes.
LEMMA SettleStep ==
  ASSUME IInv, IInv', NEW j \in Jobs, future[j] = "pending",
         NEW f \in {"finished", "error", "cancelled"},
         future' = [future EXCEPT ![j] = f], UNCHANGED <<registered, answered>>
  PROVE  Ledger!Settle(j)
<1>1. Phase(j) = "live"
  BY PhaseCases
<1>2. future'[j] = f /\ \A k \in Jobs \ {j} : future'[k] = future[k]
  BY DEF IInv, TypeOK
<1>3. Moves(j, "over", f)
  <2>1. ~answered[j] /\ registered[j] # "expired"
    BY DEF IInv, TypeOK, CallbackOrder, Registration, Completed
  <2>2. Phase(j)' = "over" /\ Outcome(j)' = f
    BY <1>2, <2>1 DEF Phase, Outcome, Completed
  <2>3. ASSUME NEW k \in Jobs \ {j}
        PROVE  Phase(k)' = Phase(k) /\ Outcome(k)' = Outcome(k)
    BY <1>2 DEF Phase, Outcome, Completed
  <2> QED BY <2>2, <2>3 DEF Moves
<1>4. \E o \in Ledger!Outcomes :
        [k \in Jobs |-> Outcome(k)]' = [[k \in Jobs |-> Outcome(k)] EXCEPT ![j] = o]
  <2>1. f \in Ledger!Outcomes
    BY DEF Ledger!Outcomes
  <2>2. [k \in Jobs |-> Outcome(k)]' = [[k \in Jobs |-> Outcome(k)] EXCEPT ![j] = f]
    BY <1>3, MovesLedger
  <2> QED BY <2>1, <2>2
<1>5. [k \in Jobs |-> Phase(k)]' = [[k \in Jobs |-> Phase(k)] EXCEPT ![j] = "over"]
  BY <1>3, MovesLedger
<1> QED BY <1>1, <1>4, <1>5 DEF Ledger!Settle, Outcome

\* Answer: Job._done_cb stores the result or the error.
LEMMA AnswerStep ==
  ASSUME IInv, IInv', NEW j \in Jobs, AnswerCallback(j)
  PROVE  Ledger!Answer(j)
<1>1. Phase(j) = "over" /\ registered[j] # "expired" /\ Completed(j)
  BY PhaseCases DEF AnswerCallback, IInv, CallbackOrder, Registration
<1>2. /\ answered'[j] /\ \A k \in Jobs \ {j} : answered'[k] = answered[k]
      /\ UNCHANGED <<registered, future>>
  BY DEF AnswerCallback, IInv, TypeOK
<1>3. Moves(j, "answered", Outcome(j))
  <2>1. Phase(j)' = "answered" /\ Outcome(j)' = Outcome(j)
    BY <1>1, <1>2 DEF Phase, Outcome, Completed
  <2>2. ASSUME NEW k \in Jobs \ {j}
        PROVE  Phase(k)' = Phase(k) /\ Outcome(k)' = Outcome(k)
    BY <1>2 DEF Phase, Outcome, Completed
  <2> QED BY <2>1, <2>2 DEF Moves
<1>4. [k \in Jobs |-> Outcome(k)]' = [k \in Jobs |-> Outcome(k)]
  BY <1>3 DEF Moves
<1>5. [k \in Jobs |-> Phase(k)]' = [[k \in Jobs |-> Phase(k)] EXCEPT ![j] = "answered"]
  BY <1>3, MovesLedger
<1> QED BY <1>1, <1>4, <1>5 DEF Ledger!Answer, Outcome

\* Forget: daemon_clear_jobs deletes the jobs that expired.
LEMMA ForgetStep ==
  ASSUME IInv, IInv', NEW expired \in SUBSET Jobs, ClearJobs(expired)
  PROVE  Ledger!Forget(expired)
<1>1. /\ registered' = [j \in Jobs |-> IF j \in expired THEN "expired" ELSE registered[j]]
      /\ UNCHANGED <<answered, future>>
  BY DEF ClearJobs, poolVars
<1>2. ASSUME NEW j \in expired PROVE Phase(j) = "answered"
  <2>1. j \in Jobs /\ registered[j] = "yes" /\ answered[j]
    BY DEF ClearJobs
  <2> QED BY <2>1 DEF Phase
<1>3. ASSUME NEW j \in Jobs
      PROVE  /\ Phase(j)' = IF j \in expired THEN "forgotten" ELSE Phase(j)
             /\ Outcome(j)' = Outcome(j)
  <2>1. CASE j \in expired
    BY <1>1, <2>1 DEF Phase, Outcome, Completed
  <2>2. CASE j \notin expired
    <3>1. registered'[j] = registered[j]
      BY <1>1, <2>2
    <3> QED BY <1>1, <2>2, <3>1 DEF Phase, Outcome, Completed
  <2> QED BY <2>1, <2>2
<1> QED BY <1>2, <1>3 DEF Ledger!Forget, Outcome

\* Background jobs enter g_jobs at the end of start: no change of the phase.
LEMMA RecordStep ==
  ASSUME IInv, IInv', RecordBackground
  PROVE  UNCHANGED Ledger!vars
<1>1. http.job \in Jobs /\ registered[http.job] = "no"
  BY HttpJob DEF RecordBackground, IInv, Registration, Starting
<1>2. ASSUME NEW j \in Jobs
      PROVE  /\ registered'[j] = "expired" <=> registered[j] = "expired"
             /\ answered'[j] = answered[j] /\ future'[j] = future[j]
  BY <1>1 DEF RecordBackground, poolVars, IInv, TypeOK
<1>3. ASSUME NEW j \in Jobs
      PROVE  Phase(j)' = Phase(j) /\ Outcome(j)' = Outcome(j)
  BY <1>2 DEF Phase, Outcome, Completed
<1> QED BY <1>3, Stutter

\* Every step of the server is a step of the ledger or a stutter.
LEMMA LedgerStep == IInv /\ IInv' /\ [Next]_vars => [Ledger!Next]_(Ledger!vars)
<1> SUFFICES ASSUME IInv, IInv', [Next]_vars
             PROVE  Ledger!Next \/ UNCHANGED Ledger!vars
  OBVIOUS
<1> USE StutterSame DEF jobVars, poolVars
<1>1. ASSUME NEW j \in Jobs, StartJob(j) PROVE Ledger!Next
  BY <1>1, SubmitStep DEF Ledger!Next
<1>2. ASSUME NEW j \in Jobs, CancelJob(j) PROVE UNCHANGED Ledger!vars
  BY <1>2 DEF CancelJob
<1>3. CASE AttachCallback
  BY <1>3 DEF AttachCallback
<1>4. CASE AttachedCallbackOver
  BY <1>4 DEF AttachedCallbackOver
<1>5. CASE RecordTraining
  BY <1>5 DEF RecordTraining
<1>6. CASE RecordBackground
  BY <1>6, RecordStep
<1>7. CASE ReturnResult
  BY <1>7 DEF ReturnResult
<1>8. CASE MarkCanceling
  BY <1>8 DEF MarkCanceling
<1>9. CASE CancelFuture
  <2>1. http.job \in Jobs
    BY <1>9, HttpJob DEF CancelFuture, IInv
  <2>2. CASE future[http.job] = "pending"
    BY <1>9, <2>1, <2>2, SettleStep DEF CancelFuture, Ledger!Next
  <2>3. CASE future[http.job] # "pending"
    BY <1>9, <2>3 DEF CancelFuture
  <2> QED BY <2>2, <2>3
<1>10. CASE CanceledCallbackOver
  BY <1>10 DEF CanceledCallbackOver
<1>11. ASSUME NEW j \in Jobs, RunJob(j) PROVE UNCHANGED Ledger!vars
  BY <1>11 DEF RunJob
<1>12. ASSUME NEW j \in Jobs, NEW f \in {"finished", "error"}, FinishJob(j, f)
       PROVE  Ledger!Next
  BY <1>12, SettleStep DEF FinishJob, Ledger!Next
<1>13. ASSUME NEW j \in Jobs, KillWorker(j) PROVE UNCHANGED Ledger!vars
  BY <1>13 DEF KillWorker
<1>14. ASSUME NEW j \in Jobs, AnswerCallback(j) PROVE Ledger!Next
  BY <1>14, AnswerStep DEF Ledger!Next
<1>15. ASSUME NEW j \in Jobs, StateCallback(j) PROVE UNCHANGED Ledger!vars
  BY <1>15 DEF StateCallback
<1>16. ASSUME NEW j \in Jobs, ReportProgress(j) PROVE UNCHANGED Ledger!vars
  BY <1>16 DEF ReportProgress
<1>17. CASE TakeMessage
  BY <1>17 DEF TakeMessage
<1>18. CASE ApplyMessage
  BY <1>18 DEF ApplyMessage
<1>19. ASSUME NEW expired \in SUBSET Jobs, ClearJobs(expired) PROVE Ledger!Next
  BY <1>19, ForgetStep DEF Ledger!Next
<1>20. CASE UNCHANGED vars
  BY <1>20 DEF vars
<1> QED
  BY <1>1, <1>2, <1>3, <1>4, <1>5, <1>6, <1>7, <1>8, <1>9, <1>10, <1>11, <1>12,
     <1>13, <1>14, <1>15, <1>16, <1>17, <1>18, <1>19, <1>20
  DEF Next, Request, Handler, Pool, Timer

\* No job is started yet: an initial state of the ledger.
LEMMA LedgerInit == Init => Ledger!Init
  BY DEF Init, Ledger!Init, Phase, Completed

\* The server implements JobLedger: every job is answered once, with the one
\* outcome of its future, and forgotten only afterwards.
THEOREM Refinement == Spec => ImplementsLedger
<1>1. Init => Ledger!Init
  BY LedgerInit
<1>2. IInv /\ IInv' /\ [Next]_vars => [Ledger!Next]_(Ledger!vars)
  BY LedgerStep
<1> QED BY <1>1, <1>2, Invariant, PTL DEF Spec, ImplementsLedger, Ledger!Spec

-----------------------------------------------------------------------------
(* The order of the messages                                                *)

\* The numbers of evaluations on their way from a worker to the job: those in
\* the queue grow, and lie between what the job shows and what was sent.
QueueOrder ==
  /\ \A i \in 1..Len(queue) :
       LET j == queue[i].job IN eval[j] <= queue[i].eval /\ queue[i].eval <= sent[j]
  /\ \A i, k \in 1..Len(queue) :
       i < k /\ queue[i].job = queue[k].job => queue[i].eval <= queue[k].eval

TimerOrder ==
  timer # NoJob =>
    /\ eval[timer.job] <= timer.eval
    /\ timer.eval <= sent[timer.job]
    /\ \A i \in 1..Len(queue) :
         queue[i].job = timer.job => timer.eval <= queue[i].eval

SentOrder ==
  \A j \in Jobs : eval[j] <= sent[j] /\ (worker[j] = "none" => sent[j] = 0)

OrderInv == TypeOK /\ QueueOrder /\ TimerOrder /\ SentOrder

\* The messages are in order before any is sent.
LEMMA OrderInit == Init => OrderInv
  BY TypeInit, BoundsAssumption DEF Init, OrderInv, QueueOrder, TimerOrder, SentOrder

\* A message that is no smaller than the others of its job can join the queue.
LEMMA AppendOrder ==
  ASSUME OrderInv, NEW m \in Messages, queue' = Append(queue, m),
         sent'[m.job] = m.eval, m.eval >= sent[m.job],
         \A j \in Jobs \ {m.job} : sent'[j] = sent[j],
         UNCHANGED <<eval, timer>>
  PROVE  QueueOrder' /\ TimerOrder'
<1> USE DEF OrderInv, TypeOK
<1>1. Len(queue') = Len(queue) + 1 /\ queue'[Len(queue) + 1] = m
      /\ \A i \in 1..Len(queue) : queue'[i] = queue[i] /\ queue[i] \in Messages
  OBVIOUS
<1>2. \A i \in 1..Len(queue) : queue[i].job = m.job => queue[i].eval <= m.eval
  BY <1>1 DEF QueueOrder, Messages
<1>3. m.job \in Jobs /\ eval[m.job] <= m.eval
  BY DEF SentOrder, Messages
<1>0. /\ \A j \in Jobs : eval[j] \in Nat /\ sent[j] \in Nat
                         /\ sent'[j] \in Nat /\ sent[j] <= sent'[j]
      /\ \A n \in Messages : n.job \in Jobs /\ n.eval \in Nat
  <2>1. ASSUME NEW n \in Messages PROVE n.job \in Jobs /\ n.eval \in Nat
    BY BoundsAssumption DEF Messages
  <2>2. ASSUME NEW j \in Jobs PROVE eval[j] \in Nat /\ sent[j] \in Nat
    BY BoundsAssumption
  <2>3. ASSUME NEW j \in Jobs PROVE sent'[j] \in Nat /\ sent[j] <= sent'[j]
    <3>1. CASE j = m.job
      BY <2>1, <2>2, <3>1
    <3>2. CASE j # m.job
      BY <2>2, <3>2
    <3> QED BY <3>1, <3>2
  <2> QED BY <2>1, <2>2, <2>3
<1>4. QueueOrder'
  <2>1. ASSUME NEW i \in 1..Len(queue')
        PROVE  LET j == queue'[i].job
               IN  eval'[j] <= queue'[i].eval /\ queue'[i].eval <= sent'[j]
    <3>1. CASE i \in 1..Len(queue)
      <4>1. queue[i].job \in Jobs /\ queue[i].eval \in Nat
        BY <1>0, <1>1, <3>1
      <4>2. eval[queue[i].job] <= queue[i].eval /\ queue[i].eval <= sent[queue[i].job]
        BY <3>1 DEF QueueOrder
      <4> QED BY <1>0, <1>1, <3>1, <4>1, <4>2
    <3>2. CASE i = Len(queue) + 1
      BY <1>0, <1>1, <1>3, <3>2
    <3> QED BY <1>1, <3>1, <3>2
  <2>2. ASSUME NEW i \in 1..Len(queue'), NEW k \in 1..Len(queue'), i < k,
               queue'[i].job = queue'[k].job
        PROVE  queue'[i].eval <= queue'[k].eval
    <3>1. i \in 1..Len(queue)
      BY <1>1, <2>2
    <3>2. CASE k \in 1..Len(queue)
      BY <1>1, <2>2, <3>1, <3>2 DEF QueueOrder
    <3>3. CASE k = Len(queue) + 1
      BY <1>1, <1>2, <2>2, <3>1, <3>3
    <3> QED BY <1>1, <3>2, <3>3
  <2> QED BY <2>1, <2>2 DEF QueueOrder
<1>5. TimerOrder'
  <2> SUFFICES ASSUME timer # NoJob PROVE TimerOrder'
    BY DEF TimerOrder
  <2>1. timer \in Messages
    OBVIOUS
  <2>2. timer.eval <= sent'[timer.job]
    <3>1. timer.job \in Jobs /\ timer.eval \in Nat /\ timer.eval <= sent[timer.job]
      BY <1>0, <2>1 DEF TimerOrder
    <3>2. sent[timer.job] \in Nat /\ sent'[timer.job] \in Nat
      BY <1>0, <3>1
    <3> QED BY <1>0, <3>1, <3>2
  <2>3. ASSUME NEW i \in 1..Len(queue'), queue'[i].job = timer.job
        PROVE  timer.eval <= queue'[i].eval
    <3>1. CASE i \in 1..Len(queue)
      BY <1>1, <2>3, <3>1 DEF TimerOrder
    <3>2. CASE i = Len(queue) + 1
      BY <1>1, <2>1, <2>2, <2>3, <3>2
    <3> QED BY <1>1, <3>1, <3>2
  <2> QED BY <2>2, <2>3 DEF TimerOrder
<1> QED BY <1>4, <1>5

\* Taking the oldest message keeps the order of the others.
LEMMA TakeOrder ==
  ASSUME OrderInv, TakeMessage
  PROVE  QueueOrder' /\ TimerOrder'
<1> USE DEF OrderInv, TypeOK
<1>1. /\ Len(queue) > 0 /\ Len(queue') = Len(queue) - 1
      /\ \A i \in 1..Len(queue') : queue'[i] = queue[i + 1] /\ i + 1 \in 1..Len(queue)
      /\ UNCHANGED <<eval, sent>>
  BY DEF TakeMessage, jobVars, poolVars
<1>2. QueueOrder'
  <2>1. ASSUME NEW i \in 1..Len(queue')
        PROVE  LET j == queue'[i].job
               IN  eval'[j] <= queue'[i].eval /\ queue'[i].eval <= sent'[j]
    BY <1>1 DEF QueueOrder
  <2>2. ASSUME NEW i \in 1..Len(queue'), NEW k \in 1..Len(queue'), i < k,
               queue'[i].job = queue'[k].job
        PROVE  queue'[i].eval <= queue'[k].eval
    <3>1. i + 1 \in 1..Len(queue) /\ k + 1 \in 1..Len(queue) /\ i + 1 < k + 1
      BY <1>1, <2>2
    <3> QED BY <1>1, <2>2, <3>1 DEF QueueOrder
  <2> QED BY <2>1, <2>2 DEF QueueOrder
<1>3. TimerOrder'
  <2> SUFFICES ASSUME timer' # NoJob PROVE TimerOrder'
    BY DEF TimerOrder
  <2>1. timer' = queue[1] /\ 1 \in 1..Len(queue)
    BY <1>1 DEF TakeMessage
  <2>2. ASSUME NEW i \in 1..Len(queue'), queue'[i].job = timer'.job
        PROVE  timer'.eval <= queue'[i].eval
    <3>1. i + 1 \in 1..Len(queue) /\ 1 < i + 1 /\ queue'[i] = queue[i + 1]
      BY <1>1
    <3> QED BY <2>1, <2>2, <3>1 DEF QueueOrder
  <2>3. eval'[timer'.job] <= timer'.eval /\ timer'.eval <= sent'[timer'.job]
    BY <1>1, <2>1 DEF QueueOrder
  <2> QED BY <2>2, <2>3 DEF TimerOrder
<1> QED BY <1>2, <1>3

\* Applying the message in hand moves the progress up to it, and no further.
LEMMA ApplyOrder ==
  ASSUME OrderInv, ApplyMessage
  PROVE  /\ QueueOrder' /\ SentOrder'
         /\ \A j \in Jobs : eval'[j] >= eval[j]
<1> USE DEF OrderInv, TypeOK
<1>1. /\ timer \in Messages /\ timer.job \in Jobs
      /\ eval' = [eval EXCEPT ![timer.job] = timer.eval]
      /\ UNCHANGED <<queue, sent, worker>>
  BY DEF ApplyMessage, Messages, poolVars
<1>2. \A j \in Jobs : eval[j] \in Nat /\ sent[j] \in Nat
  BY BoundsAssumption
<1>3. timer.eval \in Nat
  BY <1>1, BoundsAssumption DEF Messages
<1>4. \A j \in Jobs : eval'[j] = IF j = timer.job THEN timer.eval ELSE eval[j]
  BY <1>1
<1>5. /\ eval[timer.job] <= timer.eval /\ timer.eval <= sent[timer.job]
      /\ \A i \in 1..Len(queue) : queue[i].job = timer.job => timer.eval <= queue[i].eval
  BY DEF ApplyMessage, TimerOrder
<1>6. ASSUME NEW i \in 1..Len(queue) PROVE queue[i].job \in Jobs
  <2>1. queue[i] \in Messages
    OBVIOUS
  <2> QED BY <2>1 DEF Messages
<1>7. QueueOrder'
  <2>1. ASSUME NEW i \in 1..Len(queue)
        PROVE  LET j == queue[i].job
               IN  eval'[j] <= queue[i].eval /\ queue[i].eval <= sent[j]
    <3>1. eval[queue[i].job] <= queue[i].eval /\ queue[i].eval <= sent[queue[i].job]
      BY DEF QueueOrder
    <3> QED BY <1>4, <1>5, <1>6, <3>1
  <2> QED BY <1>1, <2>1 DEF QueueOrder
<1> QED BY <1>1, <1>2, <1>3, <1>4, <1>5, <1>7 DEF SentOrder

\* Every step keeps the messages of a job in the order of its evaluations.
LEMMA OrderStep == OrderInv /\ [Next]_vars => OrderInv'
<1> SUFFICES ASSUME OrderInv, [Next]_vars
             PROVE  QueueOrder' /\ TimerOrder' /\ SentOrder'
  BY TypeStep DEF OrderInv
<1> DEFINE Same == /\ UNCHANGED <<eval, sent, queue, timer>>
                   /\ \A j \in Jobs : worker'[j] = "none" => worker[j] = "none"
<1>1. ASSUME NEW j \in Jobs, RunJob(j) PROVE QueueOrder' /\ TimerOrder' /\ SentOrder'
  <2>1. [job |-> j, eval |-> 0] \in Messages
    BY BoundsAssumption DEF Messages
  <2>2. sent[j] = 0 /\ UNCHANGED <<sent, eval, timer>>
        /\ queue' = Append(queue, [job |-> j, eval |-> 0])
    BY <1>1 DEF RunJob, OrderInv, SentOrder, jobVars
  <2>3. SentOrder'
    BY <1>1, <2>2 DEF RunJob, OrderInv, TypeOK, SentOrder
  <2> QED BY <2>1, <2>2, <2>3, AppendOrder
<1>2. ASSUME NEW j \in Jobs, ReportProgress(j)
      PROVE  QueueOrder' /\ TimerOrder' /\ SentOrder'
  <2>1. /\ sent[j] \in Nat /\ sent' = [sent EXCEPT ![j] = sent[j] + 1]
        /\ sent'[j] = sent[j] + 1 /\ sent'[j] \in 0..MaxEval
    BY <1>2, BoundsAssumption DEF ReportProgress, OrderInv, TypeOK
  <2>2. /\ UNCHANGED <<eval, timer, worker>> /\ worker[j] = "running"
        /\ queue' = Append(queue, [job |-> j, eval |-> sent'[j]])
    BY <1>2 DEF ReportProgress, jobVars
  <2>3. [job |-> j, eval |-> sent'[j]] \in Messages
    BY <2>1 DEF Messages
  <2>4. \A k \in Jobs \ {j} : sent'[k] = sent[k]
    BY <2>1 DEF OrderInv, TypeOK
  <2>5. eval[j] \in Nat
    BY BoundsAssumption DEF OrderInv, TypeOK
  <2>6. SentOrder'
    BY <2>1, <2>2, <2>4, <2>5 DEF OrderInv, SentOrder
  <2> QED BY <2>1, <2>2, <2>3, <2>4, <2>6, AppendOrder
<1>3. CASE TakeMessage
  BY <1>3, TakeOrder DEF TakeMessage, OrderInv, SentOrder, jobVars, poolVars
<1>4. CASE ApplyMessage
  BY <1>4, ApplyOrder DEF ApplyMessage, TimerOrder
<1>5. ASSUME NEW j \in Jobs, StartJob(j) PROVE Same
  BY <1>5 DEF StartJob
<1>6. ASSUME NEW j \in Jobs, CancelJob(j) PROVE Same
  BY <1>6 DEF CancelJob, jobVars, poolVars
<1>7. CASE Handler
  <2> USE DEF jobVars, poolVars
  <2>1. ASSUME AttachCallback PROVE Same
    BY <2>1 DEF AttachCallback
  <2>2. ASSUME AttachedCallbackOver PROVE Same
    BY <2>2 DEF AttachedCallbackOver
  <2>3. ASSUME RecordTraining PROVE Same
    BY <2>3 DEF RecordTraining
  <2>4. ASSUME RecordBackground PROVE Same
    BY <2>4 DEF RecordBackground
  <2>5. ASSUME ReturnResult PROVE Same
    BY <2>5 DEF ReturnResult
  <2>6. ASSUME MarkCanceling PROVE Same
    BY <2>6 DEF MarkCanceling
  <2>7. ASSUME CancelFuture PROVE Same
    BY <2>7 DEF CancelFuture
  <2>8. ASSUME CanceledCallbackOver PROVE Same
    BY <2>8 DEF CanceledCallbackOver
  <2>9. Same
    BY <1>7, <2>1, <2>2, <2>3, <2>4, <2>5, <2>6, <2>7, <2>8 DEF Handler
  <2> QED BY <2>9 DEF OrderInv, QueueOrder, TimerOrder, SentOrder
<1>8. ASSUME NEW j \in Jobs, NEW f \in {"finished", "error"}, FinishJob(j, f)
      PROVE  Same
  BY <1>8 DEF FinishJob, jobVars, OrderInv, TypeOK
<1>9. ASSUME NEW j \in Jobs, KillWorker(j) PROVE Same
  BY <1>9 DEF KillWorker, jobVars, OrderInv, TypeOK
<1>10. ASSUME NEW j \in Jobs, AnswerCallback(j) PROVE Same
  BY <1>10 DEF AnswerCallback
<1>11. ASSUME NEW j \in Jobs, StateCallback(j) PROVE Same
  BY <1>11 DEF StateCallback
<1>12. ASSUME NEW expired \in SUBSET Jobs, ClearJobs(expired) PROVE Same
  BY <1>12 DEF ClearJobs, poolVars
<1>13. CASE UNCHANGED vars
  BY <1>13 DEF vars, OrderInv, QueueOrder, TimerOrder, SentOrder
<1>14. Same => QueueOrder' /\ TimerOrder' /\ SentOrder'
  BY DEF OrderInv, QueueOrder, TimerOrder, SentOrder
<1> QED
  BY <1>1, <1>2, <1>3, <1>4, <1>5, <1>6, <1>7, <1>8, <1>9, <1>10, <1>11, <1>12,
     <1>13, <1>14
  DEF Next, Request, Pool, Timer

\* The progress a user polls never goes back, because messages keep the order
\* of each worker all the way from the worker to the job.
THEOREM ProgressNeverGoesBack == Spec => ProgressMonotone
<1>1. OrderInv /\ [Next]_vars => [\A j \in Jobs : eval'[j] >= eval[j]]_vars
  <2> SUFFICES ASSUME OrderInv, [Next]_vars, ~ UNCHANGED vars
               PROVE  \A j \in Jobs : eval'[j] >= eval[j]
    OBVIOUS
  <2>1. CASE ApplyMessage
    BY <2>1, ApplyOrder
  <2>2. CASE ~ApplyMessage
    <3>1. UNCHANGED eval
      BY <2>2 DEF Next, Request, Handler, Pool, Timer, StartJob, CancelJob,
         AttachCallback, AttachedCallbackOver, RecordTraining, RecordBackground,
         ReturnResult, MarkCanceling, CancelFuture, CanceledCallbackOver, RunJob,
         FinishJob, KillWorker, AnswerCallback, StateCallback, ReportProgress,
         TakeMessage, ClearJobs, jobVars, vars
    <3>2. \A j \in Jobs : eval[j] \in Nat
      BY BoundsAssumption DEF OrderInv, TypeOK
    <3> QED BY <3>1, <3>2
  <2> QED BY <2>1, <2>2
<1> QED BY <1>1, OrderInit, OrderStep, PTL DEF Spec, ProgressMonotone
=============================================================================
