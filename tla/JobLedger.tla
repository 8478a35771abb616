------------------------------ MODULE JobLedger ------------------------------
(***************************************************************************)
(* What the job API of the server promises of every job, whatever threads  *)
(* and processes it takes: a submitted job gets one outcome, once; its     *)
(* answer (the result or the error) is there from then on; and the server  *)
(* forgets a job only after its answer was there to read.                  *)
(***************************************************************************)
CONSTANT Jobs

VARIABLES phase, outcome
vars == <<phase, outcome>>

Outcomes == {"finished", "error", "cancelled"}
Phases == {"absent", "live", "over", "answered", "forgotten"}

Init == /\ phase = [j \in Jobs |-> "absent"]
        /\ outcome = [j \in Jobs |-> "none"]

Submit(j) ==
  /\ phase[j] = "absent"
  /\ phase' = [phase EXCEPT ![j] = "live"]
  /\ UNCHANGED outcome

Settle(j) ==
  /\ phase[j] = "live"
  /\ phase' = [phase EXCEPT ![j] = "over"]
  /\ \E o \in Outcomes : outcome' = [outcome EXCEPT ![j] = o]

Answer(j) ==
  /\ phase[j] = "over"
  /\ phase' = [phase EXCEPT ![j] = "answered"]
  /\ UNCHANGED outcome

Forget(old) ==
  /\ \A j \in old : phase[j] = "answered"
  /\ phase' = [j \in Jobs |-> IF j \in old THEN "forgotten" ELSE phase[j]]
  /\ UNCHANGED outcome

Next == \/ \E j \in Jobs : Submit(j) \/ Settle(j) \/ Answer(j)
        \/ \E old \in SUBSET Jobs : Forget(old)

Spec == Init /\ [][Next]_vars

\* A live job settles and a settled one is answered.
FairSpec == Spec /\ \A j \in Jobs : WF_vars(Settle(j)) /\ WF_vars(Answer(j))
=============================================================================
