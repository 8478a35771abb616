----------------------------- MODULE MCScheduler -----------------------------
(* Instances of Scheduler for TLC: an event that is due at every second and   *)
(* one at every other second, with metrics as slow as the latter, so that each *)
(* of the three may be due while another one waits for its answer.             *)
EXTENDS Scheduler, TLC

CONSTANTS quick, slow

MCPeriod == quick :> 1 @@ slow :> 2 @@ Hourly :> 2
=============================================================================
