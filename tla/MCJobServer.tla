----------------------------- MODULE MCJobServer -----------------------------
(* Small instances of JobServer for TLC: one worker per pool, the default of *)
(* the server, and jobs that compete for it.                                 *)
EXTENDS JobServer

CONSTANTS m1

\* Every training job trains the one model.
MCTarget == [j \in Training |-> m1]
=============================================================================
