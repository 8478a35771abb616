--------------------------- MODULE MCPeriodicEval ---------------------------
(***************************************************************************)
(* Instances of PeriodicEval: a long evaluation, short ones that follow    *)
(* each other, or two whose ranges overlap, as those that users ask for.   *)
(***************************************************************************)
EXTENDS PeriodicEval

MCLong == {<<1, 5>>}
MCPeriodic == {<<1, 2>>, <<3, 4>>}
MCOverlapping == {<<1, 4>>, <<3, 4>>}
=============================================================================
