----------------------------- MODULE BucketState -----------------------------
(***************************************************************************)
(* The bucket that the jobs of BucketRead and DonutSeries work on: its     *)
(* adapter, what its database holds, and what a row of it stands for.      *)
(***************************************************************************)
EXTENDS TimesData

CONSTANT Stores  (* the adapters looked at                                  *)

ASSUME StoresAssumption == Stores \subseteq Adapters

VARIABLES
  adapter,    (* the type of the bucket                                     *)
  points      (* what its database holds                                    *)

\* The adapters whose rows are buckets of a grid.
Gridded == Adapters \ {"prometheus"}

\* The points that the row of the bucket t stands for, stated without the
\* adapters: [t, t + Interval[, but the buckets of Warp10 are open on the left.
InRowOf(t) ==
  IF adapter = "warp10"
  THEN {p \in points : t < p[2] /\ p[2] <= t + Interval}
  ELSE Bin(points, t)
=============================================================================
