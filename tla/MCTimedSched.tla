---------------------------- MODULE MCTimedSched ----------------------------
(* Small instances of TimedSched. *)
EXTENDS TimedSched, TLC

CONSTANTS w1, w2, t1, t2
TwoWorkers == {w1, w2}
TwoTasks == {t1, t2}
\* Up to renaming the tasks: both due at 1, or one before the other.
SoonAndLate == (t1 :> {0, 1}) @@ (t2 :> {1})
=============================================================================
