---------------------------- MODULE MCAlertStore ----------------------------
(***************************************************************************)
(* Small trackers for TLC: two traces that group with one another, two     *)
(* levels kept for different times.                                        *)
(***************************************************************************)
EXTENDS AlertStore, TLC

CONSTANTS t1, t2, w1, w2, user

\* Grouped: t1 and t2 are one bug seen through two traces.
Alike == [t \in Traces |-> [u \in Traces |-> IF t = u THEN 2 ELSE 1]]

\* The warning is kept no tick, the error one.
EarlyRetention == [l \in Levels |-> l]
NoDays == [l \in Levels |-> 0]

\* Workers are interchangeable in the runs of safety.
SameWorkers == Permutations(Workers)

=============================================================================
