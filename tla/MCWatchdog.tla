----------------------------- MODULE MCWatchdog -----------------------------
(***************************************************************************)
(* Small fleets for TLC, with targets the normaliser tells apart or not.   *)
(***************************************************************************)
EXTENDS Watchdog

CONSTANTS svc1, svc2, metric, beat, silence

Distinct == [s \in Subjects |-> s]

\* normalise_line renders svc-1 and svc-2 alike.
Folded == [s \in Subjects |-> IF s = svc2 THEN svc1 ELSE s]

=============================================================================
