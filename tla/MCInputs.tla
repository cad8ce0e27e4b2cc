------------------------------ MODULE MCInputs ------------------------------
(***************************************************************************)
(* A small process for TLC: two interchangeable threads, with every switch *)
(* of the inputs on, or every one off.                                     *)
(***************************************************************************)
EXTENDS Inputs, TLC

CONSTANTS f1, t1, t2

AllOn == [CAPTURE_5XX |-> TRUE, CAPTURE_CELERY |-> TRUE, CAPTURE_DLQ |-> TRUE]
AllOff == [CAPTURE_5XX |-> FALSE, CAPTURE_CELERY |-> FALSE, CAPTURE_DLQ |-> FALSE]
OnOrOff == {AllOn, AllOff}

SameThreads == Permutations(Threads)

=============================================================================
