------------------------------ MODULE MCReporter ------------------------------
(***************************************************************************)
(* A small reporter for TLC: two interchangeable threads, the capture of   *)
(* 5xx switched on alone, and no fallback channel.                         *)
(***************************************************************************)
EXTENDS Reporter, TLC

CONSTANTS a, b, f1, t1, t2

WebOnly == {[CAPTURE_5XX |-> TRUE, CAPTURE_CELERY |-> FALSE, CAPTURE_DLQ |-> FALSE]}

NoChannel == {[notify |-> "none", token |-> FALSE, chat |-> FALSE, topic |-> FALSE]}
NoneFail == {[library |-> "unthreaded", provider |-> TRUE, api |-> TRUE, seam |-> TRUE]}

SameThreads == Permutations(Threads)

=============================================================================
