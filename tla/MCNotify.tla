------------------------------ MODULE MCNotify ------------------------------
(***************************************************************************)
(* Short days for TLC: the configurations give every constant its value.   *)
(* Nothing tells one worker from another but its name.                     *)
(***************************************************************************)
EXTENDS Notify, TLC

Symmetric == Permutations(Workers)

=============================================================================
