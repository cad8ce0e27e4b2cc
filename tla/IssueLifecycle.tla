--------------------------- MODULE IssueLifecycle ---------------------------
(***************************************************************************)
(* What the tracker promises about an issue, whatever it does inside:      *)
(*   - it is opened by an occurrence and then counts every one of them;    *)
(*   - a closed issue comes back only on evidence, as a regression, or     *)
(*     because somebody reopens it;                                        *)
(*   - an open issue is never forgotten.                                   *)
(* The docstrings of services.py, models.IssueStatus and alerts_sweep say  *)
(* so; AlertStore is what the code does.                                   *)
(***************************************************************************)
EXTENDS Integers

CONSTANTS Issues, Sizes   \* Sizes: occurrences one event may stand for

VARIABLES state, count

promise == <<state, count>>

States == {"absent", "new", "fixed", "regressed", "muted"}

Init ==
  /\ state = [i \in Issues |-> "absent"]
  /\ count = [i \in Issues |-> 0]

Counted(i) == \E n \in Sizes : count' = [count EXCEPT ![i] = @ + n]

Become(i, s) == state' = [state EXCEPT ![i] = s]

Appear(i) == state[i] = "absent" /\ Become(i, "new") /\ Counted(i)

Recur(i) == state[i] \in {"new", "regressed"} /\ UNCHANGED state /\ Counted(i)

Regress(i) == state[i] = "fixed" /\ Become(i, "regressed") /\ Counted(i)

\* An event on a muted issue: quiet, or the end of an expired mute.
Disturb(i) ==
  /\ state[i] = "muted"
  /\ Become(i, "muted") \/ Become(i, "new")
  /\ Counted(i)

\* A person, CI or the watchdog closes, mutes or reopens.
Decide(i) ==
  /\ state[i] # "absent"
  /\ \E s \in {"new", "fixed", "muted"} : Become(i, s)
  /\ UNCHANGED count

Forget(S) ==
  /\ \A i \in S : state[i] \in {"fixed", "muted"}
  /\ state' = [i \in Issues |-> IF i \in S THEN "absent" ELSE state[i]]
  /\ count' = [i \in Issues |-> IF i \in S THEN 0 ELSE count[i]]

Next ==
  \/ \E i \in Issues : \/ Appear(i) \/ Recur(i) \/ Regress(i)
                       \/ Disturb(i) \/ Decide(i)
  \/ \E S \in SUBSET Issues : Forget(S)

Spec == Init /\ [][Next]_promise

=============================================================================
