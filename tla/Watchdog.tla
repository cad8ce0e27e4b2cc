------------------------------ MODULE Watchdog ------------------------------
(***************************************************************************)
(* The monitoring watchdog (monitoring.py): one pass asks Prometheus and   *)
(* Alertmanager every configured question, files what failed, closes the   *)
(* issues of what did not, and announces the verdict.  The world it looks  *)
(* at, and the people who edit the tracker, go on changing while it runs.  *)
(*                                                                         *)
(* A finding is a pair <<check, subject>>.  Its issue is found through the *)
(* normaliser, which may render two subjects alike ("svc-1" and "svc-2").  *)
(* The lists of targets, metrics and findings are walked in any order: the *)
(* code's order is that of the host's settings.                            *)
(*                                                                         *)
(* A definition that stands before its original and differs from it in one *)
(* detail (RecordedQuietly, Recorded) is a plausible bug of that code:     *)
(* nothing in Next uses it, and a property is broken when it is put in the *)
(* place of the original.                                                  *)
(***************************************************************************)
EXTENDS Integers, FiniteSets

CONSTANTS
  Targets,          \* scrape targets the host may configure
  Metrics,          \* METRICS
  Heartbeats,       \* HEARTBEAT_ALERT: one name or none
  Silences,         \* matcher keys an operator may silence
  Normal,           \* Normal[s]: the subject as normalise_line renders it
  HasAlertmanager,  \* ALERTMANAGER_URL is set
  Owner,            \* resolve_mode() = "owner"
  PrometheusFails,  \* Prometheus may stop answering
  MaxChanges        \* bound on changes of the world and edits by people

Prometheus == "prometheus"
Alertmanager == "alertmanager"
Subjects == Targets \cup Metrics \cup Heartbeats \cup Silences
            \cup {Prometheus, Alertmanager}

ASSUME WatchdogAssumption ==
  /\ Normal \in [Subjects -> Subjects]
  /\ HasAlertmanager \in BOOLEAN /\ Owner \in BOOLEAN /\ PrometheusFails \in BOOLEAN
  /\ MaxChanges \in Nat

Unreachable == <<"prometheus_unreachable", Prometheus>>
Down(t) == <<"exporter_down", t>>
Missing(t) == <<"scrape_missing", t>>
Absent(m) == <<"metric_absent", m>>
NoBeat(h) == <<"heartbeat_missing", h>>
AmUnreachable == <<"alertmanager_unreachable", Alertmanager>>
Silenced(s) == <<"alertmanager_silenced", s>>

Findings ==
  {Unreachable, AmUnreachable}
  \cup {Down(t) : t \in Targets} \cup {Missing(t) : t \in Targets}
  \cup {Absent(m) : m \in Metrics} \cup {NoBeat(h) : h \in Heartbeats}
  \cup {Silenced(s) : s \in Silences}

\* fingerprint_of: the key of the issue a finding is filed under.
KeyOf(f) == <<f[1], Normal[f[2]]>>
Keys == {KeyOf(f) : f \in Findings}

VARIABLES
  world,    \* what is true out there; absent: the metrics and alerts not reported
  targets,  \* TARGETS as configured now
  issues,   \* the tracker: status per print, "none" before the first event
  run,      \* the pass in progress
  changes

vars == <<world, targets, issues, run, changes>>

Statuses == {"none", "new", "fixed", "regressed", "muted"}
Open == {"new", "regressed"}

-----------------------------------------------------------------------------
(* The questions                                                           *)

\* Questions are named by what they would find wrong; a target is one query.
Questions == {Down(t) : t \in targets} \cup {Absent(m) : m \in Metrics}
             \cup {NoBeat(h) : h \in Heartbeats}

\* What the query of q, once answered, finds wrong.
Wrong(q) ==
  CASE q[1] = "exporter_down" ->
         {f \in {Down(q[2])} : world.scrape[q[2]] = "down"}
         \cup {f \in {Missing(q[2])} : world.scrape[q[2]] = "missing"}
    [] q[1] \in {"metric_absent", "heartbeat_missing"} ->
         {f \in {q} : q[2] \in world.absent}

\* What the answer to q decides, one way or the other.
Decides(q) == IF q[1] = "exporter_down" THEN {q, Missing(q[2])} ELSE {q}

ExpectedOfOldTargets ==
  {Unreachable}
  \cup {Down(t) : t \in Targets} \cup {Missing(t) : t \in Targets}
  \cup {Absent(m) : m \in Metrics} \cup {NoBeat(h) : h \in Heartbeats}
  \cup {f \in {AmUnreachable} : HasAlertmanager}

ExpectedPresence ==
  {Unreachable}
  \cup {Down(t) : t \in targets}
  \cup {Absent(m) : m \in Metrics} \cup {NoBeat(h) : h \in Heartbeats}
  \cup {f \in {AmUnreachable} : HasAlertmanager}

\* expected_checks: every finding the configuration can produce, less the
\* silences, whose subjects no setting lists.
Expected ==
  {Unreachable}
  \cup {Down(t) : t \in targets} \cup {Missing(t) : t \in targets}
  \cup {Absent(m) : m \in Metrics} \cup {NoBeat(h) : h \in Heartbeats}
  \cup {f \in {AmUnreachable} : HasAlertmanager}

-----------------------------------------------------------------------------
(* One pass                                                                *)

\* todo: what the current phase still has to do.  open: the finding whose issue
\* is being closed.  found: the findings of the pass.  asked, saw: history, the
\* findings this pass got an answer about and those it saw to be failing.
Resting == [at |-> "resting", todo |-> {}, open |-> {}, found |-> {},
            asked |-> {}, saw |-> {}]

Begin ==
  /\ run.at = "resting"
  /\ run' = [Resting EXCEPT !.at = "prometheus", !.todo = Questions]
  /\ UNCHANGED <<world, targets, issues, changes>>

Ask ==
  /\ run.at = "prometheus"
  /\ world.prometheus
  /\ \E q \in run.todo :
       run' = [run EXCEPT !.todo = @ \ {q},
                          !.found = @ \cup Wrong(q),
                          !.saw = @ \cup Wrong(q),
                          !.asked = @ \cup Decides(q) \cup {Unreachable}]
  /\ UNCHANGED <<world, targets, issues, changes>>

\* One query unanswered: whatever the others said is replaced by one finding.
AskUnanswered ==
  /\ run.at = "prometheus"
  /\ run.todo # {}
  /\ ~ world.prometheus
  /\ run' = [run EXCEPT !.at = "alertmanager", !.todo = {},
                        !.found = {Unreachable},
                        !.saw = @ \cup {Unreachable},
                        !.asked = @ \cup {Unreachable}]
  /\ UNCHANGED <<world, targets, issues, changes>>

AskedAll ==
  /\ run.at = "prometheus"
  /\ run.todo = {}
  /\ run' = [run EXCEPT !.at = "alertmanager"]
  /\ UNCHANGED <<world, targets, issues, changes>>

AskAlertmanager ==
  LET wrong == IF ~ HasAlertmanager THEN {}
               ELSE IF world.alertmanager THEN {Silenced(s) : s \in world.silenced}
               ELSE {AmUnreachable}
      about == IF ~ HasAlertmanager THEN {}
               ELSE {AmUnreachable} \cup {Silenced(s) : s \in {x \in Silences :
                                                               world.alertmanager}}
  IN  /\ run.at = "alertmanager"
      /\ run' = [run EXCEPT !.at = "report", !.todo = run.found \cup wrong,
                            !.found = @ \cup wrong,
                            !.saw = @ \cup wrong,
                            !.asked = @ \cup about]
      /\ UNCHANGED <<world, targets, issues, changes>>

RecordedQuietly(status) == IF status = "none" THEN "new" ELSE status

\* What services.record does to the status of the issue.
Recorded(status) == CASE status = "none" -> "new"
                      [] status = "fixed" -> "regressed"
                      [] OTHER -> status

Report ==
  /\ run.at = "report"
  /\ \E f \in run.todo :
       /\ issues' = [issues EXCEPT ![KeyOf(f)] = Recorded(@)]
       /\ run' = [run EXCEPT !.todo = @ \ {f}]
  /\ UNCHANGED <<world, targets, changes>>

ReportedAsRecovered ==
  /\ run.at = "report"
  /\ run.todo = {}
  /\ run' = [run EXCEPT !.at = "close", !.todo = IF Owner THEN Expected ELSE {}]
  /\ UNCHANGED <<world, targets, issues, changes>>

\* Only the owner has a store to close anything in.
Reported ==
  /\ run.at = "report"
  /\ run.todo = {}
  /\ run' = [run EXCEPT !.at = "close",
                        !.todo = IF Owner THEN Expected \ run.found ELSE {}]
  /\ UNCHANGED <<world, targets, issues, changes>>

\* close_recovered reads the issue of an expected finding that did not fire...
LookUp ==
  /\ run.at = "close"
  /\ run.open = {}
  /\ \E f \in run.todo :
       run' = [run EXCEPT !.todo = @ \ {f},
                          !.open = {x \in {f} : issues[KeyOf(x)] \in Open}]
  /\ UNCHANGED <<world, targets, issues, changes>>

\* ... and, if it was open, marks it fixed whatever it has become since.
Close ==
  /\ run.at = "close"
  /\ \E f \in run.open : issues' = [issues EXCEPT ![KeyOf(f)] = "fixed"]
  /\ run' = [run EXCEPT !.open = {}]
  /\ UNCHANGED <<world, targets, changes>>

\* announce() sends a message and the pass is over.
Announce ==
  /\ run.at = "close"
  /\ run.todo = {} /\ run.open = {}
  /\ run' = Resting
  /\ UNCHANGED <<world, targets, issues, changes>>

-----------------------------------------------------------------------------
(* Around it                                                               *)

Changing == changes < MaxChanges /\ changes' = changes + 1

ScrapeChanges ==
  /\ Changing
  /\ \E t \in Targets, s \in {"up", "down", "missing"} :
       world' = [world EXCEPT !.scrape[t] = s]
  /\ UNCHANGED <<targets, issues, run>>

Toggled(S, x) == IF x \in S THEN S \ {x} ELSE S \cup {x}

SeriesChange ==
  /\ Changing
  /\ \/ \E x \in Metrics \cup Heartbeats : world' = [world EXCEPT !.absent = Toggled(@, x)]
     \/ \E s \in Silences : world' = [world EXCEPT !.silenced = Toggled(@, s)]
  /\ UNCHANGED <<targets, issues, run>>

ServersChange ==
  /\ Changing
  /\ \/ PrometheusFails /\ world' = [world EXCEPT !.prometheus = ~ @]
     \/ HasAlertmanager /\ world' = [world EXCEPT !.alertmanager = ~ @]
  /\ UNCHANGED <<targets, issues, run>>

PersonEdits ==
  /\ Changing
  /\ \E p \in Keys, s \in {"new", "fixed", "muted"} :
       /\ issues[p] \notin {"none", s}
       /\ issues' = [issues EXCEPT ![p] = s]
  /\ UNCHANGED <<world, targets, run>>

\* A redeploy with other TARGETS, or a crash: the pass in progress is gone.
Redeploy ==
  /\ Changing
  /\ \E T \in SUBSET Targets : targets' = T
  /\ run' = Resting
  /\ UNCHANGED <<world, issues>>

-----------------------------------------------------------------------------

Healthy == [scrape |-> [t \in Targets |-> "up"], absent |-> {},
            silenced |-> {}, prometheus |-> TRUE, alertmanager |-> TRUE]

Init ==
  /\ world = Healthy
  /\ targets = Targets
  /\ issues = [p \in Keys |-> "none"]
  /\ run = Resting
  /\ changes = 0

Pass ==
  \/ Begin \/ Ask \/ AskUnanswered \/ AskedAll \/ AskAlertmanager
  \/ Report \/ Reported \/ LookUp \/ Close \/ Announce

Next ==
  \/ Pass
  \/ ScrapeChanges \/ SeriesChange \/ ServersChange \/ PersonEdits \/ Redeploy

Spec == Init /\ [][Next]_vars

\* The beat schedule starts a pass again and again, and every query and every
\* request of a pass has a timeout.
FairSpec == Spec /\ WF_vars(Pass)

-----------------------------------------------------------------------------
(* Properties                                                              *)

Phases == {"resting", "prometheus", "alertmanager", "report", "close"}

\* Every variable holds what it may hold.
TypeOK ==
  /\ world \in [scrape: [Targets -> {"up", "down", "missing"}],
                absent: SUBSET (Metrics \cup Heartbeats),
                silenced: SUBSET Silences,
                prometheus: BOOLEAN, alertmanager: BOOLEAN]
  /\ targets \subseteq Targets
  /\ issues \in [Keys -> Statuses]
  /\ run \in [at: Phases, todo: SUBSET Findings, open: SUBSET Findings,
              found: SUBSET Findings, asked: SUBSET Findings, saw: SUBSET Findings]
  /\ changes \in 0 .. MaxChanges

\* The pass closes the issue filed under k in this step.
Closes(k) == /\ run.at = "close" /\ run' # run
             /\ issues[k] # "fixed" /\ issues'[k] = "fixed"

\* "Recovery only closes checks the run actually asked": the query behind
\* some finding filed under the closed issue was answered in this pass.
ClosesOnlyWhatWasAsked ==
  [][\A k \in Keys : Closes(k) => \E f \in run.asked : KeyOf(f) = k]_vars

\* Of a pass that Prometheus answered to its end, whatever was redeployed or
\* edited before it and during it.
AnsweredPassClosesWhatWasAsked ==
  [][\A k \in Keys : Closes(k) /\ Unreachable \notin run.found =>
                        \E f \in run.asked : KeyOf(f) = k]_vars

\* Where a pass that Prometheus answered closes an issue whose failure it saw, that
\* is for another subject that the normaliser renders alike: one it asked about too,
\* and found to be fine.
ClosesWhatItSawForAnother ==
  [][\A k \in Keys : Closes(k) /\ Unreachable \notin run.found =>
       \A f \in run.saw : KeyOf(f) = k =>
         \E g \in run.asked \ run.saw : KeyOf(g) = k]_vars

\* An issue is one check and one target: it is not closed as recovered by a pass
\* that saw the check fail.
NeverClosesWhatItSaw ==
  [][\A k \in Keys : Closes(k) /\ Unreachable \notin run.found =>
                        ~ \E f \in run.saw : KeyOf(f) = k]_vars

\* A target is recovered when it is seen up, not when its series is gone:
\* "that is strictly worse" than being down.
RecoveryIsSeen ==
  [][\A t \in Targets : Closes(KeyOf(Down(t))) => Missing(t) \notin run.saw]_vars

Fine(f) ==
  CASE f[1] = "exporter_down" -> world.scrape[f[2]] # "down"
    [] f[1] = "scrape_missing" -> world.scrape[f[2]] # "missing"
    [] f[1] \in {"metric_absent", "heartbeat_missing"} -> f[2] \notin world.absent
    [] f[1] = "alertmanager_silenced" -> f[2] \notin world.silenced
    [] f[1] = "alertmanager_unreachable" -> world.alertmanager
    [] f[1] = "prometheus_unreachable" -> world.prometheus

Visible(f) ==
  CASE f[1] \in {"exporter_down", "scrape_missing"} -> f[2] \in targets /\ world.prometheus
    [] f[1] \in {"metric_absent", "heartbeat_missing"} -> world.prometheus
    [] f[1] = "alertmanager_silenced" -> world.alertmanager
    [] OTHER -> TRUE

\* "A check that stops failing closes its issue": no issue of a check that is
\* fine for good stays open for good.
RecoveryCloses ==
  \A f \in Findings : <>[](Fine(f) /\ Visible(f)) => []<>(issues[KeyOf(f)] \notin Open)

\* The same of the checks that expected_checks lists.
ExpectedRecoveryCloses ==
  \A f \in Findings \ {Silenced(s) : s \in Silences} :
    <>[](Fine(f) /\ Visible(f)) => []<>(issues[KeyOf(f)] \notin Open)

\* A blind spot that lasts is in the tracker, open or knowingly muted.
BlindSpotIsFiled ==
  \A f \in Findings :
    <>[](~ Fine(f) /\ Visible(f)) => []<>(issues[KeyOf(f)] \in Open \cup {"muted"})

=============================================================================
