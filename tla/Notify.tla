------------------------------- MODULE Notify -------------------------------
(***************************************************************************)
(* Who gets told (notify.py): the hook that runs after the commit of an    *)
(* occurrence decides, from the issue as record() left it in memory and    *)
(* from the event rows that are still kept, whether to send a message.     *)
(*                                                                         *)
(* One issue of the owner's store.  A worker that records an occurrence    *)
(* reads the issue's row in one step and commits in a later one, where it  *)
(* saves the whole row over what others committed in between, as in        *)
(* AlertStore; an edit saves the status and the deadline of a mute only.   *)
(* The hooks run later, in any order and beside the edits of people.  A    *)
(* tick is 1 / Hour of an hour, and an hour's window ends with the tick    *)
(* the hook runs in.                                                       *)
(*                                                                         *)
(* A definition that stands before its original and differs from it in one *)
(* detail (CappedToOldest, Capped) is a plausible bug of that code:        *)
(* nothing in Next uses it, and a property is broken when it is put in the *)
(* place of the original.                                                  *)
(***************************************************************************)
EXTENDS Integers, FiniteSets

CONSTANTS
  Workers,        \* processes that record one occurrence at a time
  Occurrences,    \* values of `occurrences` a report may carry
  Keep,           \* EVENTS_PER_ISSUE
  Hour,           \* ticks per hour
  Day,            \* hours per day
  Factor,         \* SPIKE_FACTOR
  Minimum,        \* SPIKE_MIN_COUNT
  Levels,         \* severities that occur
  Floor,          \* NOTIFY_MIN_LEVEL
  Fatal,          \* the severity that quiet hours do not silence
  QuietStart, QuietEnd,           \* QUIET_HOURS; equal: none
  OnNew, OnRegression, OnSpike,   \* NOTIFY_ON_...
  MaxTime,        \* bound on the clock
  MaxReports,     \* bound on the calls of record()
  MaxEdits,       \* bound on fixes, mutes and reopenings
  NoIssue, NoTime, Idle

ASSUME NotifyAssumption ==
  /\ Occurrences \subseteq Nat \ {0} /\ Keep \in Nat
  /\ Hour \in Nat \ {0} /\ Day \in Nat \ {0}
  /\ Factor \in Nat /\ Minimum \in Nat \ {0}
  /\ Levels \subseteq Nat /\ Floor \in Nat /\ Fatal \in Nat
  /\ QuietStart \in 0 .. Day - 1 /\ QuietEnd \in 0 .. Day - 1
  /\ {OnNew, OnRegression, OnSpike} \subseteq BOOLEAN
  /\ MaxTime \in Nat /\ MaxReports \in Nat /\ MaxEdits \in Nat
  /\ NoTime \notin Nat

VARIABLES
  now,
  issue,      \* the issue's row, or NoIssue
  rows,       \* its event rows
  txn,        \* the call of record() each worker is in the middle of, or Idle
  hooks,      \* hooks of committed occurrences that have not run
  told,       \* history: the messages sent, by occurrence and reason
  truth,      \* history: every occurrence committed, kept or not
  spent,      \* reports begun and edits so far
  past        \* history: fixes, and the last report begun before the mute

vars == <<now, issue, rows, txn, hooks, told, truth, spent, past>>

Statuses == {"new", "fixed", "regressed", "muted"}
Issue == [status: Statuses, level: Levels, mutedUntil: Nat \cup {NoTime}]

\* A call of record(): when it began and the row it read.
Call == [id: Nat, at: Nat, row: Issue \cup {NoIssue}]

ASSUME IssueAssumption == NoIssue \notin Issue /\ Idle \notin Call

\* Issue.is_muted_now at time t.
MutedAt(row, t) ==
  /\ row.status = "muted"
  /\ IF row.mutedUntil = NoTime THEN TRUE ELSE t < row.mutedUntil

-----------------------------------------------------------------------------
(* An occurrence is recorded                                               *)

\* What an occurrence makes of a status that is not an expired mute.
Returned(status) == IF status = "fixed" THEN "regressed" ELSE status

Worst(a, b) == IF a > b THEN a ELSE b

\* The row a call leaves of the one it read, at the time it began.
Joined(c, l) ==
  LET expired == c.row.status = "muted" /\ ~ MutedAt(c.row, c.at)
  IN  [status |-> IF expired THEN "new" ELSE Returned(c.row.status),
       level |-> Worst(c.row.level, l),
       mutedUntil |-> IF expired THEN NoTime ELSE c.row.mutedUntil]

Opened(l) == [status |-> "new", level |-> l, mutedUntil |-> NoTime]

CappedToOldest(S) ==
  IF Keep = 0 \/ Cardinality(S) <= Keep
    THEN {S}
    ELSE {K \in SUBSET S : /\ Cardinality(K) = Keep
                           /\ \A x \in K, y \in S \ K : x.at <= y.at}

\* _cap_events: the newest rows by received_at, ties either way.
Capped(S) ==
  IF Keep = 0 \/ Cardinality(S) <= Keep
    THEN {S}
    ELSE {K \in SUBSET S : /\ Cardinality(K) = Keep
                           /\ \A x \in K, y \in S \ K : x.at >= y.at}

\* record() up to find_issue.
RecordRead(w) ==
  /\ txn[w] = Idle
  /\ spent.reports < MaxReports
  /\ spent' = [spent EXCEPT !.reports = @ + 1]
  /\ txn' = [txn EXCEPT ![w] = [id |-> spent.reports + 1, at |-> now, row |-> issue]]
  /\ UNCHANGED <<now, issue, rows, hooks, told, truth, past>>

\* A save puts the issue under a mute that was not on its row.
Mutes(row) ==
  row.status = "muted" /\ <<row.status, row.mutedUntil>> # <<issue.status, issue.mutedUntil>>

\* The rest of record(), to the commit.
RecordWrite(w) ==
  /\ txn[w] # Idle
  /\ txn[w].row = NoIssue => issue = NoIssue
  /\ \E n \in Occurrences, l \in Levels :
       LET row == IF txn[w].row = NoIssue THEN Opened(l) ELSE Joined(txn[w], l)
           event == [id |-> txn[w].id, at |-> txn[w].at, n |-> n]
       IN  /\ issue' = row
           /\ rows' \in Capped(rows \cup {event})
           /\ truth' = truth \cup {event}
           /\ hooks' = hooks \cup
                {[id |-> txn[w].id, by |-> w, issue |-> row,
                  created |-> txn[w].row = NoIssue,
                  regressed |-> txn[w].row # NoIssue /\ txn[w].row.status = "fixed"]}
           /\ past' = IF Mutes(row) THEN [past EXCEPT !.mutedAfter = spent.reports]
                                    ELSE past
  /\ txn' = [txn EXCEPT ![w] = Idle]
  /\ UNCHANGED <<now, told, spent>>

\* The INSERT of an issue that another worker opened since: the unique
\* fingerprint refuses it, and the occurrence is lost.
RecordRaise(w) ==
  /\ txn[w] # Idle
  /\ txn[w].row = NoIssue /\ issue # NoIssue
  /\ txn' = [txn EXCEPT ![w] = Idle]
  /\ UNCHANGED <<now, issue, rows, hooks, told, truth, spent, past>>

-----------------------------------------------------------------------------
(* The hook                                                                *)

\* Events of S in the hour that begins after the tick since.
InHour(S, since) == {e \in S : e.at > since /\ e.at <= since + Hour}

\* The occurrences that the events of S stand for, one by one.
StandFor(S) == UNION {{e} \X (1 .. e.n) : e \in S}

\* Sum("occurrences") over that hour.
Total(S, since) == Cardinality(StandFor(InHour(S, since)))

\* is_spiking, over a set of events.
Spiking(S) ==
  LET recent == Total(S, now - Hour)
      previous == Total(S, now - 2 * Hour)
  IN  /\ recent >= Minimum
      /\ previous = 0 \/ recent >= previous * Factor

ReasonOfStatus(h) ==
  CASE OnRegression /\ h.issue.status = "regressed" -> "regressed"
    [] OnNew /\ h.created -> "new issue"
    [] OTHER -> IF OnSpike /\ Spiking(rows) THEN "count spike" ELSE "none"

\* The first threshold that fires.
Reason(h) ==
  CASE OnRegression /\ h.regressed -> "regressed"
    [] OnNew /\ h.created -> "new issue"
    [] OTHER -> IF OnSpike /\ Spiking(rows) THEN "count spike" ELSE "none"

InQuietHours ==
  LET hour == (now \div Hour) % Day
  IN  IF QuietStart <= QuietEnd
        THEN hour \in QuietStart .. QuietEnd - 1
        ELSE hour >= QuietStart \/ hour < QuietEnd

SilentButForMutes(h) ==
  \/ h.issue.level < Floor
  \/ InQuietHours /\ h.issue.level # Fatal

\* Below the floor, muted, or in quiet hours and not fatal.
Silent(h) ==
  \/ h.issue.level < Floor
  \/ MutedAt(h.issue, now)
  \/ InQuietHours /\ h.issue.level # Fatal

HookTells ==
  \E h \in hooks :
    /\ Reason(h) # "none"
    /\ ~ Silent(h)
    /\ told' = told \cup {[id |-> h.id, by |-> h.by, reason |-> Reason(h)]}
    /\ hooks' = hooks \ {h}
    /\ UNCHANGED <<now, issue, rows, txn, truth, spent, past>>

HookKeepsQuiet ==
  \E h \in hooks :
    /\ Reason(h) = "none" \/ Silent(h)
    /\ hooks' = hooks \ {h}
    /\ UNCHANGED <<now, issue, rows, txn, told, truth, spent, past>>

-----------------------------------------------------------------------------
(* People, and time                                                        *)

Editing == /\ issue # NoIssue
           /\ spent.edits < MaxEdits
           /\ spent' = [spent EXCEPT !.edits = @ + 1]

Fix ==
  /\ Editing
  /\ issue' = [issue EXCEPT !.status = "fixed", !.mutedUntil = NoTime]
  /\ past' = [past EXCEPT !.fixes = @ + 1]
  /\ UNCHANGED <<now, rows, txn, hooks, told, truth>>

Mute ==
  /\ Editing
  /\ \E until \in 0 .. MaxTime \cup {NoTime} :
       issue' = [issue EXCEPT !.status = "muted", !.mutedUntil = until]
  /\ past' = [past EXCEPT !.mutedAfter = spent.reports]
  /\ UNCHANGED <<now, rows, txn, hooks, told, truth>>

Reopen ==
  /\ Editing
  /\ issue' = [issue EXCEPT !.status = "new", !.mutedUntil = NoTime]
  /\ UNCHANGED <<now, rows, txn, hooks, told, truth, past>>

Tick ==
  /\ now < MaxTime
  /\ now' = now + 1
  /\ UNCHANGED <<issue, rows, txn, hooks, told, truth, spent, past>>

-----------------------------------------------------------------------------

Init ==
  /\ now = 0
  /\ issue = NoIssue
  /\ rows = {}
  /\ txn = [w \in Workers |-> Idle]
  /\ hooks = {}
  /\ told = {}
  /\ truth = {}
  /\ spent = [reports |-> 0, edits |-> 0]
  /\ past = [fixes |-> 0, mutedAfter |-> 0]

Records(w) == RecordRead(w) \/ RecordWrite(w) \/ RecordRaise(w)

Next ==
  \/ \E w \in Workers : Records(w)
  \/ HookTells \/ HookKeepsQuiet
  \/ Fix \/ Mute \/ Reopen
  \/ Tick

Spec == Init /\ [][Next]_vars

-----------------------------------------------------------------------------
(* Properties                                                              *)

Event == [id: Nat, at: Nat, n: Occurrences]
Reasons == {"regressed", "new issue", "count spike"}
Hook == [id: Nat, by: Workers, issue: Issue, created: BOOLEAN, regressed: BOOLEAN]
Message == [id: Nat, by: Workers, reason: Reasons]

\* Every variable holds what it may hold.
TypeOK ==
  /\ now \in 0 .. MaxTime
  /\ issue \in Issue \cup {NoIssue}
  /\ rows \subseteq Event /\ truth \subseteq Event
  /\ txn \in [Workers -> Call \cup {Idle}]
  /\ hooks \subseteq Hook
  /\ told \subseteq Message
  /\ spent \in [reports: Nat, edits: Nat]
  /\ past \in [fixes: Nat, mutedAfter: Nat]

\* "Repeat occurrences of a known issue notify NOBODY": but for changes of
\* rate there is one message for the issue, and each worker sends one for each
\* fix, however many occurrences it records and in whatever order the hooks
\* run.  Two workers that both read the fixed row send one each.
RepeatsTellNobody ==
  /\ Cardinality({m \in told : m.reason = "new issue"}) <= 1
  /\ \A w \in Workers :
       Cardinality({m \in told : m.by = w /\ m.reason = "regressed"}) <= past.fixes

\* Of an issue that is muted now a message goes out only for an occurrence
\* whose recording began before the mute was put on the row, by a person or by
\* the late save of a worker that had read it: the hook's copy of the issue is
\* never so old that it forgets the mute its own occurrence met.
MutedIsQuiet ==
  [][\A m \in told' \ told : MutedAt(issue, now) => m.id <= past.mutedAfter]_vars

\* A true change of rate is heard although the cap has thinned the rows: when
\* the hook of an occurrence runs inside a spike of what really happened, and
\* nothing silences it, it sends a message.
TrueSpikeIsHeard ==
  [][\A h \in hooks \ hooks' :
       OnSpike /\ Spiking(truth) /\ ~ Silent(h) => \E m \in told' : m.id = h.id]_vars

\* notify.py: "The alert is not the bug, it is the change of rate": a message
\* of a spike is about a spike of what really happened.
ToldSpikeIsTrue ==
  [][\A m \in told' \ told : m.reason = "count spike" => Spiking(truth)]_vars

=============================================================================
