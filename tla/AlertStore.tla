----------------------------- MODULE AlertStore -----------------------------
(***************************************************************************)
(* The alert owner's tracker: the Issue and ErrorEvent tables and every    *)
(* operation that changes them (services.record, the PATCH and fix views,  *)
(* the retention sweep, the GDPR erasure), each run by a worker process.   *)
(*                                                                         *)
(* A worker works in the steps the database sees.  It READS rows in one    *)
(* statement, decides in Python, and WRITES in a later one; nothing locks  *)
(* the row in between (there is no select_for_update and the isolation is  *)
(* READ COMMITTED), so other workers' commits fall in the gap.  From the   *)
(* write of the issue row to the commit the row lock, or the unique index  *)
(* on the fingerprint for an INSERT, keeps every other writer of that row  *)
(* out, so write-to-commit is one step.  With one worker every operation   *)
(* runs to its end before the next one starts: the serial tracker.         *)
(*                                                                         *)
(* An issue is keyed by the trace that opened it, which is what its        *)
(* fingerprint is a hash of.  The descriptive columns that never change    *)
(* after creation (service, environment, kind, title, culprit, exception   *)
(* class) are part of the trace's identity.                                *)
(*                                                                         *)
(* A definition that stands before its original and differs from it in one *)
(* detail (CappedLate, Capped) is a plausible bug of that code:            *)
(* nothing in Next uses it, and a property is broken when it is put in the *)
(* place of the original.                                                  *)
(***************************************************************************)
EXTENDS Integers, FiniteSets, FiniteSetsExt

CONSTANTS
  Workers,          \* processes that run one request, or the sweep, at a time
  Traces,           \* normalised traces of one service and exception class
  Similarity,       \* Similarity[t][u]: score of u's issue for t, 0: no group
  Candidates,       \* SIMILARITY_CANDIDATES, the window the search looks at
  TopLevel,         \* severities are 0 .. TopLevel
  Retention,        \* RETENTION_DAYS per level
  Keep,             \* EVENTS_PER_ISSUE
  ForwardToSentry,  \* a Sentry DSN is configured
  Occurrences,      \* values of `occurrences` a report may carry
  Notes,            \* notes a PATCH may carry
  Users,            \* values of `user_id` a report may carry, NoUser: none
  MaxDelay,         \* bound: how long before its receipt an event occurred
  MaxTime,          \* bound on the clock
  MaxReports,       \* bound on calls of record()
  MaxEdits,         \* bound on PATCH, fix and erasure requests
  MaxCrashes,       \* bound on worker crashes
  NoRow, NoTime, NoNote, EmptyNote, NoUser

Levels == 0 .. TopLevel

ASSUME StoreAssumption ==
  /\ IsFiniteSet(Traces) /\ IsFiniteSet(Workers)
  /\ TopLevel \in Nat /\ Keep \in Nat
  /\ Candidates \in Nat /\ MaxDelay \in Nat
  /\ MaxTime \in Nat
  /\ Similarity \in [Traces -> [Traces -> Nat]]
  /\ Retention \in [Levels -> Nat]
  /\ Occurrences \subseteq Nat \ {0}
  /\ ForwardToSentry \in BOOLEAN
  /\ NoTime \notin Nat

VARIABLES
  now,      \* the clock
  issues,   \* alerts_issue: fingerprint -> row, or NoRow
  events,   \* alerts_error_event
  gauge,    \* alerts_open_total per level, as last exported
  txn,      \* what each worker is in the middle of
  spent,    \* calls begun so far: the bounds, and the source of row ids
  hist      \* history per issue: what the properties compare the tables with

vars == <<now, issues, events, gauge, txn, spent, hist>>

-----------------------------------------------------------------------------
(* Rows                                                                    *)

Times == Nat \cup {NoTime}
Statuses == {"new", "fixed", "regressed", "muted"}
Open == {"new", "regressed"}
SettableByAnyone == Statuses
Settable == {"new", "fixed", "muted"}

Row == [id: Nat, status: Statuses, count: Nat, since: Nat, level: Levels,
        first: Nat, last: Nat, fixedAt: Times, regressedAt: Times,
        mutedUntil: Times, note: Notes \cup {EmptyNote}]

ASSUME RowAssumption == NoRow \notin Row

Event == [id: Nat, issue: Traces, at: Nat, occurred: Nat, level: Levels,
          n: Occurrences, user: Users \cup {NoUser}]

Subjects == Users \ {NoUser}

Rows == {f \in Traces : issues[f] # NoRow}
EventsOf(f) == {e \in events : e.issue = f}
Naming(u) == {e \in events : e.user = u}
IsOpen(f) == f \in Rows /\ issues[f].status \in Open

\* Issue.is_muted_now at time t.
MutedAt(row, t) ==
  /\ row.status = "muted"
  /\ row.mutedUntil = NoTime \/ t < row.mutedUntil

\* The choices of the k newest of S (by received_at, ties either way).
Newest(S, k) ==
  {K \in SUBSET S : /\ Cardinality(K) = IF Cardinality(S) < k THEN Cardinality(S)
                                                              ELSE k
                    /\ \A x \in K, y \in S \ K : x.at >= y.at}

LatestWins(a, b) == b
Larger(a, b) == IF a > b THEN a ELSE b
Smaller(a, b) == IF a < b THEN a ELSE b

-----------------------------------------------------------------------------
(* Which issue an occurrence belongs to: the exact fingerprint, else the   *)
(* most similar of the most recently seen candidates, else none.           *)

Searchable == {f \in Rows : issues[f].status # "muted"}

Windows ==
  {W \in SUBSET Searchable :
     /\ Cardinality(W) = Smaller(Candidates, Cardinality(Searchable))
     /\ \A f \in W, g \in Searchable \ W : issues[f].last >= issues[g].last}

\* The strict comparison of the loop keeps the more recent of equal scores.
BestOf(t, W) ==
  {f \in W : /\ Similarity[t][f] > 0
             /\ \A g \in W : \/ Similarity[t][f] > Similarity[t][g]
                             \/ /\ Similarity[t][f] = Similarity[t][g]
                                /\ issues[f].last >= issues[g].last}

\* The possible answers; t itself stands for "none: open an issue for t".
FindIssue(t) ==
  IF t \in Rows
    THEN {t}
    ELSE UNION {IF BestOf(t, W) = {} THEN {t} ELSE BestOf(t, W) : W \in Windows}

-----------------------------------------------------------------------------
(* Worker steps                                                            *)

Idle == [op |-> "idle"]
IsIdle(w) == txn[w].op = "idle"
Begin(w, request) == txn' = [txn EXCEPT ![w] = request]
Finish(w) == txn' = [txn EXCEPT ![w] = Idle]
\* What runs after the commit: hooks, gauges and the fact to emit, if any.
Committed(w, f, fact) ==
  txn' = [txn EXCEPT ![w] = [op |-> "after", target |-> f, fact |-> fact]]

\* record() up to the issue it found: the clock is read first, the row last.
RecordRead(w) ==
  /\ IsIdle(w)
  /\ spent.reports < MaxReports
  /\ \E t \in Traces, n \in Occurrences, l \in Levels, u \in Users :
       \E occurred \in {x \in 0 .. now : now - x <= MaxDelay}, f \in FindIssue(t) :
         Begin(w, [op |-> "record", id |-> spent.reports + 1, target |-> f,
                   n |-> n, level |-> l, user |-> u, at |-> now,
                   occurred |-> occurred, snap |-> issues[f]])
  /\ spent' = [spent EXCEPT !.reports = @ + 1]
  /\ UNCHANGED <<now, issues, events, gauge, hist>>

OpenedUncounted(r) ==
  [id |-> r.id, status |-> "new", count |-> 0, since |-> r.n, level |-> r.level,
   first |-> r.occurred, last |-> r.occurred, fixedAt |-> NoTime,
   regressedAt |-> NoTime, mutedUntil |-> NoTime, note |-> EmptyNote]

\* The row record() inserts when it found no issue.
Opened(r) ==
  [id |-> r.id, status |-> "new", count |-> r.n, since |-> r.n, level |-> r.level,
   first |-> r.occurred, last |-> r.occurred, fixedAt |-> NoTime,
   regressedAt |-> NoTime, mutedUntil |-> NoTime, note |-> EmptyNote]

\* An occurrence refutes a fix, and ends a mute that has expired.
Refutes(r) == r.snap.status = "fixed"
Unmutes(r) == r.snap.status = "muted" /\ ~ MutedAt(r.snap, r.at)

StatusSuspects(r) ==
  IF Refutes(r) \/ Unmutes(r) THEN "regressed" ELSE r.snap.status
StatusAfter(r) ==
  IF Refutes(r) THEN "regressed" ELSE IF Unmutes(r) THEN "new" ELSE r.snap.status

\* The row record() saves when it found one, computed from the row it READ.
Joined(r) ==
  [r.snap EXCEPT
     !.count = @ + r.n,
     !.since = @ + r.n,
     !.last = Larger(@, r.occurred),
     !.first = Smaller(@, r.occurred),
     !.status = StatusAfter(r),
     !.regressedAt = IF Refutes(r) THEN r.at ELSE @,
     !.mutedUntil = IF Unmutes(r) THEN NoTime ELSE @,
     !.level = Larger(@, r.level)]

EventRow(r) == [id |-> r.id, issue |-> r.target, at |-> r.at,
                occurred |-> r.occurred, level |-> r.level, n |-> r.n,
                user |-> r.user]

CappedLate(f, S) == IF Keep = 0 THEN {S} ELSE Newest(S, Keep + 1)
\* _cap_events: a cap of 0 keeps everything.
Capped(f, S) == IF Keep = 0 THEN {S} ELSE Newest(S, Keep)

ClashOfRecreated(r) ==
  LET row == issues[r.target]
  IN  row # NoRow /\ r.snap # NoRow /\ row.id # r.snap.id
\* The unique fingerprint refuses an INSERT beside another row: both for an
\* issue created twice, and for the save of a row deleted and created anew.
Clash(r) ==
  LET row == issues[r.target]
  IN  row # NoRow /\ ~ (r.snap # NoRow /\ row.id = r.snap.id)

FactOfEveryReturn(r) == CASE r.snap = NoRow -> "opened"
             [] r.snap # NoRow /\ StatusAfter(r) # r.snap.status -> "regressed"
             [] OTHER -> "none"
Fact(r) == CASE r.snap = NoRow -> "opened"
             [] r.snap # NoRow /\ r.snap.status = "fixed" -> "regressed"
             [] OTHER -> "none"

\* The rest of record(): issue.save() writes the WHOLE row (or re-inserts it
\* when it is gone), then the event, the cap, and the commit.
RecordWrite(w) ==
  LET r == txn[w]
      f == r.target
  IN  /\ r.op = "record"
      /\ ~ Clash(r)
      /\ \E kept \in Capped(f, EventsOf(f) \cup {EventRow(r)}) :
           events' = (events \ EventsOf(f)) \cup kept
      /\ issues' = [issues EXCEPT ![f] = IF r.snap = NoRow THEN Opened(r)
                                                           ELSE Joined(r)]
      /\ Committed(w, f, Fact(r))
      /\ hist' = [hist EXCEPT ![f].recorded = @ + r.n]
      /\ UNCHANGED <<now, gauge, spent>>

\* record() raises at its caller, and the transaction rolls back whole.  An
\* event that Sentry gave an id is saved again, which fails when the cap has
\* just dropped it; when Sentry gives none nothing more is saved.
RecordRaise(w) ==
  LET r == txn[w]
      f == r.target
  IN  /\ r.op = "record"
      /\ \/ Clash(r)
         \/ /\ ForwardToSentry
            /\ \E kept \in Capped(f, EventsOf(f) \cup {EventRow(r)}) :
                 EventRow(r) \notin kept
      /\ Finish(w)
      /\ hist' = [hist EXCEPT ![f].raised = @ + r.n]
      /\ UNCHANGED <<now, issues, events, gauge, spent>>

\* IssueFixView.post reads the issue, then mark_fixed updates its columns.
FixRead(w) ==
  /\ IsIdle(w)
  /\ spent.edits < MaxEdits
  /\ \E f \in Rows : Begin(w, [op |-> "fix", target |-> f, id |-> issues[f].id])
  /\ spent' = [spent EXCEPT !.edits = @ + 1]
  /\ UNCHANGED <<now, issues, events, gauge, hist>>

\* The row an edit read is still there to be updated.
StillThere(r) == r.target \in Rows /\ issues[r.target].id = r.id

FixedKeepsDeadline(row) == [row EXCEPT !.status = "fixed", !.fixedAt = now,
                                       !.since = 0, !.regressedAt = NoTime]
Fixed(row) == [row EXCEPT !.status = "fixed", !.fixedAt = now, !.since = 0,
                          !.regressedAt = NoTime, !.mutedUntil = NoTime]

FixWrite(w) ==
  LET r == txn[w]
      f == r.target
  IN  /\ r.op = "fix"
      /\ StillThere(r)
      /\ issues' = [issues EXCEPT ![f] = Fixed(@)]
      /\ hist' = [hist EXCEPT ![f].fixes = @ + 1, ![f].asOfFix = hist[f].recorded]
      /\ Committed(w, f, "none")
      /\ UNCHANGED <<now, events, gauge, spent>>

\* IssueDetailView.patch reads the issue; a deadline alone is a mute.
PatchRead(w) ==
  /\ IsIdle(w)
  /\ spent.edits < MaxEdits
  /\ \E f \in Rows, s \in Settable \cup {"same"}, note \in Notes \cup {NoNote},
        until \in 0 .. MaxTime \cup {NoTime} :
       /\ s = "same" => note # NoNote
       /\ s # "muted" => until = NoTime
       /\ Begin(w, [op |-> "patch", target |-> f, id |-> issues[f].id,
                    status |-> s, until |-> until,
                    note |-> IF note = NoNote THEN issues[f].note ELSE note])
  /\ spent' = [spent EXCEPT !.edits = @ + 1]
  /\ UNCHANGED <<now, issues, events, gauge, hist>>

PatchedBlindly(row, r) ==
  [row EXCEPT !.note = r.note, !.status = r.status, !.mutedUntil = r.until]

\* set_status writes status, deadline and note, the note from the row it READ
\* when the request carries none; a note alone is saved alone.
Patched(row, r) ==
  IF r.status = "same"
    THEN [row EXCEPT !.note = r.note]
    ELSE [row EXCEPT !.note = r.note, !.status = r.status, !.mutedUntil = r.until]

PatchWrite(w) ==
  LET r == txn[w]
      f == r.target
      closes == r.status = "fixed" /\ issues[f].status # "fixed"
  IN  /\ r.op = "patch"
      /\ StillThere(r)
      /\ issues' = [issues EXCEPT ![f] = Patched(@, r)]
      /\ hist' = [hist EXCEPT ![f].fixes = @ + (IF closes THEN 1 ELSE 0),
                              ![f].asOfFix = IF closes THEN hist[f].recorded ELSE @]
      /\ IF r.status = "same" THEN Finish(w) ELSE Committed(w, f, "none")
      /\ UNCHANGED <<now, events, gauge, spent>>

\* The row is gone: save(update_fields) finds nothing to update and raises.
EditMissed(w) ==
  /\ txn[w].op \in {"fix", "patch"}
  /\ ~ StillThere(txn[w])
  /\ Finish(w)
  /\ UNCHANGED <<now, issues, events, gauge, spent, hist>>

-----------------------------------------------------------------------------
(* alerts_sweep                                                            *)

\* Events past the retention of their level.
SweepExpired(w) ==
  /\ IsIdle(w)
  /\ events' = {e \in events : e.at >= now - Retention[e.level]}
  /\ Begin(w, [op |-> "sweep cap", asOf |-> now])
  /\ UNCHANGED <<now, issues, gauge, spent, hist>>

\* Events over the per-issue cap: here a cap of 0 keeps nothing.
SweepOverCap(w) ==
  /\ txn[w].op = "sweep cap"
  /\ \E kept \in SUBSET events :
       /\ \A f \in Traces : kept \cap EventsOf(f) \in Newest(EventsOf(f), Keep)
       /\ events' = kept
  /\ Begin(w, [op |-> "sweep list", asOf |-> txn[w].asOf])
  /\ UNCHANGED <<now, issues, gauge, spent, hist>>

Longest == Max({Retention[l] : l \in Levels})

SweptThoughOpen(asOf) ==
  {f \in Rows : issues[f].last < asOf - Longest /\ EventsOf(f) = {}}
SweptOnlyFixed(asOf) ==
  {f \in Rows : /\ issues[f].status = "fixed"
                /\ issues[f].last < asOf - Longest
                /\ EventsOf(f) = {}}

\* Closed issues not seen for the longest retention and with no events left.
Swept(asOf) ==
  {f \in Rows : /\ issues[f].status \notin Open
                /\ issues[f].last < asOf - Longest
                /\ EventsOf(f) = {}}

SweepList(w) ==
  /\ txn[w].op = "sweep list"
  /\ Begin(w, [op |-> "sweep delete",
               ids |-> {issues[f].id : f \in Swept(txn[w].asOf)}])
  /\ UNCHANGED <<now, issues, events, gauge, spent, hist>>

\* DELETE ... WHERE id IN (list), and the events of those issues with them.
SweepDelete(w) ==
  LET gone == {f \in Rows : issues[f].id \in txn[w].ids}
  IN  /\ txn[w].op = "sweep delete"
      /\ issues' = [f \in Traces |-> IF f \in gone THEN NoRow ELSE issues[f]]
      /\ events' = {e \in events : e.issue \notin gone}
      /\ hist' = [f \in Traces |-> IF f \in gone
                    THEN [hist[f] EXCEPT !.swept = @ + issues[f].count, !.deleted = @ + 1]
                    ELSE hist[f]]
      /\ txn' = [txn EXCEPT ![w] = [op |-> "after sweep"]]
      /\ UNCHANGED <<now, gauge, spent>>

-----------------------------------------------------------------------------
(* erase_subject: the rows that name the person are listed by one          *)
(* statement, and each is saved by a statement of its own, in no           *)
(* transaction.                                                            *)

Listed(u) == {e.id : e \in Naming(u)}

\* `had` is history: the events that named the person just then.
EraseList(w) ==
  /\ IsIdle(w)
  /\ spent.edits < MaxEdits
  /\ \E u \in Subjects :
       Begin(w, [op |-> "erase", user |-> u, todo |-> Listed(u),
                 had |-> {e.id : e \in Naming(u)}])
  /\ spent' = [spent EXCEPT !.edits = @ + 1]
  /\ UNCHANGED <<now, issues, events, gauge, hist>>

Forgotten(e) == [e EXCEPT !.user = NoUser]

\* The next row loses the person, if it is still there to be saved.
EraseRow(w) ==
  /\ txn[w].op = "erase"
  /\ \E e \in events :
       /\ e.id \in txn[w].todo
       /\ events' = (events \ {e}) \cup {Forgotten(e)}
       /\ Begin(w, [txn[w] EXCEPT !.todo = @ \ {e.id}])
  /\ UNCHANGED <<now, issues, gauge, spent, hist>>

DoneAtTheFirstGap(r) == r.todo = {} \/ \E i \in r.todo : \A e \in events : e.id # i
\* The loop is over: the erasure is reported done.
Done(r) == r.todo = {}

EraseEnd(w) ==
  /\ txn[w].op = "erase"
  /\ Done(txn[w])
  /\ Finish(w)
  /\ UNCHANGED <<now, issues, events, gauge, spent, hist>>

\* The cap or the sweep has deleted a listed row: save(update_fields) finds
\* nothing to update, raises, and the rows after it are not reached.
EraseMissed(w) ==
  /\ txn[w].op = "erase"
  /\ \E i \in txn[w].todo : \A e \in events : e.id # i
  /\ Finish(w)
  /\ UNCHANGED <<now, issues, events, gauge, spent, hist>>

-----------------------------------------------------------------------------
(* After the commit                                                        *)

OpenAt(l) == {f \in Rows : IsOpen(f) /\ issues[f].level = l}
KnownLevels == {issues[f].level : f \in Rows}

RefreshOpenLevels ==
  gauge' = [l \in Levels |-> IF OpenAt(l) # {} THEN Cardinality(OpenAt(l)) ELSE gauge[l]]

\* refresh_open_gauges sets the gauge of every level some issue row carries.
RefreshGauges ==
  gauge' = [l \in Levels |-> IF l \in KnownLevels THEN Cardinality(OpenAt(l))
                                                  ELSE gauge[l]]

\* _after_record, and the refresh that ends mark_fixed, set_status and the
\* sweep.  emit() is best effort: a fact may be lost and nobody is told.
AfterCommit(w) ==
  /\ txn[w].op = "after"
  /\ RefreshGauges
  /\ Finish(w)
  /\ \/ UNCHANGED hist
     \/ /\ txn[w].fact = "opened"
        /\ hist' = [hist EXCEPT ![txn[w].target].openedFacts = @ + 1]
     \/ /\ txn[w].fact = "regressed"
        /\ hist' = [hist EXCEPT ![txn[w].target].regressedFacts = @ + 1]
  /\ UNCHANGED <<now, issues, events, spent>>

AfterSweep(w) ==
  /\ txn[w].op = "after sweep"
  /\ RefreshGauges
  /\ Finish(w)
  /\ UNCHANGED <<now, issues, events, spent, hist>>

\* The process dies: what it had not committed is rolled back, what it had
\* not done after the commit is never done.
Crash(w) ==
  /\ ~ IsIdle(w)
  /\ spent.crashes < MaxCrashes
  /\ Finish(w)
  /\ spent' = [spent EXCEPT !.crashes = @ + 1]
  /\ UNCHANGED <<now, issues, events, gauge, hist>>

Tick ==
  /\ now < MaxTime
  /\ now' = now + 1
  /\ UNCHANGED <<issues, events, gauge, txn, spent, hist>>

-----------------------------------------------------------------------------

NoHistory == [recorded |-> 0, swept |-> 0, deleted |-> 0, raised |-> 0, fixes |-> 0,
              asOfFix |-> 0, openedFacts |-> 0, regressedFacts |-> 0]

Init ==
  /\ now = 0
  /\ issues = [f \in Traces |-> NoRow]
  /\ events = {}
  /\ gauge = [l \in Levels |-> 0]
  /\ txn = [w \in Workers |-> Idle]
  /\ spent = [reports |-> 0, edits |-> 0, crashes |-> 0]
  /\ hist = [f \in Traces |-> NoHistory]

Step(w) ==
  \/ RecordRead(w) \/ RecordWrite(w) \/ RecordRaise(w)
  \/ FixRead(w) \/ FixWrite(w)
  \/ PatchRead(w) \/ PatchWrite(w) \/ EditMissed(w)
  \/ SweepExpired(w) \/ SweepOverCap(w) \/ SweepList(w) \/ SweepDelete(w)
  \/ EraseList(w) \/ EraseRow(w) \/ EraseEnd(w) \/ EraseMissed(w)
  \/ AfterCommit(w) \/ AfterSweep(w)
  \/ Crash(w)

Next == Tick \/ \E w \in Workers : Step(w)

Spec == Init /\ [][Next]_vars

InFlight(w) ==
  \/ RecordWrite(w) \/ RecordRaise(w) \/ FixWrite(w) \/ PatchWrite(w) \/ EditMissed(w)
  \/ SweepOverCap(w) \/ SweepList(w) \/ SweepDelete(w)
  \/ EraseRow(w) \/ EraseEnd(w) \/ EraseMissed(w)
  \/ AfterCommit(w) \/ AfterSweep(w)

\* A process that runs goes on with its request, and the scheduler of the host
\* starts alerts_sweep again and again, whatever else the workers are given.
FairSpec ==
  /\ Spec
  /\ WF_vars(Tick)
  /\ \A w \in Workers : WF_vars(InFlight(w)) /\ SF_vars(SweepExpired(w))

-----------------------------------------------------------------------------
(* Types                                                                   *)

RecordRequest ==
  [op: {"record"}, id: Nat, target: Traces, n: Occurrences, level: Levels,
   user: Users, at: Nat, occurred: Nat, snap: Row \cup {NoRow}]
FixRequest == [op: {"fix"}, target: Traces, id: Nat]
PatchRequest ==
  [op: {"patch"}, target: Traces, id: Nat, status: Settable \cup {"same"},
   until: Times, note: Notes \cup {EmptyNote}]
Sweep == [op: {"sweep cap", "sweep list"}, asOf: Nat]
             \cup [op: {"sweep delete"}, ids: SUBSET Nat]
             \cup [op: {"after sweep"}]
Erasure == [op: {"erase"}, user: Subjects, todo: SUBSET Nat, had: SUBSET Nat]
After == [op: {"after"}, target: Traces, fact: {"opened", "regressed", "none"}]

Request == {Idle} \cup RecordRequest \cup FixRequest \cup PatchRequest
           \cup Sweep \cup Erasure \cup After

History == [recorded: Nat, swept: Nat, deleted: Nat, raised: Nat, fixes: Nat,
            asOfFix: Nat, openedFacts: Nat, regressedFacts: Nat]

\* Every variable holds what its column or field may hold.
TypeOK ==
  /\ now \in Nat
  /\ issues \in [Traces -> Row \cup {NoRow}]
  /\ events \subseteq Event
  /\ gauge \in [Levels -> Nat]
  /\ txn \in [Workers -> Request]
  /\ spent \in [reports: Nat, edits: Nat, crashes: Nat]
  /\ hist \in [Traces -> History]

-----------------------------------------------------------------------------
(* What holds however the workers interleave                               *)

\* A deadline belongs to a mute and leaves with it: no row of another status
\* carries muted_until, whichever of record, PATCH and fix wrote it last.
DeadlineOnlyWhileMuted ==
  \A f \in Rows : issues[f].mutedUntil # NoTime => issues[f].status = "muted"

\* "Regressed" is evidence: it is dated, not after the present, and at least
\* one occurrence was counted since the fix it refutes.
RegressedOnEvidence ==
  \A f \in Rows : issues[f].status = "regressed" =>
    /\ issues[f].regressedAt \in 0 .. now
    /\ issues[f].since > 0

\* No interleaving makes an issue claim more occurrences than were recorded
\* for it, nor more since a fix than in its life.
CountNeverInvented ==
  \A f \in Rows : /\ issues[f].count <= hist[f].recorded
                  /\ issues[f].since <= issues[f].count

\* _cap_events bounds the sample of every issue at every commit.
EventsCapped ==
  Keep > 0 => \A f \in Traces : Cardinality(EventsOf(f)) <= Keep

\* Of workers that race to open an issue one does: subscribers of
\* alerts.issue.opened hear of it once, and once more for each time it was swept.
OpenedOncePerLife == \A f \in Traces : hist[f].openedFacts <= hist[f].deleted + 1

\* Of workers that read one fix each may refute it, whatever the others write in
\* between, and none twice: subscribers of alerts.issue.regressed hear of a fix at
\* most once from every worker.
OneRegressionPerFixAndWorker ==
  \A f \in Traces : hist[f].regressedFacts <= Cardinality(Workers) * hist[f].fixes

\* Why what is said above of rows and samples holds: a row is sound, and so is every
\* copy of a row that some worker has read and will write back, against the history
\* of that moment.
SoundRow(row, f) ==
  /\ row.mutedUntil # NoTime => row.status = "muted"
  /\ row.status = "regressed" => row.regressedAt \in 0 .. now /\ row.since > 0
  /\ row.count <= hist[f].recorded
  /\ row.since <= row.count

SoundRequest(r) ==
  /\ r.op = "record" => /\ r.at <= now
                        /\ r.snap # NoRow => SoundRow(r.snap, r.target)
  /\ r.op = "patch" => (r.until # NoTime => r.status = "muted")

\* The inductive invariant of the tracker.
StoreInv ==
  /\ TypeOK
  /\ \A f \in Rows : SoundRow(issues[f], f)
  /\ \A w \in Workers : SoundRequest(txn[w])
  /\ IsFiniteSet(events)
  /\ EventsCapped

\* "What it must not keep is which person it failed for": an erasure reported
\* done leaves no event naming the person that was there when it began,
\* whatever was recorded, capped and swept between its rows.
DoneErasureForgets ==
  [][\A w \in Workers :
       EraseEnd(w) => \A e \in Naming(txn[w].user) : e.id \notin txn[w].had]_vars

-----------------------------------------------------------------------------
(* What holds of the serial tracker, and is lost between two workers       *)

CountOf(f) == IF f \in Rows THEN issues[f].count ELSE 0

\* "The count is the fact": the counter is every occurrence recorded, less
\* what was swept away with an earlier row of the same fingerprint.
CountIsTheFact ==
  \A f \in Traces : CountOf(f) + hist[f].swept = hist[f].recorded

\* The occurrences a set of events stands for, one by one.
StandFor(S) == UNION {{e} \X (1 .. e.n) : e \in S}

\* "The events are the sample": the rows kept never stand for more
\* occurrences than the issue counts.
SampleWithinCount ==
  \A f \in Rows : Cardinality(StandFor(EventsOf(f))) <= issues[f].count

\* The issue covers its sample: its level is the worst of its events' and
\* every one of them occurred between first_seen and last_seen.
IssueCoversSample ==
  \A e \in events : /\ e.issue \in Rows
                    /\ e.level <= issues[e.issue].level
                    /\ e.occurred \in issues[e.issue].first .. issues[e.issue].last

\* A closed bug is back at most once per time it was closed: subscribers of
\* alerts.issue.regressed hear no fix refuted twice.
OneRegressionPerFix ==
  \A f \in Traces : hist[f].regressedFacts <= hist[f].fixes

\* "Nothing here raises at the caller": no occurrence is lost to an error.
RecordNeverRaises == \A f \in Traces : hist[f].raised = 0

\* A closed issue that stays closed, and was last seen and heard of before the
\* longest retention, goes away: its events expire, then its row.
ClosedGoesAway ==
  \A f \in Traces :
    ~ <>[](/\ f \in Rows /\ ~ IsOpen(f)
           /\ issues[f].last < MaxTime - Longest
           /\ \A e \in EventsOf(f) : e.at < MaxTime - Longest)

AllIdle == \A w \in Workers : IsIdle(w)

\* Between requests the gauge of every level that an issue has is true.
KnownGaugesTrue ==
  AllIdle => \A l \in KnownLevels : gauge[l] = Cardinality(OpenAt(l))

\* An open issue is never swept, however old.
OpenNeverSwept ==
  [][\A f \in Traces : IsOpen(f) => issues'[f] # NoRow]_vars

\* The serial tracker keeps the promise of IssueLifecycle.
Promise ==
  INSTANCE IssueLifecycle WITH
    Issues <- Traces,
    Sizes <- Occurrences,
    state <- [f \in Traces |-> IF f \in Rows THEN issues[f].status ELSE "absent"],
    count <- [f \in Traces |-> CountOf(f)]

KeepsPromise == Promise!Spec

-----------------------------------------------------------------------------
(* What the repository says of the tracker and the code does not do        *)

\* models.py on count_since_fix: "Occurrences seen since the issue was last
\* marked fixed. Zeroed by a fix".
SinceIsSinceTheFix ==
  \A f \in Rows : hist[f].fixes > 0 =>
    issues[f].since = hist[f].recorded - hist[f].asOfFix

\* metrics.py on alerts_open_total: every (level, service), so that "fixed"
\* reads 0: between requests every gauge is the number of open issues.
GaugeTellsOpen ==
  AllIdle => \A l \in Levels : gauge[l] = Cardinality(OpenAt(l))

\* models.py on muted_until: a mute whose deadline has passed is over and the
\* next event un-mutes the issue: an event similar to it opens no other.
ExpiredMuteTakesNextEvent ==
  [][\A w \in Workers :
       (txn[w].op = "record" /\ txn[w].snap = NoRow /\ txn'[w].op = "after") =>
         ~ \E f \in Rows : /\ Similarity[txn[w].target][f] > 0
                           /\ issues[f].status = "muted"
                           /\ ~ MutedAt(issues[f], txn[w].at)]_vars

=============================================================================
