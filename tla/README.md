# stapel-alerts in TLA+

Specifications of stapel-alerts, a Django library that is an error tracker
("owner" mode), a reporter that sends to one ("reporter" mode), and a watchdog
that files the blind spots of the monitoring stack into it. The modules are
translated from the Python source; line numbers in `PROJECT.json` ("map") say
from where. TLC checks them on small instances, TLAPS proves theorems about
them for every value of their constants.

## 1. The system

### Components

| Component | Code | State it keeps | Operations |
|---|---|---|---|
| tracker | `services.py`, `models.py`, `views.py`, `serializers.py` | tables `alerts_issue`, `alerts_error_event` | `record`, fix, PATCH, `erase_subject` |
| retention sweep | `management/commands/alerts_sweep.py` | none of its own | three passes over both tables |
| metrics | `metrics.py` | the exported gauges | `observe_event`, `refresh_open_gauges` |
| report endpoint and service keys | `views.ReportView`, `models.Service`, `alerts_service.py`, `admin.py` | table `alerts_service` | report, register, rotate, switch off and on |
| reporter transport | `transport.py` | `_Buffer`: items, dropped, `down_since`, `last_fallback` | `send`, POST with retries, fallback digest |
| capture and rate limiter | `_capture.py` | a window per fingerprint | `capture`, `check` |
| notifications | `notify.py` | none | the hook after each commit |
| monitoring watchdog | `monitoring.py`, `beat.py`, `alerts_watch_monitoring.py` | none: it works on the tracker | one pass: ask, file, close, announce |
| fallback channel | `fallback.py` | none | deliver a message |
| normaliser and grouping | `normalise.py`, `services.find_issue` | none | fingerprint, similarity, which issue |
| ignore set, bounds | `ignore.py`, `bounds.py` | none | pure functions on text |
| inputs | `inputs.py`, `apps.py` | handlers, receivers, the superseded loggers | wire at startup, call `capture` |
| Sentry forward | `sentry.py` | none | an event id, or none |
| GDPR | `gdpr.py` | none | export, erase |
| settings, checks, admin, errors, code generation | `conf.py`, `checks.py`, `admin.py`, `errors.py`, `_codegen*.py` | none | declarations |

### How they interact

An input calls `capture()`, which asks the rate limiter and then `send()`. In
the owner that is `services.record()` in the same process; in a reporter it is
`_report()`, which posts the buffer and the new payload to the owner's
`ReportView`, which calls `record()` once per item. `record()` is one database
transaction; `transaction.on_commit` then runs the metrics, the notification
hook and the emission of `alerts.issue.opened` or `.regressed`. People, agents
and CI reach the same rows through PATCH and POST fix; the beat runs the sweep
and the watchdog, whose reports go through `capture()` as well and whose
recoveries call `mark_fixed`. Nothing but the database, its unique index on the
fingerprint, and two `threading.Lock`s (one in the limiter, one in the buffer)
orders any of this.

### What is hard, and what makes each part correct

* **Tracker.** Every operation reads a row, decides in Python, and writes
  columns (or the whole row) later, without `select_for_update`. Correct means:
  the counter is the fact and the events its sample; a fixed issue leaves
  "fixed" only on evidence or by a person; a deadline belongs to a mute;
  "regressed" is dated and refutes a fix; and the parts of this that must
  survive two workers do.
* **Erasure.** `erase_subject` saves row by row, in no transaction, beside ingest,
  cap and sweep. Reported done, it has forgotten everything that named the person
  when it began.
* **Grouping.** A bug opens one issue whatever varies in its text and whatever
  happens to the issue in between; near-duplicates join without drifting; another
  message on the same stack is another issue.
* **Sweep.** Three statements at three moments, beside ingest. An open issue is
  never swept; a closed one is swept in the end.
* **Metrics.** Refreshed only by events, and only for the levels a row has now.
* **Transport.** Threads share the buffer and two unlocked clocks; the owner may
  record a batch and not be heard; keys are rotated under a running reporter. A
  payload is held exactly once until it is delivered or counted as dropped, the
  oldest is dropped first, silence becomes loud, recovery is noticed.
* **Fallback.** Two ways to a chat, one of which may not know topics. A digest
  that was lost does not silence the next ones, and none lands in the wrong
  place.
* **Inputs.** A failure may announce itself as a line and as a structured event;
  a Celery worker drops the log handler after startup; a caller's commit runs
  hooks outside the reentrancy guard. Each failure is captured once (a Celery
  task's twice: section 5), and a failure of the alert path never.
* **Limiter.** The clock is read before the lock; suppressed occurrences are
  carried by the next event. Nothing is forgotten or carried twice, a flood is
  bounded.
* **Notifications.** Hooks run after commits, late and in any order, and read
  the capped sample, and two workers may have read the same row before either
  committed. A repeat tells nobody but for one message per fix and worker, a mute
  is quiet, a change of rate is heard, and only a change of rate.
* **Watchdog.** A pass takes many queries while the world, the settings and the
  tracker change, and subjects that the normaliser renders alike share an issue.
  It closes only what it asked about, and what it saw failing only for another
  subject of the same issue that it found to be fine; what recovers is closed,
  what stays blind stays filed.

`PROJECT.json` lists every such hazard at its line with the properties aimed at
it, or why none is.

## 2. The modules

| Module | Models |
|---|---|
| `IssueLifecycle` | what the tracker promises about an issue: the abstract specification |
| `AlertStore` | tracker, erasure, sweep, gauges: the steps of worker processes on the two tables |
| `Mailbox` | what a reporter's memory promises: a queue cut at its oldest end |
| `Transport` | a reporter process, the owner as it sees it, and its digests |
| `Fallback` | where a message to the fallback channel lands, as operators `Transport` uses |
| `Capture` | the rate limiter and its threads |
| `Inputs` | the inputs of a process, wired and heard, in front of `Capture` |
| `Reporter` | a whole reporter: `Inputs` and `Capture` composed with `Transport`, from the failure to the owner's count |
| `Grouping` | the normaliser and `find_issue` over a growing tracker |
| `Notify` | the notification hooks of one issue |
| `Watchdog` | passes of the monitoring watchdog over a changing world |
| `MC...` | constants for TLC |
| `AlertStore_proofs` | theorems about `AlertStore` for any workers |
| `SerialStore_proofs` | theorems about `AlertStore` with one worker, the refinement of `IssueLifecycle` among them |
| `Transport_proofs` | theorems about `Transport`, `Fallback` and the refinement of `Mailbox` |
| `Reporter_proofs` | theorems about `Inputs` and about `Reporter` |
| `Capture_proofs`, `Grouping_proofs`, `Notify_proofs`, `Watchdog_proofs` | theorems about the module of that name |

In several modules a definition is preceded by one or two variants that differ
in a detail (`CappedLate` before `Capped`). Each is a plausible bug of the code
above it. Nothing in `Next` uses them; put in the place of the original, each
breaks a property (`PROJECT.json`, "mutants"), which is how we know that the
property says something about that code.

### AlertStore

`issues[f]` is the row of the issue whose fingerprint is `f`'s, or `NoRow`;
`events` the event rows; `gauge` the exported value per level; `txn[w]` what
worker `w` is in the middle of; `hist` is history the properties compare with.
A worker works in the steps the database sees:

| Code | Steps |
|---|---|
| `record()` | `RecordRead` (clock, `find_issue`), `RecordWrite` or `RecordRaise` (row, event, cap, Sentry id, commit), `AfterCommit` |
| `IssueFixView.post`, `mark_fixed` | `FixRead`, `FixWrite` or `EditMissed`, `AfterCommit` |
| `IssueDetailView.patch`, `set_status` | `PatchRead`, `PatchWrite` or `EditMissed`, `AfterCommit` |
| `AlertsGDPRProvider.delete`, `erase_subject` | `EraseList`, `EraseRow` per row, `EraseEnd` or `EraseMissed` |
| `alerts_sweep` | `SweepExpired`, `SweepOverCap`, `SweepList`, `SweepDelete`, `AfterSweep` |

`RecordWrite` is one step although `record()` has several statements between
its first write and its commit: from that write on the row lock (or, for an
INSERT, the unique index) keeps out every other writer of the row, and under
READ COMMITTED nobody reads what is not committed. The sweep issues one DELETE
per level and one per issue in its first two passes; each of these two passes is
one step here. Rows it deletes between two of those statements would be seen by
the others only as rows already gone. An erasure's list is one statement, each
`event.save()` another; a listed row the cap or the sweep has deleted meanwhile
makes the save raise (`EraseMissed`). `Similarity` stands for `find_issue`'s
scores: what `normalise.py` computes is a constant here and `Grouping`'s subject.

The search is by strictly greater score in the order of `last_seen`, within a
window of `Candidates` rows; ties of `last_seen` are resolved either way.

### Transport

`thread[t]` is where a thread is in `_report`: `post`, then `mark up`, or
`mark down`, `push` (once per item) and `age` (the second read of `down_since`
in `_maybe_fallback`). A POST has four outcomes: accepted, refused (a 4xx, or
nowhere to post to), unanswered (`~ up`: unreachable, 5xx or a timeout, with any
prefix of the batch recorded, since the owner commits item by item), or none at
all, when the body cannot be encoded and `_post` raises (`PostRaises`;
`Unencodable` are the payloads with a context that JSON has no form for). Clocks are
ages that stop at `FallbackAfter`: the code compares them with nothing larger.

`key` is the key the reporter was started with against the hash on record:
`none`, `stale` after `alerts_service --rotate`, `issued`; `active` is the
admin's switch. A new key reaches a reporter only with a restart, and the
restart empties its memory.

`settings` and `world` are the fallback channel's configuration and what works
of it; `Digest` is the attempt and `Fallback!Lands` says where it lands:
the topic, the General tab, the host's callable, or nowhere.

### Inputs

`boot` is how far the process is: `Install`, `ConnectDlq`, `ConnectCelery`,
`Wrap` are `AppConfig.ready()`; then `Serve`, or `SetupLogger` and
`AfterSetupLogger` in a Celery worker. `Fail` starts a failure of one of six
kinds in a thread; `Announcements` says where it goes (a line to each handler of
the root logger, the failure to its structured input), `Heard` which of those is
captured, and each of those is a `Capture!Captured`. What Django, Celery and
stapel_core log and send is external: read off the comments of `inputs.py`, but
for the line that Celery's own logger (`celery.app.trace`) writes at ERROR of a
task that raised. That line reaches the root handler that `inputs.py:221-230` puts
back, and nothing excludes it. The host is taken to have wired the exception
handler. Line and structured input differ in text, so
any fingerprint may come out of either. `SentInCaller` is a `record()` inside a
caller's transaction; its hooks run later (`HooksRun`), or fail (`Fail` of kind
`hook`), outside `capture()`.

### Reporter

`Inputs` with `Transport` behind it, as the instance `Outbox`: `report[t]` is
where a thread is in `_report`, `restarts` the restarts of both. They meet in
four actions. `HandOver` is the end of `_capture()`: `Capture!Sent` and
`Transport!Capture` in one, with `load[p]` the payload's `occurrences` (which
neither component keeps: one counts, the other moves payloads). `Announcing`
needs a thread that is not in `_report`, since the reentrancy guard is held until
`send()` returns. `TickReporter` and `RestartReporter` are the clock and the end
of one process. The rest is one component's step and nothing of the other's. A
payload is handed over once here, where `Transport` alone may capture an identity
anew. In reporter mode `record()` runs elsewhere, so there are no hooks of a
caller's transaction.

### Grouping

A line of a trace is a record of its kind; a text is a *shape*, which tells bugs
apart, and a *value* (an id, a uuid, a time, the value in a printed mapping),
which does not. A path is what stands above its anchor ("app", "site-packages", ...),
the anchor and the tail behind it; `NormalisePath` keeps the anchor and the tail,
and a path without an anchor whole. `Normalise` is the loop of `normalise_trace`,
which keeps every unindented line but the header; `Fingerprint`,
`ShouldGroup`, `CandidatesFor` and `FindIssue` follow the code; `Matching` counts
lines as `SequenceMatcher` does (the longest block, and what matches on either
side), over `Spans`, a stretch of one trace beside a stretch of the other. An
issue keeps the occurrences filed under it, each with the bug it is of, which the
code does not see: `OccurrenceAssumption` takes the occurrences of one bug to
differ in values, line numbers and what stands above an anchor only
(`SameButForValues`). The same code below `/app` and below `/srv`, or in two home
directories without an anchor, is two bugs there, as it is to the code (section 5).
Occurrences arrive in the order they happened and a mute does not expire: both
are `AlertStore`'s.

### Capture, Notify, Watchdog

`Capture`: `Captured` reads the clock, then `OpenWindow`, `Accept` or `Suppress`
is the body of `check()` under its lock; `Sent` or `Lost` is the end of `send()`.

`Notify`: `record()` of a worker is `RecordRead`, then `RecordWrite` or
`RecordRaise`, as in `AlertStore`; a commit saves the whole row over what others
wrote in between, and leaves a hook with that copy of the issue. `HookTells` and
`HookKeepsQuiet` run a hook against the rows kept by then; `Fix`, `Mute` and
`Reopen` save the status and the deadline only. Messages and hooks bear the
worker they are of (`by`).

`Watchdog`: `Begin`, one `Ask` per query, `AskedAll` or `AskUnanswered`,
`AskAlertmanager`, one `Report` per finding, `Reported`, then `LookUp` and
`Close` per recovery, `Announce`. `Normal` is what `normalise_line` makes of a
subject: where it folds two of them they share an issue. `world.absent` are the
metrics and the heartbeats that do not report. A pass is a sequential process beside
`ScrapeChanges`, `SeriesChange`, `ServersChange`, `PersonEdits` and `Redeploy`.
`Report` assumes that the report reaches the store: the process is the owner and
neither limiter nor ignore set takes it away. The race of `record()` with
another writer is `AlertStore`'s subject and is one step here; the read and
the write of `close_recovered` are two. `asked` and `saw` are history.

## 3. The runs

| Run | Asks | Size |
|---|---|---|
| `store_serial` | one worker, two traces that group, two levels, events for two occurrences that arrive late: gauges, counter, cover, sweep and statuses; that closed issues go away; refinement of `IssueLifecycle` | 660 k states |
| `store_concurrent` | two workers, Sentry on, a note, a person to forget, a crash: what survives every lost update, that a race to open an issue is announced once and a fix refuted once by each worker, and that a finished erasure forgot | 4.9 M states |
| `transport_one` | one thread, four payloads (one the owner refuses, one it cannot store, one that cannot be encoded), an owner that fails, refuses, half-records, rotated keys, a restart, a channel to a topic or a callable that fails and works: refinement of `Mailbox`, a dead store is heard, the topic is honoured, an owner that is back and refuses nothing gets the backlog; bound, exactly-once holding, settled is stored | 939 k states |
| `watchdog_pass` | two targets that share an issue, a metric, a silence, both servers failing, three changes: what a pass closes, what it files again | 291 k states |
| `inputs_wiring` | two threads, four failures of six kinds, switches on or off, web process or worker, a restart, five captures over windows of two: each failure once, a task's twice, nothing forgotten, floods bounded | 5.5 M states |
| `reporter_whole` | two threads, three failures with the 5xx switch on, two payloads of which one cannot be encoded, an owner that stops, recovers, rejects, a restart: what was captured is counted or accounted for, and the outbox keeps its bound, one place per payload and what it settled | 2.8 M states |
| `grouping_rule` | thirteen occurrences after `tests/traces.py`, three checkouts of two anchors, four arrivals, one fix or mute | 253 k states |
| `notify_hooks` | two workers, three occurrences of weight 1 or 3 and of two levels, two edits, quiet hours | 4.9 M states |
| `store_sweeprace` | violated: `OpenNeverSwept` with two workers | |
| `transport_backlog` | violated: `RecoveredOwnerIsTold` with a batch limit below the buffer's | |
| `watchdog_unasked` | violated: `ClosesOnlyWhatWasAsked`: a target is filed, Prometheus does not answer the next pass, and that pass closes it | |
| `notify_spike` | violated: `ToldSpikeIsTrue` at a steady rate | |

### What the passing runs show

* **Serial tracker** (`store_serial`). With requests that do not overlap, the
  docstrings hold: the counter is every occurrence (`CountIsTheFact`), levels and
  dates cover late arrivals (`IssueCoversSample`), the gauges of the levels seen
  are the rows' (`KnownGaugesTrue`), an open issue survives every sweep
  (`OpenNeverSwept`), a closed one goes away in the end (`ClosedGoesAway`), and
  the whole refines `IssueLifecycle`: a fixed issue returns only as a regression
  or by a person.
* **Concurrent tracker** (`store_concurrent`). Two workers lose occurrences and
  overwrite each other, and still: no deadline without a mute, no regression
  without evidence, no invented count, no sample over the cap. Subscribers hear
  of an opening once for each life of a row (`OpenedOncePerLife`), whichever
  workers raced to insert it and although a late save may bring a deleted row
  back, and of the refutation of a fix at most once from each worker
  (`OneRegressionPerFixAndWorker`), since each may have read the fixed row. An
  erasure that reports itself done leaves no event naming the person of those it
  found (`DoneErasureForgets`), whatever was recorded, capped or swept between
  its rows.
* **Reporter.** A payload that is neither delivered nor counted as dropped is
  in memory once (`HeldExactlyOnce`), through drains, failed posts and pushes
  back; `OutboxHolds` says it again where two threads report at once. With one
  thread buffer and batch are one `Mailbox`, cut at its oldest end, through
  restarts too. While payloads wait, the owner stays down or rejects the key,
  and the channel can reach somebody, a digest is heard again and again
  whatever digests were lost before (`DeadStoreIsHeard`); none lands in the
  General tab when a topic is configured (`TopicIsHonoured`). Once the owner is
  back for good, and neither it nor `json.dumps` refuses what it is sent, a
  service that goes on capturing gets rid of all it held (`BacklogIsTold`): one
  capture takes the whole buffer along. Without that condition it does not
  (section 5).
* **The whole reporter.** Of every fingerprint, what was captured is what the
  payloads stand for that the owner has recorded, or that are excused by name
  (held, dropped and counted, lost in memory, ignored or unstorable), plus what
  the limiter holds, what threads have in hand and what a restart took from
  limiter and hands (`CountIsAccountedFor`). A payload posted twice is counted
  twice by the owner: that is `StoredOnce`, which fails (section 5).
* **Inputs and limiter.** However a process started, a failure is captured once,
  by its line or by its structured input, and a failure of the alert path's
  hooks never; only a Celery task's is captured by both (`OnceButForTasks`);
  every occurrence captured is told, held or lost outside the limiter
  (`NothingForgotten`).
* **Grouping.** No bug opens two issues (`OneBugOpensOneIssue`), where a bug is
  seen from checkouts that agree in the anchor and behind it; what is filed
  under an issue is near its *first* occurrence by any matcher of lines
  (`NoDrift`, whose reference is any set of pairs of equal lines that come in
  the same order in both traces, and not `SequenceMatcher`), and another message
  on the same shallow stack is another issue (`OtherMessageOtherIssue`).
* **Notifications.** An issue is announced as new once and a fix as refuted once
  by each worker (`RepeatsTellNobody`); of a muted issue only what was begun
  before the mute was put on the row is told, by a person or by the late save of a
  worker that had read it (`MutedIsQuiet`); a true change of rate is heard through
  the thinned rows (`TrueSpikeIsHeard`).
* **Watchdog.** A pass that Prometheus answers closes only what it asked about
  (`AnsweredPassClosesWhatWasAsked`), and an issue whose failure it saw only
  for another subject of the same issue that it asked about and found to be fine
  (`ClosesWhatItSawForAnother`). A check that stays well and is asked about is
  closed in the end (`ExpectedRecoveryCloses`), a blind spot that lasts is filed,
  and filed again after a person closes it (`BlindSpotIsFiled`).

### Bounds, and why they are enough

Two workers or threads make every read-write race of two operations; a third
adds longer chains of the same race (and what survives it is proved for any
number, section 4). Two traces are what grouping needs (one that joins the
other's issue). `Keep = 1` makes the cap bite with the second event;
`store_concurrent` keeps two, so that an erasure has a second row to save when
its first is gone. Erasures count against `MaxEdits`. `BufferMax` of two is the
least in which drop-oldest has a choice, and three payloads are the least that
overflow it (the fourth of `transport_one`, which cannot be encoded, takes the
batch it is in with it). No run has an ignored payload: it differs from an
unstorable one only in that it makes nobody refuse, and `SettledIsStored` is proved
for any. In `transport_backlog` a batch limit of one below a buffer of two stands
for 100 below 500.
With `BufferMax = 1` and a batch limit of two, the two threads of
`reporter_whole` meet in batches, refusals and drops. `Attempts = 2` has a
retry to exhaust. `FallbackAfter = 1` separates "down", "due" and "again". The
two worlds of the channel are one way each through `ViaLibrary` and
`ViaBotApi`; in the second the host's callable hears nothing. Four failures let
two threads meet in the limiter and one of them fail again in its hooks. In
`reporter_whole` three failures are the least with which an event carries one
that was suppressed, and two payloads the least with which that event is the
second, behind one that waits; `BufferMax = 1` then drops one of the two.
Two workers and two edits let both read a row that is fixed or muted before
either commits; two levels let one of them be quiet. Four
arrivals make a chain of three near-duplicates and one more; two `Candidates`
are fewer than the issues that may be open; thirteen occurrences have the shapes
of `tests/traces.py`, and the deep stack the tests do not have. Traces stay
under the 200 lines from which `SequenceMatcher` drops frequent lines. A window
of two ticks lets a thread read a clock that is one window old. Three changes
let a target fail, be filed, be edited by a person or redeployed away, and
recover; two targets are the least that may share an issue. A heartbeat is asked
for as a metric is, so `watchdog_pass` has the metric only; the theorems are for
any heartbeats. Two edits per run fix an issue and touch it again. `stored` stops at
two and `dropped` at `MaxDropped`: no property distinguishes more. In
`store_serial` the warning is kept for no tick and the error for one, so that
within two ticks a sweep deletes events, then issues. `MaxTime` bounds clocks
that the code never resets; liveness properties are stated so that the end of
time is a state like any other (`ClosedGoesAway` speaks of issues last seen
before `MaxTime - Longest`).

`CHECK_DEADLOCK FALSE` appears in `inputs_wiring` (a process that meets no more
failures within the bound), in `grouping_rule` (no more arrivals) and in
`notify_hooks` and `notify_spike` (a store with no more occurrences has nothing
to tell). Workers and threads are
interchangeable, so runs of safety with two of them use symmetry.

### Fairness

* `AlertStore!FairSpec`: a request that runs goes on (no step waits for another
  worker beyond a commit), time passes, and the host's scheduler starts the
  sweep again and again, strongly fair since a worker is busy in between.
* `Transport!FairSpec`: a thread inside `_report` goes on, because every POST
  has `TIMEOUT_SECONDS` and the backoff list is finite. `BusySpec` adds that the
  service keeps capturing: the code looks at its backlog and at the outage clock
  only inside a capture, so without it nothing is promised (see section 5).
* `Watchdog!FairSpec`: the beat entry starts passes, and every query has a
  timeout. Nothing is assumed of the world, the settings or the people.

## 4. What is proved

A run shows a property on a small instance; a theorem states it for every value
of the constants that the module's named assumptions allow (naturals where the
code has naturals, finitely many traces or threads, model values that are not
what they stand beside). Every safety property a passing run checks is proved,
`OutboxHolds` in two parts (below), and so are the type invariants of `Notify`,
`Watchdog` and `Transport`, which no run repeats.
Each proof goes by an inductive invariant,
which TLC checked on a run's constants before it was proved.

| Module | Theorem | Statement | Beyond the assumptions |
|---|---|---|---|
| `AlertStore_proofs` | `Typing` | `[]TypeOK` | |
| | `Soundness` | `[]StoreInv` | |
| | `DeadlinesBelongToMutes` | `[]DeadlineOnlyWhileMuted` | |
| | `RegressionsHaveEvidence` | `[]RegressedOnEvidence` | |
| | `CountsAreNeverInvented` | `[]CountNeverInvented` | |
| | `SamplesAreCapped` | `[]EventsCapped` | |
| | `ErasuresForget` | `DoneErasureForgets` | |
| | `OpenedOnce` | `[]OpenedOncePerLife` | |
| | `FixesRefuted` | `[]OneRegressionPerFixAndWorker` | |
| `SerialStore_proofs` | `PromiseKept` | `KeepsPromise` (implements `IssueLifecycle`) | one worker |
| | `CountIsFact` | `[]CountIsTheFact` | one worker |
| | `OpenStays` | `OpenNeverSwept` | one worker |
| | `GaugesTold` | `[]KnownGaugesTrue` | one worker that does not crash |
| | `FixesRefutedOnce` | `[]OneRegressionPerFix` | one worker |
| | `SampleIsPart` | `[]SampleWithinCount` | one worker |
| | `SampleCovered` | `[]IssueCoversSample` | one worker |
| `Transport_proofs` | `Typing` | `[]TypeOK` | |
| | `Bounded` | `[]HeldBounded` | |
| | `ExactlyOnce` | `[]HeldExactlyOnce` | |
| | `Settled` | `[]SettledIsStored` | |
| | `HeldOn` | `HeldUntilDelivered` | every context can be encoded |
| | `TopicHonoured` | `TopicIsHonoured` | |
| | `OneThreadIsAMailbox` | `IsMailbox` (implements `Mailbox`) | one thread |
| `Capture_proofs` | `Typing` | `[]TypeOK` | |
| | `Conservation` | `[]NothingForgotten` | |
| | `Flood` | `[]FloodIsBounded` | |
| `Reporter_proofs` | `InputsTyping` | `[]InputsTypeOK` | |
| | `InputsDriveCapture` | `SpecInputs => Spec` | |
| | `FailureOnce` | `[]OnceButForTasks` | |
| | `ReporterIsInputs` | `SpecReporter => SpecInputs` | |
| | `ReporterIsOutbox` | `SpecReporter => Outbox!Spec` | |
| | `CountAccounted` | `[]CountIsAccountedFor` | |
| `Watchdog_proofs` | `Typing` | `[]TypeOK` | |
| | `ClosesWhatWasAsked` | `AnsweredPassClosesWhatWasAsked` | a metric or a heartbeat to ask about |
| | `ClosesForAnother` | `ClosesWhatItSawForAnother` | the same |
| `Notify_proofs` | `Typing` | `[]TypeOK` | |
| | `Repeats` | `[]RepeatsTellNobody` | |
| | `MuteIsKept` | `MutedIsQuiet` | |
| | `SpikesAreHeard` | `TrueSpikeIsHeard` | `Keep = 0` or `Keep >= Minimum` |
| `Grouping_proofs` | `FingerprintOpensOnce` | `[]OnePerFingerprint` | |
| | `FiledBesideFirst` | `[]FilesAreKept` | |
| | `OneIssuePerBug` | `[]OneBugOpensOneIssue` | |
| | `DriftsNowhere` | `[]NoDrift` | |
| | `OtherMessageStaysApart` | `[]OtherMessageOtherIssue` | |

### The hypotheses

The last column is not a convenience: without it each of these properties is
false, and section 5 says where (two workers, two threads, `Keep` below
`Minimum`, `Unencodable`). A worker that dies between its commit and its refresh
leaves a gauge as it was. A pass with neither metrics nor heartbeats may have no
question to ask: nothing then shows that Prometheus is there, and `up()` alone
may be empty. The defaults keep 50 rows and ask for 20, so `SpikesAreHeard`
applies to them.

### The arguments

**Any number of workers.** None of the properties of the concurrent store is
inductive: a worker that has read a row will write back what it read, so the
property must hold of the copy too, at the moment it is written. `StoreInv` says
that every row is sound *and so is every copy in `txn`*, measured against the
history of its issue. That works because soundness is monotone: `now` and
`recorded` only grow, so a copy that was sound when it was read is sound when it
is written (lemmas `Growth` and `Aging`). The proof then has one step per action:
an action that writes a row writes one computed from a sound row (`Opened`,
`Joined`, `Fixed`, `Patched`), an action that starts a request copies a sound
row, and the others leave rows and copies alone. An erasure replaces an event by
one of the same issue, so `EventsCapped` needs that a set from which one element
goes and to which one comes is no larger. `ErasuresForget` needs `EraseInv`: an
event that names the person, of those the erasure found, is still on its list
(`ErasuresGoOn`); ids are used once (`OwnIds`), so no later event can take the
place of a listed one. `OpenedOnce` counts the workers that have committed an
opening and not told of it yet with the openings told: together they are at most
the rows deleted and the row there is (`OpeningsPaid`). An insert adds to both
sides, since the unique index lets only an absent fingerprint be opened; a delete
moves the row from one term to the other; a late save that brings a row back adds
to the right side alone, and an emission that fails takes from the left.
`FixesRefuted` counts the same way, with one entry of each worker for every fix
(`RegressionsPaid`): the refutations told, the workers that have committed one and
not told of it, and those that may still commit one, which are all workers while
the row is fixed and else those that hold a fixed copy, are together at most the
fixes times the workers. A worker that refutes leaves the row open and has no
fixed copy any more, and only a new fix can give it one: no save of `record()`
leaves "fixed", and an edit that does is a fix.

**One worker.** `SerialCore` says what a read-modify-write relies on: the copy is
the row (`SnapIsCurrent`), an edit's row is there (`EditsFindTheirRow`), the id a
new row will get is no other's (`OwnRowIds`), and what the sweep listed is still
closed (`ListIsClosed`). It is lost as soon as a second worker steps in between,
which is what the runs with two workers show. Above it each property has its own
part: `FixesRefutedOnce` counts the one fact that is due but not yet announced;
`GaugesBetween` says that a gauge is right but for the one refresh under way;
`SampleCounted` bounds, per fingerprint, the occurrences the kept events stand
for, with lemmas on what adding, changing and dropping an event does to that
number. `PromiseKept` maps each step to a step of `IssueLifecycle` or to a stutter.

**Transport.** `OnePlace` says where a payload is: no place holds it twice, no two
places hold it, it is held if and only if one does, and a thread that is past its
batch has an empty one. Draining, pushing back and dropping move it; the lemmas
are about the indices of `Append`, `Head`, `Tail` and `SubSeq`, and about the
cardinality of the set of threads that hold it. `HeldOn` needs nothing of it: no
step but a restart takes a payload from held to anywhere but settled or dropped,
once `PostRaises` cannot happen.
`IsMailbox` follows by a case per action: a push moves the head of the batch
behind the buffer, which changes nothing in `buffer \o batch`. `TopicHonoured` is
a lemma about `Fallback!Lands` alone.

**Limiter.** `NothingForgotten` balances what was announced against what was
told, lost, held in a window and is in the threads' hands, and is inductive with
the types alone. A send carries several occurrences: those in hand are counted as
a set of pairs (`Carrying`), so that the balance is about cardinalities of finite
sets. For `FloodIsBounded` the start of a window pays for the
windows before it: `FloodInv` bounds what was sent by the windows that fit before
the current one's start, and, where there is none, before the time of any thread
that is about to open one, however old its reading of the clock is. Its lemmas are
on quotients (`Quotient`, `BudgetGrows`).
`InputsDriveCapture` is a refinement: every step of the inputs is a step of the
limiter or none.

**Inputs.** A failure is announced by a line and by a structured input, and
`Wired` says for every boot stage which of the two the process hears, or, of a
task's failure, that it may hear both; `Owed` says that what was heard of a
failure and what is still to be heard of it are together what its kind comes to,
as a number.

**The whole reporter.** Each side is refined first: a step of the reporter is a
step of `Inputs` or none (`ReporterIsInputs`), and one of `Transport` or none
(`ReporterIsOutbox`), so that `FailureOnce`, `Conservation` and `Flood` hold of
it as they stand, and what `Transport_proofs` proves of every behaviour of
`Transport` applies to its outbox: `OutboxHolds` is `Bounded`, `ExactlyOnce` and
`Settled` of `Outbox!Spec`. That last step is taken by the reader, since `tlapm`
cites no theorem of a module through `INSTANCE`, and by TLC in `reporter_whole`.
What neither side can say is in `LoadInv`: a payload without a load is not held,
one with a load was captured, one that is settled and storable is recorded, and
per fingerprint the loads of all payloads add up to what the limiter told.
`HandOver` is the step that matters: since a payload without a load is not held,
the payload whose load is written is the one `_report` takes. All other steps of
the outbox go `Onward`: they hold no payload anew, forget none, and settle only
what they record. A payload that is neither counted nor excused then has no
load, so that the sum over those that are is the sum over all (`WholeNumber`),
and `NothingForgotten` gives the rest. Sums are cardinalities of sets of pairs,
as for the limiter, and share its lemmas (`OneCountChanges`).

**Watchdog.** `PassInv` follows a pass: what is still to be asked, what an answer
decided (`AsksInTurn`, `AsksAll`), that everything to be closed was asked for
(`ExpectsWhatWasAsked`, `ClosesTheExpected`), and that nothing seen failing was
dropped from the findings (`KeepsWhatItSaw`). What is closed was expected, so it was
asked for and not found: where the issue is one of something seen failing,
that is another subject of it.

**Notifications.** `Warrants` counts, for each worker, the returns it announced,
those its hooks may still announce, and the one it may still commit (it holds a
fixed copy, or may read one) against the fixes; and the openings announced with
those still due against one, which the unique fingerprint allows. `MuteInv` says
that a call or a hook of an occurrence begun after the mute holds a copy that
knows of it; a save that puts a mute back over a later edit is a mute of that
moment. For `SpikesAreHeard`, `RowInv` says that the rows are all occurrences or
the newest `Keep` by the time their calls began, whatever the order they
committed in (`CappedNewest`), and `ThinnedSpike` is the argument: if the cap
dropped an event of the last hour, then every row is of the last hour, the hour
before looks empty and there are at least `Minimum` rows; else the last hour is
whole and the one before looks no busier than it was. It is also why the
converse fails (`notify_spike`).

**Grouping.** `TrackerInv` says that an issue's fingerprint and frames are those
of its *first* occurrence, that all that is filed there belongs with that one, and
that no two issues share a fingerprint. What remains is about one occurrence or
two, and what the normaliser and the matcher compute from them:

* `SamePrints`: occurrences that differ in values, line numbers and what stands
  above an anchor have the same frames, class and message, so one fingerprint.
* `MessageIsKept`: the last message told in a normalised trace is that of the
  exception that escaped, whatever lines were dropped; frames that are equal have
  equal messages.
* `MatchingIsSound`: what the matcher counts are pairs of equal lines in the same
  order in both traces (`StepPairs`: the pairs of a block come behind those of the
  span before it and ahead of those behind it). So frames that group share lines
  (`GroupedIsNear`), and frames that match in all their lines are the same
  (`MostThatMatch`, by counting: `FullPairs`), which is why a shallow stack groups
  exactly (`ShallowGroupsExactly`).

These are inductions over the lines of a trace and over the size of a span. The
library's induction theorems take a predicate as a parameter, which no installed
prover instantiates; `WFMin`, that a nonempty set has a minimum under a
well-founded relation, takes a set. `AllNaturals` follows from it (a set of
numbers that has 0 and with each number the next is `Nat`), and so does
`Iteration`: a function defined by its next value from its last exists. That is
what lets the recursive functions of the module, which are CHOOSEs, be unfolded
(`LoopRuns`, `MatchExists`).

### What is only model-checked

Liveness (`ClosedGoesAway`, `BacklogIsTold`, `DeadStoreIsHeard`,
`ExpectedRecoveryCloses`, `BlindSpotIsFiled`): it needs `ENABLED`, which the
prover does not have. `OutboxHolds` as a property of `Reporter`, for which the
last step is not the prover's. And what section 5 lists, which is false.

## 5. Where the code and its texts part

Four findings have a run (`PROJECT.json`, "findings"):

* **An open issue can be swept.** A `record()` commits between the sweep's list
  of closed issues and its DELETE by id (`alerts_sweep.py:66-75`).
* **A backlog over 100 is never delivered.** `_report` posts the whole buffer
  (up to 500), the owner refuses more than 100 with a 400. Nor is one with a
  payload the owner refuses, nor one whose payloads are all unstorable or
  ignored, which is answered 422 each time (`views.py:354-360`).
* **Unasked checks are closed.** When Prometheus is silent `collect()` keeps one
  finding, and `close_recovered` takes the absence of the others for recovery.
* **A steady rate is announced as a spike.** `is_spiking` compares the kept
  rows; above `EVENTS_PER_ISSUE` an hour, the previous hour is always empty.

The modules also state what these texts promise, with no run of their own. Each
fails, by TLC, where the table says:

| Property | Text | Fails with |
|---|---|---|
| `SinceIsSinceTheFix` | `models.py`: `count_since_fix` | PATCH to fixed, constants of `store_serial` |
| `GaugeTellsOpen` | `metrics.py:51-53` | constants of `store_serial` |
| `ExpiredMuteTakesNextEvent` | `models.py`: `muted_until` | constants of `store_serial`: two alike traces, an expired mute |
| `OneRegressionPerFix` | `services.py:233-236` | two workers that read one fix: `store_concurrent` |
| `RecordNeverRaises`, `CountIsTheFact`, `KeepsPromise`, `IssueCoversSample` | `services.py` | two workers, one trace, three reports in `store_serial` |
| `SampleWithinCount` | `services.py`: "the events are the sample" | the same with `Keep = 0` |
| `StoredOnce` | `_capture.py`: "so the issue's count stays true" | an answer after the timeout, `transport_one` |
| `RecoveredOwnerIsTold` | `transport.py:15-16` | `transport_one` as it stands (`Invalid = {b}`), and with `Invalid = {}`, two unstorable payloads and `BufferMax = 1`, `MaxBatch = 2` |
| `HeldUntilDelivered` | `transport.py:15-17`; `_post`: "Never raises" | `transport_one` (`Unencodable = {d}`): `json.dumps` stands outside of any try, after the drain, so the payload and all that was held are gone and not counted |
| `IsMailbox` | `transport.py`: drop-oldest | two threads in `transport_one` |
| `DeadStoreIsHeard` | `transport.py` | `FairSpec` instead of `BusySpec` |
| `CountStaysTrue`, `TailIsTold` | `_capture.py`, `conf.py:55-58` | `inputs_wiring`: a send that is lost; the end of a burst, with `MaxTime = 4` |
| `ShortMatchesExactly` | `README.md:114`: a short trace "groups only on an exact match" | `grouping_rule`: two short traces with the same top frame, class and message share a fingerprint, which comes first |
| `OtherMessageOtherIssue` without `Shallow` | `README.md:120`, `normalise.py:289-294` | `grouping_rule`: from ten normalised lines on, one line that differs is above 0.9 |
| `RecoveryIsSeen` | `monitoring.py:213` | a target that goes from down to missing |
| `RecoveryCloses` | `monitoring.py` | `Silences` not empty |
| `NeverClosesWhatItSaw` | `monitoring.py:57-59`: an issue is one check and one target | `watchdog_pass`: `normalise_line` folds `svc-1` and `svc-2` (`monitoring.py:363`); the one that is up closes the issue of the one that is down |
| one "regressed" message for each fix | `notify.py:12` | `notify_hooks`: two workers read the row before either commits (`services.py:199-246`) |
| `TrueSpikeIsHeard` | `notify.py` | `Keep` below `Minimum` |

Read in the code while modelling, and stated by no property of its own:

* A Celery task that fails opens two issues: one by `on_task_failure`
  (`inputs.py:199`) and one by the line of `celery.app.trace`, which neither
  `LOG_EXCLUDE` (`conf.py:54`) nor the superseded loggers (`inputs.py:36-39`)
  name. `OnceButForTasks` says so.
* `README.md:108-109` has fingerprints survive another checkout. They survive what
  stands above an anchor, which is kept (`normalise.py:189-193`): `/srv` against
  `/app`, and `/home/alice` against `/home/bob`, are two issues each.
* An erasure covers what names the person when it begins: a report that was in a
  reporter's buffer, recorded afterwards, brings the link back; one that meets a
  deleted row raises and leaves the rest linked until it is asked again; an
  event without a `user_id` whose context names the person is not scrubbed.
* A log line with `exc_info` is fingerprinted by the caller's message: two
  exceptions of one class logged by one `logger.exception("...")` are one issue.
* A near-duplicate of a muted issue opens a new one, and `_candidates`, "recent
  OPEN issues", includes fixed ones.
* `apps.py` says each connector is settings-gated, and `inputs.py` that the host
  may disable the log handler: the handler and `wrap_deliver_to_subscribers` have
  no switch, and with `CAPTURE_DLQ` off the line of a park stays superseded, so
  that nobody reports it. `OnceButForTasks` takes the switch for the kind's.
* The wrapped `deliver_to_subscribers` is seen by callers that look it up in its
  module; one that imported the name before startup keeps the original, and its
  line is superseded all the same.

## 6. Not modelled

* The regular expressions of `normalise.py`: which token of a text is an id, a
  uuid or a time. `Grouping` takes a text as a shape and a value and models what
  is done with the result; `title_for` is left out.
* `ignore.py`, `bounds.py`: pure functions on text. Their results are constants
  (`Ignored`, `Invalid`, `Unstorable`).
* `sentry.py` beyond the id it returns; the context, request path and user an
  input puts into a payload; `record()`'s own row when a caller rolls back.
* The counter `alerts_new_total`; list views, ETags, pagination; `export`;
  descriptive columns of an issue; `--dry-run`; settings, checks, admin pages,
  generated contracts.

## 7. Plan

All components with state of their own are modelled, the reporter's are composed
from the failure to the owner's count, and the safety properties of the runs are
proved. What is left:

1. `AlertStore` as the end of that pipeline: the owner's `stored` is a record per
   payload here, and `AlertStore` says what concurrent `record()`s make of it.
2. What the concurrent store still promises of the gauges and of the sweep, as
   weaker properties that survive two workers. That an opening is announced once
   is one such property (`OpenedOncePerLife`).
3. An identity of payloads, if the code gets one: `StoredOnce` then becomes a
   property to prove.

## 8. Running

    tlc -workers 2 -config MCAlertStore_serial.cfg MCAlertStore.tla
    tlapm AlertStore_proofs.tla

and so for every other configuration and every module named `..._proofs`.
