--------------------------- MODULE AlertStore_proofs ---------------------------
(***************************************************************************)
(* Theorems about the tracker for every set of workers, every similarity   *)
(* between traces and every bound.                                         *)
(***************************************************************************)
EXTENDS AlertStore, FiniteSetTheorems, TLAPS

USE DEF Levels

-----------------------------------------------------------------------------
(* Requests and rows                                                       *)

\* A worker's request is one of the kind its op names.
LEMMA Kinds ==
  ASSUME NEW r \in Request
  PROVE  /\ r.op = "record" => r \in RecordRequest
         /\ r.op = "fix" => r \in FixRequest
         /\ r.op = "patch" => r \in PatchRequest
         /\ r.op \in {"sweep cap", "sweep list"} => r.asOf \in Nat
         /\ r.op = "sweep delete" => r.ids \in SUBSET Nat
         /\ r.op = "erase" => r \in Erasure
         /\ r.op = "after" => r \in After
<1>1. CASE r = Idle
  BY <1>1 DEF Idle
<1>2. CASE r \in RecordRequest
  BY <1>2 DEF RecordRequest
<1>3. CASE r \in FixRequest
  BY <1>3 DEF FixRequest
<1>4. CASE r \in PatchRequest
  BY <1>4 DEF PatchRequest
<1>5. CASE r \in Sweep
  BY <1>5 DEF Sweep
<1>6. CASE r \in After
  BY <1>6 DEF After
<1>7. CASE r \in Erasure
  BY <1>7 DEF Erasure
<1> QED
  BY <1>1, <1>2, <1>3, <1>4, <1>5, <1>6, <1>7 DEF Request

\* What a worker is in the middle of is a request.
LEMMA RequestTyped ==
  ASSUME TypeOK, NEW w \in Workers
  PROVE  txn[w] \in Request
BY DEF TypeOK

\* Whatever a worker goes on with, it goes on with a request.
LEMMA TxnTyped ==
  ASSUME TypeOK, NEW w, NEW r \in Request, txn' = [txn EXCEPT ![w] = r]
  PROVE  txn' \in [Workers -> Request]
BY DEF TypeOK

\* So is being idle.
LEMMA IdleRequest == Idle \in Request
BY DEF Request

\* So is what is left to do after a commit.
LEMMA AfterRequest ==
  ASSUME NEW f \in Traces, NEW fact \in {"opened", "regressed", "none"}
  PROVE  [op |-> "after", target |-> f, fact |-> fact] \in Request
BY DEF Request, After

\* record() writes a row: the one it opens or the one it joins.
LEMMA OpenedTyped ==
  ASSUME NEW r \in RecordRequest
  PROVE  Opened(r) \in Row
BY StoreAssumption DEF RecordRequest, Opened, Row, Statuses, Times

\* The row record() saves over the one it read is a row.
LEMMA JoinedTyped ==
  ASSUME NEW r \in RecordRequest, r.snap # NoRow
  PROVE  Joined(r) \in Row
<1>1. r.snap \in Row
  BY DEF RecordRequest
<1>2. /\ r.n \in Nat /\ r.at \in Nat /\ r.occurred \in Nat /\ r.level \in Levels
  BY StoreAssumption DEF RecordRequest
<1>3. /\ (r.snap.count + r.n) \in Nat
      /\ (r.snap.since + r.n) \in Nat
      /\ Larger(r.snap.last, r.occurred) \in Nat
      /\ Smaller(r.snap.first, r.occurred) \in Nat
  BY <1>1, <1>2 DEF Row, Larger, Smaller
<1>4. Larger(r.snap.level, r.level) \in Levels
  BY <1>1, <1>2 DEF Row, Larger
<1>5. /\ StatusAfter(r) \in Statuses
      /\ (IF Refutes(r) THEN r.at ELSE r.snap.regressedAt) \in Times
      /\ (IF Unmutes(r) THEN NoTime ELSE r.snap.mutedUntil) \in Times
  BY <1>1, <1>2 DEF Row, Statuses, Times, StatusAfter
<1> QED
  BY <1>1, <1>3, <1>4, <1>5, Zenon DEF Joined, Row

\* The event record() stores is an event.
LEMMA EventTyped ==
  ASSUME NEW r \in RecordRequest
  PROVE  EventRow(r) \in Event
BY DEF RecordRequest, EventRow, Event

\* mark_fixed leaves a row.
LEMMA FixedTyped ==
  ASSUME NEW row \in Row, now \in Nat
  PROVE  Fixed(row) \in Row
BY DEF Row, Fixed, Statuses, Times

\* set_status leaves a row.
LEMMA PatchedTyped ==
  ASSUME NEW row \in Row, NEW r \in PatchRequest
  PROVE  Patched(row, r) \in Row
BY DEF Row, Patched, PatchRequest, Statuses, Settable, Times

\* One entry of the history changes, to a history.
LEMMA HistoryTyped ==
  ASSUME TypeOK, NEW f \in Traces, NEW h \in History, hist' = [hist EXCEPT ![f] = h]
  PROVE  hist' \in [Traces -> History]
BY DEF TypeOK

\* Every count of the history that goes up leaves a history.
LEMMA Tallied ==
  ASSUME NEW h \in History, NEW n \in Nat, NEW m \in Nat
  PROVE  /\ [h EXCEPT !.recorded = @ + n] \in History
         /\ [h EXCEPT !.raised = @ + n] \in History
         /\ [h EXCEPT !.swept = @ + n, !.deleted = @ + 1] \in History
         /\ [h EXCEPT !.openedFacts = @ + 1] \in History
         /\ [h EXCEPT !.regressedFacts = @ + 1] \in History
         /\ [h EXCEPT !.fixes = @ + n, !.asOfFix = m] \in History
<1>1. /\ h.recorded + n \in Nat /\ h.raised + n \in Nat /\ h.swept + n \in Nat
      /\ h.deleted + 1 \in Nat /\ h.openedFacts + 1 \in Nat /\ h.regressedFacts + 1 \in Nat
      /\ h.fixes + n \in Nat
  BY DEF History
<1>2. [h EXCEPT !.recorded = @ + n] \in History
  BY <1>1, Zenon DEF History
<1>3. [h EXCEPT !.raised = @ + n] \in History
  BY <1>1, Zenon DEF History
<1>4. [h EXCEPT !.swept = @ + n, !.deleted = @ + 1] \in History
  BY <1>1, Zenon DEF History
<1>5. [h EXCEPT !.openedFacts = @ + 1] \in History
  BY <1>1, Zenon DEF History
<1>6. [h EXCEPT !.regressedFacts = @ + 1] \in History
  BY <1>1, Zenon DEF History
<1>7. [h EXCEPT !.fixes = @ + n, !.asOfFix = m] \in History
  BY <1>1, Zenon DEF History
<1> QED
  BY <1>2, <1>3, <1>4, <1>5, <1>6, <1>7

\* A fix is counted, and when it was made noted.
LEMMA FixTallied ==
  ASSUME TypeOK, NEW f \in Traces, NEW n \in Nat, NEW m \in Nat,
         hist' = [hist EXCEPT ![f].fixes = @ + n, ![f].asOfFix = m]
  PROVE  hist' \in [Traces -> History]
<1>1. hist[f] \in History
  BY DEF TypeOK
<1>2. [hist[f] EXCEPT !.fixes = @ + n, !.asOfFix = m] \in History
  BY <1>1, Tallied
<1>3. hist' = [hist EXCEPT ![f] = [hist[f] EXCEPT !.fixes = @ + n, !.asOfFix = m]]
  BY DEF TypeOK
<1> QED
  BY <1>2, <1>3, HistoryTyped

\* What the cap leaves is part of what there was.
LEMMA CappedSubset ==
  ASSUME NEW f, NEW S, NEW kept \in Capped(f, S)
  PROVE  kept \subseteq S
BY DEF Capped, Newest

\* The gauges are counts.
LEMMA GaugesTyped ==
  ASSUME TypeOK, RefreshGauges
  PROVE  gauge' \in [Levels -> Nat]
<1>1. \A l \in Levels : Cardinality(OpenAt(l)) \in Nat
  <2> TAKE l \in Levels
  <2>1. OpenAt(l) \subseteq Traces
    BY DEF OpenAt, Rows
  <2> QED
    BY <2>1, StoreAssumption, FS_Subset, FS_CardinalityType
<1> QED
  BY <1>1 DEF TypeOK, RefreshGauges

-----------------------------------------------------------------------------
(* Type correctness                                                        *)

\* The empty tracker is well typed.
LEMMA InitTyped == Init => TypeOK
BY StoreAssumption DEF Init, TypeOK, Idle, Request, NoHistory, History

\* An occurrence belongs to the issue of some trace, its own or another.
LEMMA FoundIsTrace ==
  ASSUME NEW t \in Traces, NEW f \in FindIssue(t)
  PROVE  f \in Traces
<1>1. CASE t \in Rows
  BY <1>1 DEF FindIssue
<1>2. CASE t \notin Rows
  <2>1. PICK W \in Windows : f \in IF BestOf(t, W) = {} THEN {t} ELSE BestOf(t, W)
    BY <1>2 DEF FindIssue
  <2>2. BestOf(t, W) \subseteq Traces
    <3>1. BestOf(t, W) \subseteq W
      BY DEF BestOf
    <3>2. W \subseteq Traces
      BY DEF Windows, Searchable, Rows
    <3> QED
      BY <3>1, <3>2
  <2> QED
    BY <2>1, <2>2
<1> QED
  BY <1>1, <1>2

\* The read of record() keeps every type.
LEMMA RecordReadTyped ==
  ASSUME TypeOK, NEW w \in Workers, RecordRead(w)
  PROVE  TypeOK'
<1>1. PICK t \in Traces, n \in Occurrences, l \in Levels, u \in Users :
        \E occurred \in {x \in 0 .. now : now - x <= MaxDelay}, f \in FindIssue(t) :
         Begin(w, [op |-> "record", id |-> spent.reports + 1, target |-> f,
                   n |-> n, level |-> l, user |-> u, at |-> now,
                   occurred |-> occurred, snap |-> issues[f]])
  BY DEF RecordRead
<1>2. PICK occurred \in 0 .. now, f \in FindIssue(t) :
         Begin(w, [op |-> "record", id |-> spent.reports + 1, target |-> f,
                   n |-> n, level |-> l, user |-> u, at |-> now,
                   occurred |-> occurred, snap |-> issues[f]])
  BY <1>1
<1>3. f \in Traces
  BY FoundIsTrace
<1>4. [op |-> "record", id |-> spent.reports + 1, target |-> f,
       n |-> n, level |-> l, user |-> u, at |-> now,
       occurred |-> occurred, snap |-> issues[f]] \in Request
  BY <1>3, <1>2 DEF TypeOK, Request, RecordRequest
<1>5. txn' \in [Workers -> Request]
  BY <1>2, <1>4, TxnTyped DEF Begin
<1>6. spent' \in [reports: Nat, edits: Nat, crashes: Nat]
  BY DEF TypeOK, RecordRead
<1> QED
  BY <1>5, <1>6 DEF TypeOK, RecordRead

\* Its write and commit do.
LEMMA RecordWriteTyped ==
  ASSUME TypeOK, NEW w \in Workers, RecordWrite(w)
  PROVE  TypeOK'
<1> DEFINE r == txn[w]
           f == r.target
<1>1. r \in RecordRequest
  BY Kinds, RequestTyped DEF RecordWrite
<1>2. f \in Traces /\ r.n \in Nat \ {0}
  BY <1>1, StoreAssumption DEF RecordRequest
<1> HIDE DEF r, f
<1>3. issues' \in [Traces -> Row \cup {NoRow}]
  <2>1. issues' = [issues EXCEPT ![f] = IF r.snap = NoRow THEN Opened(r) ELSE Joined(r)]
    BY DEF RecordWrite, r, f
  <2>2. (IF r.snap = NoRow THEN Opened(r) ELSE Joined(r)) \in Row
    BY <1>1, OpenedTyped, JoinedTyped
  <2> QED
    BY <2>1, <2>2 DEF TypeOK
<1>4. events' \subseteq Event
  <2>1. PICK kept \in Capped(f, EventsOf(f) \cup {EventRow(r)}) :
          events' = (events \ EventsOf(f)) \cup kept
    BY DEF RecordWrite, r, f
  <2>2. kept \subseteq events \cup {EventRow(r)}
    BY CappedSubset DEF EventsOf
  <2> QED
    BY <1>1, <2>1, <2>2, EventTyped DEF TypeOK
<1>5. txn' \in [Workers -> Request]
  <2>1. Fact(r) \in {"opened", "regressed", "none"}
    BY DEF Fact
  <2>2. txn' = [txn EXCEPT ![w] = [op |-> "after", target |-> f, fact |-> Fact(r)]]
    BY DEF RecordWrite, Committed, r, f
  <2> QED
    BY <1>2, <2>1, <2>2, AfterRequest, TxnTyped
<1>6. hist' \in [Traces -> History]
  <2>1. hist' = [hist EXCEPT ![f].recorded = @ + r.n]
    BY DEF RecordWrite, r, f
  <2>2. [hist[f] EXCEPT !.recorded = @ + r.n] \in History
    BY <1>2, Tallied DEF TypeOK
  <2> QED
    BY <1>2, <2>1, <2>2, HistoryTyped
<1> QED
  BY <1>3, <1>4, <1>5, <1>6 DEF TypeOK, RecordWrite

\* So does the rollback.
LEMMA RecordRaiseTyped ==
  ASSUME TypeOK, NEW w \in Workers, RecordRaise(w)
  PROVE  TypeOK'
<1> DEFINE r == txn[w]
           f == r.target
<1>1. r \in RecordRequest
  BY Kinds, RequestTyped DEF RecordRaise
<1>2. f \in Traces /\ r.n \in Nat
  BY <1>1, StoreAssumption DEF RecordRequest
<1>3. hist' = [hist EXCEPT ![f].raised = @ + r.n]
  BY DEF RecordRaise
<1>4. hist' \in [Traces -> History]
  <2> HIDE DEF r, f
  <2>1. [hist[f] EXCEPT !.raised = @ + r.n] \in History
    BY <1>2, Tallied DEF TypeOK
  <2> QED
    BY <1>2, <1>3, <2>1, HistoryTyped
<1>5. txn' \in [Workers -> Request]
  BY IdleRequest, TxnTyped DEF RecordRaise, Finish
<1> QED
  BY <1>4, <1>5 DEF TypeOK, RecordRaise

\* The read of a fix keeps every type.
LEMMA FixReadTyped ==
  ASSUME TypeOK, NEW w \in Workers, FixRead(w)
  PROVE  TypeOK'
<1>1. PICK f \in Rows : Begin(w, [op |-> "fix", target |-> f, id |-> issues[f].id])
  BY DEF FixRead
<1>2. [op |-> "fix", target |-> f, id |-> issues[f].id] \in Request
  BY DEF TypeOK, Rows, Row, Request, FixRequest
<1>3. txn' \in [Workers -> Request]
  BY <1>1, <1>2, TxnTyped DEF Begin
<1>4. spent' \in [reports: Nat, edits: Nat, crashes: Nat]
  BY DEF TypeOK, FixRead
<1> QED
  BY <1>3, <1>4 DEF TypeOK, FixRead

\* Its write does.
LEMMA FixWriteTyped ==
  ASSUME TypeOK, NEW w \in Workers, FixWrite(w)
  PROVE  TypeOK'
<1> DEFINE f == txn[w].target
<1>1. f \in Traces
  BY Kinds, RequestTyped DEF FixWrite, FixRequest
<1>2. issues[f] \in Row
  BY <1>1 DEF FixWrite, StillThere, Rows, TypeOK
<1>3. /\ issues' = [issues EXCEPT ![f] = Fixed(@)]
      /\ hist' = [hist EXCEPT ![f].fixes = @ + 1, ![f].asOfFix = hist[f].recorded]
      /\ txn' = [txn EXCEPT ![w] = [op |-> "after", target |-> f, fact |-> "none"]]
  BY DEF FixWrite, Committed
<1> HIDE DEF f
<1>4. issues' \in [Traces -> Row \cup {NoRow}]
  BY <1>1, <1>2, <1>3, FixedTyped DEF TypeOK
<1>5. hist' \in [Traces -> History]
  <2>1. hist[f].recorded \in Nat
    BY <1>1 DEF TypeOK, History
  <2> QED
    BY <1>1, <1>3, <2>1, FixTallied
<1>6. txn' \in [Workers -> Request]
  BY <1>1, <1>3, AfterRequest, TxnTyped
<1> QED
  BY <1>4, <1>5, <1>6 DEF TypeOK, FixWrite

\* The read of a PATCH keeps every type.
LEMMA PatchReadTyped ==
  ASSUME TypeOK, NEW w \in Workers, PatchRead(w)
  PROVE  TypeOK'
<1>1. PICK f \in Rows, s \in Settable \cup {"same"}, note \in Notes \cup {NoNote},
           until \in 0 .. MaxTime \cup {NoTime} :
        Begin(w, [op |-> "patch", target |-> f, id |-> issues[f].id,
                  status |-> s, until |-> until,
                  note |-> IF note = NoNote THEN issues[f].note ELSE note])
  BY DEF PatchRead
<1>2. f \in Traces /\ issues[f].id \in Nat /\ issues[f].note \in Notes \cup {EmptyNote}
  BY DEF TypeOK, Rows, Row
<1>3. until \in Times
  BY StoreAssumption DEF Times
<1>4. [op |-> "patch", target |-> f, id |-> issues[f].id,
       status |-> s, until |-> until,
       note |-> IF note = NoNote THEN issues[f].note ELSE note] \in Request
  BY <1>2, <1>3 DEF Request, PatchRequest
<1>5. txn' \in [Workers -> Request]
  BY <1>1, <1>4, TxnTyped DEF Begin
<1>6. spent' \in [reports: Nat, edits: Nat, crashes: Nat]
  BY DEF TypeOK, PatchRead
<1> QED
  BY <1>5, <1>6 DEF TypeOK, PatchRead

\* Its write does.
LEMMA PatchWriteTyped ==
  ASSUME TypeOK, NEW w \in Workers, PatchWrite(w)
  PROVE  TypeOK'
<1> DEFINE r == txn[w]
           f == r.target
           closes == r.status = "fixed" /\ issues[f].status # "fixed"
<1>1. r \in PatchRequest
  BY Kinds, RequestTyped DEF PatchWrite
<1>2. f \in Traces
  BY <1>1 DEF PatchRequest
<1>3. issues[f] \in Row
  BY <1>2 DEF PatchWrite, StillThere, Rows, TypeOK
<1>4. /\ issues' = [issues EXCEPT ![f] = Patched(@, r)]
      /\ hist' = [hist EXCEPT ![f].fixes = @ + (IF closes THEN 1 ELSE 0),
                              ![f].asOfFix = IF closes THEN hist[f].recorded ELSE @]
  BY DEF PatchWrite
<1>5. txn' \in [Workers -> Request]
  BY <1>2, AfterRequest, IdleRequest, TxnTyped DEF PatchWrite, Finish, Committed
<1> HIDE DEF r, f, closes
<1>6. issues' \in [Traces -> Row \cup {NoRow}]
  BY <1>1, <1>2, <1>3, <1>4, PatchedTyped DEF TypeOK
<1>7. hist' \in [Traces -> History]
  <2>1. /\ (IF closes THEN 1 ELSE 0) \in Nat
        /\ (IF closes THEN hist[f].recorded ELSE hist[f].asOfFix) \in Nat
    BY <1>2 DEF TypeOK, History
  <2>2. hist' = [hist EXCEPT ![f].fixes = @ + (IF closes THEN 1 ELSE 0),
                             ![f].asOfFix = IF closes THEN hist[f].recorded
                                                      ELSE hist[f].asOfFix]
    BY <1>2, <1>4 DEF TypeOK
  <2> QED
    BY <1>2, <2>1, <2>2, FixTallied
<1> QED
  BY <1>5, <1>6, <1>7 DEF TypeOK, PatchWrite

\* The steps of the sweep before its DELETE keep every type.
LEMMA SweepTyped ==
  ASSUME TypeOK, NEW w \in Workers,
         SweepExpired(w) \/ SweepOverCap(w) \/ SweepList(w)
  PROVE  TypeOK'
<1>1. CASE SweepExpired(w)
  <2>1. [op |-> "sweep cap", asOf |-> now] \in Request
    BY DEF TypeOK, Request, Sweep
  <2> QED
    BY <1>1, <2>1, TxnTyped DEF SweepExpired, Begin, TypeOK
<1>2. CASE SweepOverCap(w)
  <2>1. [op |-> "sweep list", asOf |-> txn[w].asOf] \in Request
    BY <1>2, Kinds, RequestTyped DEF SweepOverCap, Request, Sweep
  <2>2. events' \subseteq events
    BY <1>2 DEF SweepOverCap
  <2> QED
    BY <1>2, <2>1, <2>2, TxnTyped DEF SweepOverCap, Begin, TypeOK
<1>3. CASE SweepList(w)
  <2>1. {issues[f].id : f \in Swept(txn[w].asOf)} \in SUBSET Nat
    BY DEF Swept, Rows, TypeOK, Row
  <2>2. [op |-> "sweep delete", ids |-> {issues[f].id : f \in Swept(txn[w].asOf)}]
          \in Request
    BY <2>1 DEF Request, Sweep
  <2> QED
    BY <1>3, <2>2, TxnTyped DEF SweepList, Begin, TypeOK
<1> QED
  BY <1>1, <1>2, <1>3

\* The DELETE of the sweep keeps every type.
LEMMA SweepDeleteTyped ==
  ASSUME TypeOK, NEW w \in Workers, SweepDelete(w)
  PROVE  TypeOK'
<1> DEFINE gone == {f \in Rows : issues[f].id \in txn[w].ids}
<1>1. /\ issues' = [f \in Traces |-> IF f \in gone THEN NoRow ELSE issues[f]]
      /\ hist' = [f \in Traces |-> IF f \in gone
                    THEN [hist[f] EXCEPT !.swept = @ + issues[f].count, !.deleted = @ + 1]
                    ELSE hist[f]]
      /\ events' \subseteq events
      /\ txn' = [txn EXCEPT ![w] = [op |-> "after sweep"]]
  BY DEF SweepDelete
<1>2. \A f \in gone : f \in Traces /\ issues[f].count \in Nat
  BY DEF Rows, TypeOK, Row
<1> HIDE DEF gone
<1>3. issues' \in [Traces -> Row \cup {NoRow}]
  BY <1>1 DEF TypeOK
<1>4. hist' \in [Traces -> History]
  <2>1. \A f \in gone :
          [hist[f] EXCEPT !.swept = @ + issues[f].count, !.deleted = @ + 1] \in History
    BY <1>2, Tallied DEF TypeOK
  <2> QED
    BY <1>1, <2>1 DEF TypeOK
<1>5. txn' \in [Workers -> Request]
  BY <1>1, TxnTyped DEF Request, Sweep
<1> QED
  BY <1>1, <1>3, <1>4, <1>5 DEF TypeOK, SweepDelete

\* The steps of an erasure keep every type.
LEMMA EraseTyped ==
  ASSUME TypeOK, NEW w \in Workers,
         EraseList(w) \/ EraseRow(w) \/ EraseEnd(w) \/ EraseMissed(w)
  PROVE  TypeOK'
<1>1. CASE EraseList(w)
  <2>1. PICK u \in Subjects :
          Begin(w, [op |-> "erase", user |-> u, todo |-> Listed(u),
                    had |-> {e.id : e \in Naming(u)}])
    BY <1>1 DEF EraseList
  <2>2. {e.id : e \in Naming(u)} \in SUBSET Nat
    BY DEF Naming, TypeOK, Event
  <2>3. [op |-> "erase", user |-> u, todo |-> Listed(u),
         had |-> {e.id : e \in Naming(u)}] \in Request
    BY <2>2 DEF Request, Erasure, Listed
  <2>4. spent' \in [reports: Nat, edits: Nat, crashes: Nat]
    BY <1>1 DEF EraseList, TypeOK
  <2>5. txn' \in [Workers -> Request]
    BY <2>1, <2>3, TxnTyped DEF Begin
  <2> QED
    BY <1>1, <2>4, <2>5 DEF EraseList, TypeOK
<1>2. CASE EraseRow(w)
  <2>1. PICK e \in events :
          /\ events' = (events \ {e}) \cup {Forgotten(e)}
          /\ txn' = [txn EXCEPT ![w] = [txn[w] EXCEPT !.todo = @ \ {e.id}]]
    BY <1>2 DEF EraseRow, Begin
  <2>2. Forgotten(e) \in Event
    BY DEF TypeOK, Event, Forgotten
  <2>3. txn[w] \in Erasure
    BY <1>2, Kinds, RequestTyped DEF EraseRow
  <2>4. [txn[w] EXCEPT !.todo = @ \ {e.id}] \in Request
    BY <2>3 DEF Erasure, Request
  <2> QED
    BY <1>2, <2>1, <2>2, <2>4, TxnTyped DEF EraseRow, TypeOK
<1>3. CASE EraseEnd(w) \/ EraseMissed(w)
  BY <1>3, IdleRequest, TxnTyped DEF EraseEnd, EraseMissed, Finish, TypeOK
<1> QED
  BY <1>1, <1>2, <1>3

\* What runs after a commit keeps every type, and so does a crash.
LEMMA AfterTyped ==
  ASSUME TypeOK, NEW w \in Workers, AfterCommit(w) \/ AfterSweep(w)
  PROVE  TypeOK'
<1>1. gauge' \in [Levels -> Nat] /\ txn' \in [Workers -> Request]
  BY GaugesTyped, IdleRequest, TxnTyped DEF AfterCommit, AfterSweep, Finish
<1>2. CASE AfterSweep(w)
  BY <1>1, <1>2 DEF AfterSweep, TypeOK
<1>3. CASE AfterCommit(w)
  <2>1. txn[w].target \in Traces
    BY <1>3, Kinds, RequestTyped DEF AfterCommit, After
  <2>2. hist' \in [Traces -> History]
    <3>1. hist[txn[w].target] \in History
      BY <2>1 DEF TypeOK
    <3>2. /\ [hist[txn[w].target] EXCEPT !.openedFacts = @ + 1] \in History
          /\ [hist[txn[w].target] EXCEPT !.regressedFacts = @ + 1] \in History
      BY <3>1, Tallied
    <3> QED
      BY <1>3, <2>1, <3>2, HistoryTyped DEF AfterCommit, TypeOK
  <2> QED
    BY <1>1, <1>3, <2>2 DEF AfterCommit, TypeOK
<1> QED
  BY <1>2, <1>3

\* Types survive every step of the tracker.
LEMMA StepTyped == TypeOK /\ [Next]_vars => TypeOK'
<1> SUFFICES ASSUME TypeOK, [Next]_vars
             PROVE  TypeOK'
  OBVIOUS
<1>1. CASE UNCHANGED vars
  BY <1>1 DEF vars, TypeOK
<1>2. CASE Tick
  BY <1>2 DEF Tick, TypeOK
<1>3. ASSUME NEW w \in Workers, Step(w)
      PROVE  TypeOK'
  <2>1. CASE RecordRead(w) \/ RecordWrite(w) \/ RecordRaise(w)
    BY <2>1, RecordReadTyped, RecordWriteTyped, RecordRaiseTyped
  <2>2. CASE FixRead(w) \/ FixWrite(w)
    BY <2>2, FixReadTyped, FixWriteTyped
  <2>3. CASE PatchRead(w) \/ PatchWrite(w)
    BY <2>3, PatchReadTyped, PatchWriteTyped
  <2>4. CASE SweepExpired(w) \/ SweepOverCap(w) \/ SweepList(w) \/ SweepDelete(w)
    BY <2>4, SweepTyped, SweepDeleteTyped
  <2>5. CASE AfterCommit(w) \/ AfterSweep(w)
    BY <2>5, AfterTyped
  <2>6. CASE EditMissed(w)
    BY <2>6, IdleRequest, TxnTyped DEF EditMissed, Finish, TypeOK
  <2>7. CASE Crash(w)
    <3>1. spent' \in [reports: Nat, edits: Nat, crashes: Nat]
      BY <2>7 DEF Crash, TypeOK
    <3> QED
      BY <2>7, <3>1, IdleRequest, TxnTyped DEF Crash, Finish, TypeOK
  <2>8. CASE EraseList(w) \/ EraseRow(w) \/ EraseEnd(w) \/ EraseMissed(w)
    BY <2>8, EraseTyped
  <2> QED
    BY <1>3, <2>1, <2>2, <2>3, <2>4, <2>5, <2>6, <2>7, <2>8 DEF Step
<1> QED
  BY <1>1, <1>2, <1>3 DEF Next

\* Every variable keeps its type, however many workers there are.
THEOREM Typing == Spec => []TypeOK
BY InitTyped, StepTyped, PTL DEF Spec

\* A worker's step leaves what the others are in the middle of.
LEMMA OthersWait ==
  ASSUME TypeOK, NEW w \in Workers, Step(w), NEW v \in Workers, v # w
  PROVE  txn'[v] = txn[v]
BY DEF Step, RecordRead, RecordWrite, RecordRaise, FixRead, FixWrite, PatchRead,
       PatchWrite, EditMissed, SweepExpired, SweepOverCap, SweepList, SweepDelete,
       EraseList, EraseRow, EraseEnd, EraseMissed, AfterCommit, AfterSweep, Crash,
       Begin, Finish, Committed, TypeOK

-----------------------------------------------------------------------------
(* Soundness of rows, and of the copies of rows in flight                  *)

\* The clock and the number of occurrences recorded only grow.
LEMMA Growth ==
  ASSUME TypeOK, Next
  PROVE  /\ now <= now'
         /\ \A f \in Traces : hist[f].recorded <= hist'[f].recorded
<1>0. now \in Nat /\ \A f \in Traces : hist[f].recorded \in Nat
  BY DEF TypeOK, History
<1>1. CASE Tick
  BY <1>0, <1>1 DEF Tick
<1>2. ASSUME NEW w \in Workers, RecordWrite(w)
      PROVE  now <= now' /\ \A f \in Traces : hist[f].recorded <= hist'[f].recorded
  <2>1. txn[w].target \in Traces /\ txn[w].n \in Nat
    BY <1>2, Kinds, RequestTyped, StoreAssumption DEF RecordWrite, RecordRequest
  <2>2. hist' = [hist EXCEPT ![txn[w].target].recorded = @ + txn[w].n] /\ now' = now
    BY <1>2 DEF RecordWrite
  <2>3. \A f \in Traces : hist'[f].recorded = IF f = txn[w].target
                          THEN hist[f].recorded + txn[w].n ELSE hist[f].recorded
    BY <2>1, <2>2 DEF TypeOK, History
  <2> QED
    BY <1>0, <2>1, <2>2, <2>3
<1>3. ASSUME NEW w \in Workers, Step(w), ~ RecordWrite(w)
      PROVE  now' = now /\ \A f \in Traces : hist'[f].recorded = hist[f].recorded
  <2>1. now' = now
    BY <1>3 DEF Step, RecordRead, RecordRaise, FixRead, FixWrite, PatchRead,
                PatchWrite, EditMissed, SweepExpired, SweepOverCap, SweepList,
                SweepDelete, EraseList, EraseRow, EraseEnd, EraseMissed,
                AfterCommit, AfterSweep, Crash
  <2>2. CASE hist' = hist
    BY <2>1, <2>2
  <2>3. CASE RecordRaise(w)
    <3>1. hist' = [hist EXCEPT ![txn[w].target].raised = @ + txn[w].n]
      BY <2>3 DEF RecordRaise
    <3> QED
      BY <2>1, <3>1 DEF TypeOK, History
  <2>4. CASE FixWrite(w)
    BY <2>4 DEF FixWrite, TypeOK, History
  <2>5. CASE PatchWrite(w)
    BY <2>5 DEF PatchWrite, TypeOK, History
  <2>6. CASE SweepDelete(w)
    BY <2>6 DEF SweepDelete, TypeOK, History
  <2>7. CASE AfterCommit(w)
    <3> DEFINE f == txn[w].target
    <3>1. \/ hist' = hist
          \/ hist' = [hist EXCEPT ![f].openedFacts = @ + 1]
          \/ hist' = [hist EXCEPT ![f].regressedFacts = @ + 1]
      BY <2>7 DEF AfterCommit
    <3> HIDE DEF f
    <3>2. CASE hist' = [hist EXCEPT ![f].openedFacts = @ + 1]
      BY <2>1, <3>2 DEF TypeOK, History
    <3>3. CASE hist' = [hist EXCEPT ![f].regressedFacts = @ + 1]
      BY <2>1, <3>3 DEF TypeOK, History
    <3> QED
      BY <2>1, <2>2, <3>1, <3>2, <3>3
  <2>8. \/ hist' = hist \/ RecordRaise(w) \/ FixWrite(w) \/ PatchWrite(w)
        \/ SweepDelete(w) \/ AfterCommit(w)
    BY <1>3 DEF Step, RecordRead, FixRead, PatchRead, EditMissed, SweepExpired,
                SweepOverCap, SweepList, EraseList, EraseRow, EraseEnd,
                EraseMissed, AfterSweep, Crash
  <2> QED
    BY <2>1, <2>2, <2>3, <2>4, <2>5, <2>6, <2>7, <2>8
<1> QED
  BY <1>0, <1>1, <1>2, <1>3 DEF Next

\* A row that was sound when it was read is sound when it is written.
LEMMA Aging ==
  ASSUME NEW row \in Row, NEW f \in Traces, TypeOK, TypeOK',
         now <= now', hist[f].recorded <= hist'[f].recorded, SoundRow(row, f)
  PROVE  SoundRow(row, f)'
<1>1. /\ row.count \in Nat /\ row.since \in Nat
      /\ now \in Nat /\ now' \in Nat
      /\ hist[f].recorded \in Nat /\ hist'[f].recorded \in Nat
  BY DEF Row, TypeOK, History
<1> QED
  BY <1>1 DEF SoundRow

\* A row just opened is sound: its count is what was recorded.
LEMMA OpenedSound ==
  ASSUME NEW r \in RecordRequest, NEW f \in Traces, TypeOK,
         hist'[f].recorded = hist[f].recorded + r.n
  PROVE  SoundRow(Opened(r), f)'
<1>1. r.n \in Nat /\ hist[f].recorded \in Nat
  BY StoreAssumption DEF RecordRequest, TypeOK, History
<1>2. /\ Opened(r).mutedUntil = NoTime /\ Opened(r).status = "new"
      /\ Opened(r).count = r.n /\ Opened(r).since = r.n
  BY DEF Opened
<1> QED
  BY <1>1, <1>2 DEF SoundRow

\* Joining a sound row, however stale, leaves a sound row.
LEMMA JoinedSound ==
  ASSUME NEW r \in RecordRequest, NEW f \in Traces, TypeOK,
         r.snap # NoRow, r.at <= now, SoundRow(r.snap, f),
         now' = now, hist'[f].recorded = hist[f].recorded + r.n
  PROVE  SoundRow(Joined(r), f)'
<1>1. r.snap \in Row
  BY DEF RecordRequest
<1>2. /\ r.n \in Nat \ {0} /\ r.at \in Nat /\ hist[f].recorded \in Nat /\ now \in Nat
      /\ r.snap.count \in Nat /\ r.snap.since \in Nat
  BY <1>1, StoreAssumption DEF RecordRequest, TypeOK, History, Row
<1>3. /\ Joined(r).count = r.snap.count + r.n
      /\ Joined(r).since = r.snap.since + r.n
      /\ Joined(r).status = StatusAfter(r)
      /\ Joined(r).regressedAt = IF Refutes(r) THEN r.at ELSE r.snap.regressedAt
      /\ Joined(r).mutedUntil = IF Unmutes(r) THEN NoTime ELSE r.snap.mutedUntil
  BY <1>1, Zenon DEF Joined, Row
<1>4. Joined(r).mutedUntil # NoTime => Joined(r).status = "muted"
  BY <1>3 DEF SoundRow, StatusAfter, Refutes, Unmutes
<1>5. Joined(r).status = "regressed" =>
        Joined(r).regressedAt \in 0 .. now /\ Joined(r).since > 0
  BY <1>2, <1>3 DEF SoundRow, StatusAfter
<1>6. Joined(r).count <= hist[f].recorded + r.n /\ Joined(r).since <= Joined(r).count
  BY <1>2, <1>3 DEF SoundRow
<1> QED
  BY <1>4, <1>5, <1>6 DEF SoundRow

\* A fix leaves a sound row.
LEMMA FixedSound ==
  ASSUME NEW row \in Row, NEW f \in Traces, TypeOK, SoundRow(row, f)
  PROVE  SoundRow(Fixed(row), f)
<1>1. /\ Fixed(row).status = "fixed" /\ Fixed(row).mutedUntil = NoTime
      /\ Fixed(row).since = 0 /\ Fixed(row).count = row.count
  BY Zenon DEF Fixed, Row
<1>2. row.count \in Nat
  BY DEF Row
<1> QED
  BY <1>1, <1>2 DEF SoundRow

\* A PATCH leaves a sound row: a deadline comes with the status muted.
LEMMA PatchedSound ==
  ASSUME NEW row \in Row, NEW r \in PatchRequest, NEW f \in Traces, TypeOK,
         SoundRow(row, f), r.until # NoTime => r.status = "muted"
  PROVE  SoundRow(Patched(row, r), f)
<1>1. /\ Patched(row, r).since = row.since /\ Patched(row, r).count = row.count
      /\ Patched(row, r).regressedAt = row.regressedAt
      /\ Patched(row, r).status = IF r.status = "same" THEN row.status ELSE r.status
      /\ Patched(row, r).mutedUntil = IF r.status = "same" THEN row.mutedUntil
                                                           ELSE r.until
  BY DEF Patched, Row
<1>2. r.status # "regressed"
  BY DEF PatchRequest, Settable
<1> QED
  BY <1>1, <1>2 DEF SoundRow

-----------------------------------------------------------------------------
(* The inductive invariant                                                 *)

\* The empty tracker satisfies the inductive invariant.
LEMMA InitSound == Init => StoreInv
<1> SUFFICES ASSUME Init
             PROVE  StoreInv
  OBVIOUS
<1>1. TypeOK
  BY InitTyped
<1>2. \A f \in Rows : SoundRow(issues[f], f)
  BY DEF Init, Rows
<1>3. \A w \in Workers : SoundRequest(txn[w])
  BY DEF Init, Idle, SoundRequest
<1>4. IsFiniteSet(events) /\ \A f \in Traces : Cardinality(EventsOf(f)) = 0
  BY FS_EmptySet DEF Init, EventsOf
<1>5. EventsCapped
  BY <1>4, StoreAssumption DEF EventsCapped
<1> QED
  BY <1>1, <1>2, <1>3, <1>4, <1>5 DEF StoreInv

\* The rows of the table stay sound.
LEMMA RowsStaySound ==
  ASSUME StoreInv, Next
  PROVE  \A f \in Rows' : SoundRow(issues[f], f)'
<1> USE DEF StoreInv
<1>0. TypeOK /\ TypeOK'
  BY StepTyped
<1>1. \A f \in Rows : SoundRow(issues[f], f) /\ issues[f] \in Row /\ f \in Traces
  BY <1>0 DEF Rows, TypeOK
\* A row that this step leaves alone.
<1>2. ASSUME NEW f \in Traces, issues'[f] = issues[f], issues[f] # NoRow
      PROVE  SoundRow(issues[f], f)'
  <2>1. f \in Rows
    BY <1>2 DEF Rows
  <2> DEFINE row == issues[f]
  <2>2. row \in Row /\ SoundRow(row, f)
    BY <1>1, <2>1
  <2>3. /\ issues[f].count \in Nat /\ issues[f].since \in Nat
        /\ now \in Nat /\ now' \in Nat
        /\ hist[f].recorded \in Nat /\ hist'[f].recorded \in Nat
    BY <1>0, <2>2 DEF Row, TypeOK, History
  <2>4. now <= now' /\ hist[f].recorded <= hist'[f].recorded
    BY <1>0, Growth
  <2> QED
    BY <1>2, <2>2, <2>3, <2>4 DEF SoundRow
<1>3. ASSUME NEW w \in Workers, RecordWrite(w), NEW f \in Rows', f = txn[w].target
      PROVE  SoundRow(issues[f], f)'
  <2> DEFINE r == txn[w]
  <2>1. r \in RecordRequest /\ f \in Traces
    BY <1>0, <1>3, Kinds, RequestTyped DEF RecordWrite, RecordRequest
  <2>2. r.at <= now /\ (r.snap # NoRow => SoundRow(r.snap, f))
    BY <1>3 DEF RecordWrite, SoundRequest
  <2>3. /\ hist' = [hist EXCEPT ![f].recorded = @ + r.n]
        /\ now' = now
        /\ issues' = [issues EXCEPT ![f] = IF r.snap = NoRow THEN Opened(r) ELSE Joined(r)]
    BY <1>3 DEF RecordWrite
  <2> HIDE DEF r
  <2>4. hist'[f].recorded = hist[f].recorded + r.n
    BY <1>0, <2>1, <2>3 DEF TypeOK, History
  <2>5. issues'[f] = IF r.snap = NoRow THEN Opened(r) ELSE Joined(r)
    BY <1>0, <2>1, <2>3 DEF TypeOK
  <2>6. CASE r.snap = NoRow
    BY <1>0, <2>1, <2>4, <2>5, <2>6, OpenedSound DEF SoundRow
  <2>7. CASE r.snap # NoRow
    BY <1>0, <2>1, <2>2, <2>3, <2>4, <2>5, <2>7, JoinedSound DEF SoundRow
  <2> QED
    BY <2>6, <2>7
<1>4. ASSUME NEW w \in Workers, FixWrite(w), NEW f \in Rows', f = txn[w].target
      PROVE  SoundRow(issues[f], f)'
  <2>1. f \in Rows /\ f \in Traces
    BY <1>4 DEF FixWrite, StillThere, Rows
  <2>2. issues'[f] = Fixed(issues[f]) /\ now' = now
    BY <1>0, <1>4, <2>1 DEF FixWrite, TypeOK
  <2>3. SoundRow(Fixed(issues[f]), f)
    BY <1>0, <1>1, <2>1, FixedSound
  <2>4. Fixed(issues[f]) \in Row
    BY <1>0, <1>1, <2>1, FixedTyped DEF TypeOK
  <2>5. hist[f].recorded <= hist'[f].recorded
    BY <1>0, <2>1, Growth
  <2>6. /\ hist[f].recorded \in Nat /\ hist'[f].recorded \in Nat
        /\ Fixed(issues[f]).count \in Nat
    BY <1>0, <2>1, <2>4 DEF TypeOK, History, Row
  <2> QED
    BY <2>2, <2>3, <2>5, <2>6 DEF SoundRow
<1>5. ASSUME NEW w \in Workers, PatchWrite(w), NEW f \in Rows', f = txn[w].target
      PROVE  SoundRow(issues[f], f)'
  <2> DEFINE r == txn[w]
  <2>1. f \in Rows /\ f \in Traces
    BY <1>5 DEF PatchWrite, StillThere, Rows
  <2>2. r \in PatchRequest /\ (r.until # NoTime => r.status = "muted")
    BY <1>0, <1>5, Kinds, RequestTyped DEF PatchWrite, SoundRequest
  <2>3. issues'[f] = Patched(issues[f], r) /\ now' = now
    BY <1>0, <1>5, <2>1 DEF PatchWrite, TypeOK
  <2> HIDE DEF r
  <2>4. SoundRow(Patched(issues[f], r), f)
    BY <1>0, <1>1, <2>1, <2>2, PatchedSound
  <2>5. Patched(issues[f], r) \in Row
    BY <1>1, <2>1, <2>2, PatchedTyped
  <2>6. hist[f].recorded <= hist'[f].recorded
    BY <1>0, <2>1, Growth
  <2>7. /\ hist[f].recorded \in Nat /\ hist'[f].recorded \in Nat
        /\ Patched(issues[f], r).count \in Nat
    BY <1>0, <2>1, <2>5 DEF TypeOK, History, Row
  <2> QED
    BY <2>3, <2>4, <2>6, <2>7 DEF SoundRow
<1>6. ASSUME NEW f \in Rows'
      PROVE  \/ issues'[f] = issues[f] /\ issues[f] # NoRow
             \/ \E w \in Workers : /\ RecordWrite(w) \/ FixWrite(w) \/ PatchWrite(w)
                                   /\ f = txn[w].target
  <2>1. f \in Traces /\ issues'[f] # NoRow
    BY DEF Rows
  <2>2. CASE issues' = issues
    BY <2>1, <2>2
  <2>3. ASSUME NEW w \in Workers, SweepDelete(w)
        PROVE  issues'[f] = issues[f]
    BY <2>1, <2>3 DEF SweepDelete
  <2>4. ASSUME NEW w \in Workers, RecordWrite(w) \/ FixWrite(w) \/ PatchWrite(w),
               f # txn[w].target
        PROVE  issues'[f] = issues[f]
    BY <1>0, <2>1, <2>4 DEF RecordWrite, FixWrite, PatchWrite, TypeOK
  <2>5. \/ issues' = issues
        \/ \E w \in Workers : RecordWrite(w) \/ FixWrite(w) \/ PatchWrite(w) \/ SweepDelete(w)
    BY DEF Next, Step, Tick, RecordRead, RecordRaise, FixRead, PatchRead, EditMissed,
           SweepExpired, SweepOverCap, SweepList, EraseList, EraseRow, EraseEnd,
           EraseMissed, AfterCommit, AfterSweep, Crash
  <2> QED
    BY <2>1, <2>2, <2>3, <2>4, <2>5
<1> QED
  <2> TAKE f \in Rows'
  <2>1. f \in Traces
    BY DEF Rows
  <2> QED
    BY <1>2, <1>3, <1>4, <1>5, <1>6, <2>1

\* The copies of rows that workers hold stay sound.
LEMMA RequestsStaySound ==
  ASSUME StoreInv, Next
  PROVE  \A w \in Workers : SoundRequest(txn[w])'
<1> USE DEF StoreInv
<1>0. TypeOK /\ TypeOK'
  BY StepTyped
<1>1. ASSUME NEW w \in Workers, txn'[w] = txn[w]
      PROVE  SoundRequest(txn[w])'
  <2>1. CASE txn[w].op = "record"
    <3> DEFINE r == txn[w]
    <3>1. r \in RecordRequest /\ r.at <= now /\ (r.snap # NoRow => SoundRow(r.snap, r.target))
      BY <1>0, <2>1, Kinds, RequestTyped DEF SoundRequest
    <3>2. /\ r.at \in Nat /\ r.target \in Traces
          /\ r.snap # NoRow => r.snap \in Row
      BY <3>1 DEF RecordRequest
    <3>3. /\ now <= now' /\ now \in Nat /\ now' \in Nat
          /\ hist[r.target].recorded <= hist'[r.target].recorded
          /\ hist[r.target].recorded \in Nat /\ hist'[r.target].recorded \in Nat
      BY <1>0, <3>2, Growth DEF TypeOK, History
    <3>4. r.snap # NoRow => r.snap.count \in Nat
      BY <3>2 DEF Row
    <3>5. txn'[w] = r /\ r.op = "record"
      BY <1>1, <2>1
    <3> HIDE DEF r
    <3> QED
      BY <3>1, <3>2, <3>3, <3>4, <3>5 DEF SoundRequest, SoundRow
  <2>2. CASE txn[w].op # "record"
    BY <1>1, <2>2 DEF SoundRequest
  <2> QED
    BY <2>1, <2>2
<1>2. ASSUME NEW w \in Workers, RecordRead(w)
      PROVE  SoundRequest(txn[w])'
  <2>1. PICK t \in Traces, n \in Occurrences, l \in Levels, u \in Users :
          \E occurred \in {x \in 0 .. now : now - x <= MaxDelay}, f \in FindIssue(t) :
            Begin(w, [op |-> "record", id |-> spent.reports + 1, target |-> f,
                      n |-> n, level |-> l, user |-> u, at |-> now,
                      occurred |-> occurred, snap |-> issues[f]])
    BY <1>2 DEF RecordRead
  <2>2. PICK occurred \in 0 .. now, f \in FindIssue(t) :
        Begin(w, [op |-> "record", id |-> spent.reports + 1, target |-> f,
                  n |-> n, level |-> l, user |-> u, at |-> now,
                  occurred |-> occurred, snap |-> issues[f]])
    BY <2>1
  <2>3. f \in Traces
    BY FoundIsTrace
  <2>4. issues[f] # NoRow => SoundRow(issues[f], f)
    BY <2>3 DEF Rows
  <2>5. /\ txn'[w].op = "record" /\ txn'[w].at = now
        /\ txn'[w].snap = issues[f] /\ txn'[w].target = f
    BY <1>0, <2>2 DEF Begin, TypeOK
  <2>6. now' = now /\ hist' = hist /\ now \in Nat
    BY <1>0, <1>2 DEF RecordRead, TypeOK
  <2> QED
    BY <2>4, <2>5, <2>6 DEF SoundRequest, SoundRow
<1>3. ASSUME NEW w \in Workers, PatchRead(w)
      PROVE  SoundRequest(txn[w])'
  <2>1. PICK f \in Rows, s \in Settable \cup {"same"}, note \in Notes \cup {NoNote},
             until \in 0 .. MaxTime \cup {NoTime} :
          /\ s # "muted" => until = NoTime
          /\ Begin(w, [op |-> "patch", target |-> f, id |-> issues[f].id,
                       status |-> s, until |-> until,
                       note |-> IF note = NoNote THEN issues[f].note ELSE note])
    BY <1>3 DEF PatchRead
  <2>2. txn'[w].op = "patch" /\ txn'[w].until = until /\ txn'[w].status = s
    BY <1>0, <2>1 DEF Begin, TypeOK
  <2> QED
    BY <2>1, <2>2 DEF SoundRequest
\* Every other step leaves its worker with neither a report nor a PATCH.
<1>4. ASSUME NEW w \in Workers, Step(w), ~ RecordRead(w), ~ PatchRead(w)
      PROVE  txn'[w].op \notin {"record", "patch"}
  <2>1. CASE \/ RecordRaise(w) \/ EditMissed(w) \/ AfterCommit(w) \/ AfterSweep(w)
             \/ EraseEnd(w) \/ EraseMissed(w) \/ Crash(w)
    <3>1. Finish(w)
      BY <2>1 DEF RecordRaise, EditMissed, AfterCommit, AfterSweep, EraseEnd,
                  EraseMissed, Crash
    <3> QED
      BY <1>0, <3>1 DEF Finish, Idle, TypeOK
  <2>2. CASE RecordWrite(w) \/ FixWrite(w)
    BY <1>0, <2>2 DEF RecordWrite, FixWrite, Committed, TypeOK
  <2>3. CASE PatchWrite(w)
    BY <1>0, <2>3 DEF PatchWrite, Committed, Finish, Idle, TypeOK
  <2>4. CASE FixRead(w) \/ SweepExpired(w) \/ SweepOverCap(w) \/ SweepList(w) \/ SweepDelete(w)
    <3>1. CASE FixRead(w)
      BY <1>0, <3>1 DEF FixRead, Begin, TypeOK
    <3>2. CASE SweepExpired(w)
      BY <1>0, <3>2 DEF SweepExpired, Begin, TypeOK
    <3>3. CASE SweepOverCap(w)
      BY <1>0, <3>3 DEF SweepOverCap, Begin, TypeOK
    <3>4. CASE SweepList(w)
      BY <1>0, <3>4 DEF SweepList, Begin, TypeOK
    <3>5. CASE SweepDelete(w)
      BY <1>0, <3>5 DEF SweepDelete, TypeOK
    <3> QED
      BY <2>4, <3>1, <3>2, <3>3, <3>4, <3>5
  <2>5. CASE EraseList(w)
    BY <1>0, <2>5 DEF EraseList, Begin, TypeOK
  <2>6. CASE EraseRow(w)
    <3>1. txn[w] \in Erasure /\ txn[w].op = "erase"
      BY <1>0, <2>6, Kinds, RequestTyped DEF EraseRow
    <3>2. PICK e \in events : txn'[w] = [txn[w] EXCEPT !.todo = @ \ {e.id}]
      BY <1>0, <2>6 DEF EraseRow, Begin, TypeOK
    <3> QED
      BY <3>1, <3>2 DEF Erasure
  <2> QED
    BY <1>4, <2>1, <2>2, <2>3, <2>4, <2>5, <2>6 DEF Step
<1>5. ASSUME NEW w \in Workers, Step(w), NEW v \in Workers, v # w
      PROVE  txn'[v] = txn[v]
  BY <1>0, <1>5, OthersWait
<1>6. ASSUME NEW w \in Workers, Step(w)
      PROVE  SoundRequest(txn[w])'
  BY <1>2, <1>3, <1>4, <1>6 DEF SoundRequest
<1> QED
  BY <1>1, <1>5, <1>6 DEF Next, Tick

\* The samples stay finite and within the cap.
LEMMA EventsStayCapped ==
  ASSUME StoreInv, Next
  PROVE  IsFiniteSet(events') /\ EventsCapped'
<1> USE DEF StoreInv
<1>0. /\ TypeOK /\ IsFiniteSet(events) /\ EventsCapped
      /\ \A f : EventsOf(f) \subseteq events
      /\ \A f : IsFiniteSet(EventsOf(f))
  BY FS_Subset DEF EventsOf
<1>1. CASE events' \subseteq events
  <2>1. IsFiniteSet(events')
    BY <1>0, <1>1, FS_Subset
  <2>2. ASSUME Keep > 0, NEW f \in Traces
        PROVE  Cardinality(EventsOf(f)') <= Keep
    <3>1. EventsOf(f)' \subseteq EventsOf(f)
      BY <1>1 DEF EventsOf
    <3>2. /\ Cardinality(EventsOf(f)') <= Cardinality(EventsOf(f))
          /\ Cardinality(EventsOf(f)') \in Nat /\ Cardinality(EventsOf(f)) \in Nat
      BY <1>0, <3>1, FS_Subset, FS_CardinalityType
    <3>3. Cardinality(EventsOf(f)) <= Keep
      BY <1>0, <2>2 DEF EventsCapped
    <3> QED
      BY <3>2, <3>3, StoreAssumption
  <2> QED
    BY <2>1, <2>2 DEF EventsCapped
<1>2. ASSUME NEW w \in Workers, RecordWrite(w)
      PROVE  IsFiniteSet(events') /\ EventsCapped'
  <2> DEFINE r == txn[w]
             f == r.target
             S == EventsOf(f) \cup {EventRow(r)}
  <2>1. PICK kept \in Capped(f, S) : events' = (events \ EventsOf(f)) \cup kept
    BY <1>2 DEF RecordWrite
  <2>2. kept \subseteq S /\ IsFiniteSet(S) /\ EventRow(r).issue = f
    BY <1>0, CappedSubset, FS_AddElement DEF EventRow
  <2>3. IsFiniteSet(events')
    <3>1. IsFiniteSet(kept) /\ IsFiniteSet(events \ EventsOf(f))
      BY <1>0, <2>2, FS_Subset
    <3> QED
      BY <2>1, <3>1, FS_Union
  <2>4. ASSUME Keep > 0, NEW g \in Traces
        PROVE  Cardinality(EventsOf(g)') <= Keep
    <3>1. CASE g = f
      <4>1. EventsOf(g)' = kept
        BY <2>1, <2>2, <3>1 DEF EventsOf
      <4>2. kept \in Newest(S, Keep)
        BY <2>4, StoreAssumption DEF Capped
      <4>3. Cardinality(S) \in Nat
        BY <2>2, FS_CardinalityType
      <4> QED
        BY <4>1, <4>2, <4>3, StoreAssumption DEF Newest
    <3>2. CASE g # f
      <4>1. EventsOf(g)' = EventsOf(g)
        BY <2>1, <2>2, <3>2 DEF EventsOf
      <4> QED
        BY <1>0, <2>4, <4>1 DEF EventsCapped
    <3> QED
      BY <3>1, <3>2
  <2> QED
    BY <2>3, <2>4 DEF EventsCapped
<1>3. ASSUME NEW w \in Workers, EraseRow(w)
      PROVE  IsFiniteSet(events') /\ EventsCapped'
  <2>1. PICK e \in events : events' = (events \ {e}) \cup {Forgotten(e)}
    BY <1>3 DEF EraseRow
  <2>2. e \in Event /\ Forgotten(e).issue = e.issue
    BY <1>0 DEF TypeOK, Event, Forgotten
  <2>3. IsFiniteSet(events')
    BY <1>0, <2>1, FS_RemoveElement, FS_AddElement
  <2>4. ASSUME Keep > 0, NEW g \in Traces
        PROVE  Cardinality(EventsOf(g)') <= Keep
    <3>1. CASE g # e.issue
      <4>1. EventsOf(g)' = EventsOf(g)
        BY <2>1, <2>2, <3>1 DEF EventsOf
      <4> QED
        BY <1>0, <2>4, <4>1 DEF EventsCapped
    <3>2. CASE g = e.issue
      <4> DEFINE rest == EventsOf(g) \ {e}
      <4>1. EventsOf(g)' = rest \cup {Forgotten(e)} /\ e \in EventsOf(g)
        BY <2>1, <2>2, <3>2 DEF EventsOf
      <4>2. /\ IsFiniteSet(rest)
            /\ Cardinality(rest) = Cardinality(EventsOf(g)) - 1
            /\ Cardinality(rest) \in Nat /\ Cardinality(EventsOf(g)) \in Nat
        BY <1>0, <4>1, FS_RemoveElement, FS_CardinalityType
      <4> HIDE DEF rest
      <4>3. Cardinality(rest \cup {Forgotten(e)})
              = IF Forgotten(e) \in rest THEN Cardinality(rest) ELSE Cardinality(rest) + 1
        BY <4>2, FS_AddElement, Zenon
      <4>4. Cardinality(EventsOf(g)) <= Keep
        BY <1>0, <2>4 DEF EventsCapped
      <4> QED
        BY <4>1, <4>2, <4>3, <4>4, StoreAssumption
    <3> QED
      BY <3>1, <3>2
  <2> QED
    BY <2>3, <2>4 DEF EventsCapped
<1>4. events' \subseteq events \/ \E w \in Workers : RecordWrite(w) \/ EraseRow(w)
  BY DEF Next, Step, Tick, RecordRead, RecordRaise, FixRead, FixWrite, PatchRead,
         PatchWrite, EditMissed, SweepExpired, SweepOverCap, SweepList, SweepDelete,
         EraseList, EraseEnd, EraseMissed, AfterCommit, AfterSweep, Crash
<1> QED
  BY <1>1, <1>2, <1>3, <1>4

\* The inductive invariant survives every step.
LEMMA StepSound == StoreInv /\ [Next]_vars => StoreInv'
<1>1. ASSUME StoreInv, Next
      PROVE  StoreInv'
  <2>1. TypeOK'
    BY <1>1, StepTyped DEF StoreInv
  <2> QED
    BY <1>1, <2>1, RowsStaySound, RequestsStaySound, EventsStayCapped DEF StoreInv
<1>2. ASSUME StoreInv, UNCHANGED vars
      PROVE  StoreInv'
  BY <1>2 DEF vars, StoreInv, TypeOK, Rows, SoundRow, SoundRequest, EventsCapped, EventsOf
<1> QED
  BY <1>1, <1>2

\* The tracker never leaves its inductive invariant.
THEOREM Soundness == Spec => []StoreInv
BY InitSound, StepSound, PTL DEF Spec

-----------------------------------------------------------------------------
(* What readers of the tracker may rely on                                 *)

\* No worker's stale write leaves a deadline on a row that is not muted.
THEOREM DeadlinesBelongToMutes == Spec => []DeadlineOnlyWhileMuted
<1>1. StoreInv => DeadlineOnlyWhileMuted
  BY DEF StoreInv, DeadlineOnlyWhileMuted, SoundRow
<1> QED
  BY <1>1, Soundness, PTL

\* A regression is dated and has an occurrence behind it, whoever wrote it.
THEOREM RegressionsHaveEvidence == Spec => []RegressedOnEvidence
<1>1. StoreInv => RegressedOnEvidence
  BY DEF StoreInv, RegressedOnEvidence, SoundRow
<1> QED
  BY <1>1, Soundness, PTL

\* Lost updates may lose counts; no interleaving invents one.
THEOREM CountsAreNeverInvented == Spec => []CountNeverInvented
<1>1. StoreInv => CountNeverInvented
  BY DEF StoreInv, CountNeverInvented, SoundRow
<1> QED
  BY <1>1, Soundness, PTL

\* The sample of every issue keeps its bound at every commit.
THEOREM SamplesAreCapped == Spec => []EventsCapped
<1>1. StoreInv => EventsCapped
  BY DEF StoreInv
<1> QED
  BY <1>1, Soundness, PTL

-----------------------------------------------------------------------------
(* Erasures                                                                *)

Recording(w) == txn[w].op = "record"
Erasing(w) == txn[w].op = "erase"

\* An id belongs to one report: to its event once it is stored, to the worker
\* that records it before.
OwnIds ==
  /\ \A d, e \in events : d.id = e.id => d = e
  /\ \A e \in events : e.id <= spent.reports
  /\ \A w \in Workers : Recording(w) => /\ txn[w].id <= spent.reports
                                        /\ \A e \in events : e.id # txn[w].id
  /\ \A v, w \in Workers : Recording(v) /\ Recording(w) /\ v # w => txn[v].id # txn[w].id

\* No report still to be stored has an id an erasure found in the table, and
\* the events that named the person then and still do are still to be saved.
ErasuresGoOn ==
  \A w \in Workers : Erasing(w) =>
    /\ \A i \in txn[w].had : /\ i <= spent.reports
                             /\ \A v \in Workers : Recording(v) => txn[v].id # i
    /\ \A e \in events : e.user = txn[w].user /\ e.id \in txn[w].had => e.id \in txn[w].todo

\* The inductive invariant behind DoneErasureForgets.
EraseInv == OwnIds /\ ErasuresGoOn

\* What ids, reports counted and events of a step without a report and without
\* an erasure leave.
LEMMA OtherSteps ==
  ASSUME TypeOK, NEW w \in Workers, Step(w),
         ~ RecordRead(w), ~ RecordWrite(w), ~ EraseList(w), ~ EraseRow(w)
  PROVE  /\ events' \subseteq events /\ spent'.reports = spent.reports
         /\ txn'[w].op \notin {"record", "erase"}
<1>1. CASE \/ RecordRaise(w) \/ EditMissed(w) \/ AfterCommit(w) \/ AfterSweep(w)
           \/ EraseEnd(w) \/ EraseMissed(w)
  <2>1. Finish(w) /\ events' = events /\ spent' = spent
    BY <1>1 DEF RecordRaise, EditMissed, AfterCommit, AfterSweep, EraseEnd, EraseMissed
  <2> QED
    BY <2>1 DEF Finish, Idle, TypeOK
<1>2. CASE Crash(w)
  BY <1>2 DEF Crash, Finish, Idle, TypeOK
<1>3. CASE FixRead(w)
  BY <1>3 DEF FixRead, Begin, TypeOK
<1>4. CASE PatchRead(w)
  BY <1>4 DEF PatchRead, Begin, TypeOK
<1>5. CASE FixWrite(w)
  BY <1>5 DEF FixWrite, Committed, TypeOK
<1>6. CASE PatchWrite(w)
  BY <1>6 DEF PatchWrite, Committed, Finish, Idle, TypeOK
<1>7. CASE SweepExpired(w)
  BY <1>7 DEF SweepExpired, Begin, TypeOK
<1>8. CASE SweepOverCap(w)
  BY <1>8 DEF SweepOverCap, Begin, TypeOK
<1>9. CASE SweepList(w)
  BY <1>9 DEF SweepList, Begin, TypeOK
<1>10. CASE SweepDelete(w)
  BY <1>10 DEF SweepDelete, TypeOK
<1> QED
  BY <1>1, <1>2, <1>3, <1>4, <1>5, <1>6, <1>7, <1>8, <1>9, <1>10 DEF Step

\* Those steps keep the ids apart and the erasures going.
LEMMA OtherStepsErase ==
  ASSUME TypeOK, EraseInv, NEW w \in Workers,
         \A v \in Workers \ {w} : txn'[v] = txn[v],
         events' \subseteq events, spent'.reports = spent.reports,
         txn'[w].op \notin {"record", "erase"}
  PROVE  EraseInv'
<1>1. \A v \in Workers : /\ txn'[v].op = "record" => txn'[v] = txn[v] /\ Recording(v)
                         /\ txn'[v].op = "erase" => txn'[v] = txn[v] /\ Erasing(v)
  BY DEF Recording, Erasing
<1>2. OwnIds'
  BY <1>1 DEF EraseInv, OwnIds, Recording
<1>3. ErasuresGoOn'
  BY <1>1 DEF EraseInv, ErasuresGoOn, Recording, Erasing
<1> QED
  BY <1>2, <1>3 DEF EraseInv

\* A report gets an id nobody has.
LEMMA RecordReadErase ==
  ASSUME TypeOK, EraseInv, NEW w \in Workers, RecordRead(w)
  PROVE  EraseInv'
<1>1. PICK n \in Nat : n = spent.reports
  BY DEF TypeOK
<1>2. /\ spent'.reports = n + 1 /\ events' = events
      /\ txn'[w].op = "record" /\ txn'[w].id = n + 1
  <2>1. PICK t \in Traces, k \in Occurrences, l \in Levels, u \in Users :
          \E occurred \in {x \in 0 .. now : now - x <= MaxDelay}, f \in FindIssue(t) :
            Begin(w, [op |-> "record", id |-> spent.reports + 1, target |-> f,
                      n |-> k, level |-> l, user |-> u, at |-> now,
                      occurred |-> occurred, snap |-> issues[f]])
    BY DEF RecordRead
  <2>2. PICK occurred \in 0 .. now, f \in FindIssue(t) :
          Begin(w, [op |-> "record", id |-> spent.reports + 1, target |-> f,
                    n |-> k, level |-> l, user |-> u, at |-> now,
                    occurred |-> occurred, snap |-> issues[f]])
    BY <2>1
  <2>3. txn'[w].op = "record" /\ txn'[w].id = n + 1
    BY <1>1, <2>2 DEF Begin, TypeOK
  <2>4. spent'.reports = n + 1 /\ events' = events
    BY <1>1 DEF RecordRead, TypeOK
  <2> QED
    BY <2>3, <2>4
<1>3. \A v \in Workers \ {w} : txn'[v] = txn[v]
  BY OthersWait DEF Step
<1>4. /\ \A e \in events : e.id \in Nat /\ e.id <= n
      /\ \A v \in Workers : Recording(v) => txn[v].id \in Nat /\ txn[v].id <= n
  <2>1. \A e \in events : e.id \in Nat
    BY DEF TypeOK, Event
  <2>2. \A v \in Workers : Recording(v) => txn[v].id \in Nat
    BY Kinds, RequestTyped DEF Recording, RecordRequest
  <2> QED
    BY <1>1, <2>1, <2>2 DEF EraseInv, OwnIds
<1>5. \A v \in Workers : Erasing(v) => \A i \in txn[v].had : i \in Nat /\ i <= n
  <2>1. \A v \in Workers : Erasing(v) => txn[v].had \subseteq Nat
    BY Kinds, RequestTyped DEF Erasing, Erasure
  <2> QED
    BY <1>1, <2>1 DEF EraseInv, ErasuresGoOn
<1>6. OwnIds'
  <2>1. \A d, e \in events' : d.id = e.id => d = e
    BY <1>2 DEF EraseInv, OwnIds
  <2>2. \A e \in events' : e.id <= spent'.reports
    BY <1>2, <1>4
  <2>3. ASSUME NEW v \in Workers, txn'[v].op = "record"
        PROVE  txn'[v].id <= spent'.reports /\ \A e \in events' : e.id # txn'[v].id
    <3>1. CASE v = w
      BY <1>2, <1>4, <3>1
    <3>2. CASE v # w
      <4>1. txn'[v] = txn[v] /\ Recording(v)
        BY <1>3, <2>3, <3>2 DEF Recording
      <4> QED
        BY <1>2, <1>4, <4>1 DEF EraseInv, OwnIds
    <3> QED
      BY <3>1, <3>2
  <2>4. ASSUME NEW u \in Workers, NEW v \in Workers, u # v,
               txn'[u].op = "record", txn'[v].op = "record"
        PROVE  txn'[u].id # txn'[v].id
    <3>1. \A x \in Workers \ {w} : txn'[x].op = "record" =>
            Recording(x) /\ txn'[x].id = txn[x].id /\ txn'[x].id \in Nat /\ txn'[x].id <= n
      BY <1>3, <1>4 DEF Recording
    <3>2. CASE u = w \/ v = w
      BY <1>2, <2>4, <3>1, <3>2
    <3>3. CASE u # w /\ v # w
      BY <2>4, <3>1, <3>3 DEF EraseInv, OwnIds
    <3> QED
      BY <3>2, <3>3
  <2> QED
    BY <2>1, <2>2, <2>3, <2>4 DEF OwnIds, Recording
<1>7. ASSUME NEW v \in Workers, txn'[v].op = "erase"
      PROVE  /\ \A i \in txn'[v].had : /\ i <= spent'.reports
                                       /\ \A x \in Workers : txn'[x].op = "record" => txn'[x].id # i
             /\ \A e \in events' :
                  e.user = txn'[v].user /\ e.id \in txn'[v].had => e.id \in txn'[v].todo
  <2>1. txn'[v] = txn[v] /\ Erasing(v)
    BY <1>2, <1>3, <1>7 DEF Erasing
  <2>2. ASSUME NEW i \in txn[v].had, NEW x \in Workers, txn'[x].op = "record"
        PROVE  txn'[x].id # i
    <3>1. i \in Nat /\ i <= n
      BY <1>5, <2>1, <2>2
    <3>2. CASE x = w
      BY <1>2, <3>1, <3>2
    <3>3. CASE x # w
      BY <1>3, <2>1, <2>2, <3>3 DEF EraseInv, ErasuresGoOn, Recording
    <3> QED
      BY <3>2, <3>3
  <2>3. \A i \in txn[v].had : i <= spent'.reports
    BY <1>2, <1>5, <2>1
  <2>4. \A e \in events : e.user = txn[v].user /\ e.id \in txn[v].had => e.id \in txn[v].todo
    BY <2>1 DEF EraseInv, ErasuresGoOn
  <2> QED
    BY <1>2, <2>1, <2>2, <2>3, <2>4
<1>8. ErasuresGoOn'
  BY <1>7 DEF ErasuresGoOn, Erasing, Recording
<1> QED
  BY <1>6, <1>8 DEF EraseInv

\* Its event takes the id with it, and is none an erasure has found.
LEMMA RecordWriteErase ==
  ASSUME TypeOK, EraseInv, NEW w \in Workers, RecordWrite(w)
  PROVE  EraseInv'
<1>1. PICK r \in RecordRequest : r = txn[w] /\ Recording(w)
  BY Kinds, RequestTyped DEF RecordWrite, Recording
<1>2. events' \subseteq events \cup {EventRow(r)} /\ EventRow(r).id = r.id
  <2>1. PICK kept \in Capped(r.target, EventsOf(r.target) \cup {EventRow(r)}) :
          events' = (events \ EventsOf(r.target)) \cup kept
    BY <1>1 DEF RecordWrite
  <2>2. kept \subseteq EventsOf(r.target) \cup {EventRow(r)}
    BY CappedSubset
  <2> QED
    BY <2>1, <2>2 DEF EventsOf, EventRow
<1>3. spent' = spent /\ txn'[w].op = "after"
  BY DEF RecordWrite, Committed, TypeOK
<1>4. \A v \in Workers : /\ txn'[v].op = "record" => txn'[v] = txn[v] /\ Recording(v) /\ v # w
                         /\ txn'[v].op = "erase" => txn'[v] = txn[v] /\ Erasing(v)
  BY <1>3, OthersWait DEF Recording, Erasing, Step
<1>5. /\ r.id <= spent.reports /\ \A e \in events : e.id # r.id
      /\ \A v \in Workers : Recording(v) /\ v # w => txn[v].id # r.id
      /\ \A v \in Workers : Erasing(v) => r.id \notin txn[v].had
  BY <1>1 DEF EraseInv, OwnIds, ErasuresGoOn
<1>6. OwnIds'
  <2>1. \A d, e \in events' : d.id = e.id => d = e
    BY <1>2, <1>5 DEF EraseInv, OwnIds
  <2>2. \A e \in events' : e.id <= spent'.reports
    BY <1>2, <1>3, <1>5 DEF EraseInv, OwnIds
  <2>3. \A v \in Workers : txn'[v].op = "record" =>
          txn'[v].id <= spent'.reports /\ \A e \in events' : e.id # txn'[v].id
    BY <1>2, <1>3, <1>4, <1>5 DEF EraseInv, OwnIds
  <2>4. \A u, v \in Workers : txn'[u].op = "record" /\ txn'[v].op = "record" /\ u # v
          => txn'[u].id # txn'[v].id
    BY <1>4 DEF EraseInv, OwnIds
  <2> QED
    BY <2>1, <2>2, <2>3, <2>4 DEF OwnIds, Recording
<1>7. ASSUME NEW v \in Workers, txn'[v].op = "erase"
      PROVE  /\ \A i \in txn'[v].had : /\ i <= spent'.reports
                                       /\ \A x \in Workers : txn'[x].op = "record" => txn'[x].id # i
             /\ \A e \in events' :
                  e.user = txn'[v].user /\ e.id \in txn'[v].had => e.id \in txn'[v].todo
  <2>1. txn'[v] = txn[v] /\ Erasing(v) /\ r.id \notin txn[v].had
    BY <1>4, <1>5, <1>7
  <2> QED
    BY <1>2, <1>3, <1>4, <2>1 DEF EraseInv, ErasuresGoOn
<1>8. ErasuresGoOn'
  BY <1>7 DEF ErasuresGoOn, Erasing, Recording
<1> QED
  BY <1>6, <1>8 DEF EraseInv

\* An erasure starts with every event that names the person still to be saved.
LEMMA EraseListErase ==
  ASSUME TypeOK, EraseInv, NEW w \in Workers, EraseList(w)
  PROVE  EraseInv'
<1>1. PICK u \in Subjects :
        txn' = [txn EXCEPT ![w] = [op |-> "erase", user |-> u, todo |-> Listed(u),
                                   had |-> {e.id : e \in Naming(u)}]]
  BY DEF EraseList, Begin
<1>2. /\ txn'[w].op = "erase" /\ txn'[w].user = u
      /\ txn'[w].todo = {e.id : e \in Naming(u)} /\ txn'[w].had = {e.id : e \in Naming(u)}
      /\ \A v \in Workers \ {w} : txn'[v] = txn[v]
  BY <1>1 DEF TypeOK, Listed
<1>3. events' = events /\ spent'.reports = spent.reports
  BY DEF EraseList, TypeOK
<1>4. \A v \in Workers : txn'[v].op = "record" => txn'[v] = txn[v] /\ Recording(v)
  BY <1>2 DEF Recording
<1>5. OwnIds'
  BY <1>3, <1>4 DEF EraseInv, OwnIds, Recording
<1>6. \A i \in {e.id : e \in Naming(u)} :
        i <= spent.reports /\ \A v \in Workers : Recording(v) => txn[v].id # i
  BY DEF EraseInv, OwnIds, Naming
<1>7. ASSUME NEW v \in Workers, txn'[v].op = "erase"
      PROVE  /\ \A i \in txn'[v].had : /\ i <= spent'.reports
                                       /\ \A x \in Workers : txn'[x].op = "record" => txn'[x].id # i
             /\ \A e \in events' :
                  e.user = txn'[v].user /\ e.id \in txn'[v].had => e.id \in txn'[v].todo
  <2>1. CASE v = w
    BY <1>2, <1>3, <1>4, <1>6, <2>1
  <2>2. CASE v # w
    <3>1. txn'[v] = txn[v] /\ Erasing(v)
      BY <1>2, <1>7, <2>2 DEF Erasing
    <3> QED
      BY <1>3, <1>4, <3>1 DEF EraseInv, ErasuresGoOn
  <2> QED
    BY <2>1, <2>2
<1>8. ErasuresGoOn'
  BY <1>7 DEF ErasuresGoOn, Erasing, Recording
<1> QED
  BY <1>5, <1>8 DEF EraseInv

\* A row that is saved no longer names anybody, and no other row has its id.
LEMMA EraseRowErase ==
  ASSUME TypeOK, EraseInv, NEW w \in Workers, EraseRow(w)
  PROVE  EraseInv'
<1>1. PICK r \in Erasure : r = txn[w] /\ Erasing(w)
  BY Kinds, RequestTyped DEF EraseRow, Erasing
<1>2. PICK e \in events :
        /\ e.id \in r.todo
        /\ events' = (events \ {e}) \cup {Forgotten(e)}
        /\ txn' = [txn EXCEPT ![w] = [r EXCEPT !.todo = @ \ {e.id}]]
  BY <1>1 DEF EraseRow, Begin
<1>3. /\ txn'[w].op = "erase" /\ txn'[w].user = r.user
      /\ txn'[w].todo = r.todo \ {e.id} /\ txn'[w].had = r.had
      /\ \A v \in Workers \ {w} : txn'[v] = txn[v]
  <2>1. /\ [r EXCEPT !.todo = @ \ {e.id}].op = "erase"
        /\ [r EXCEPT !.todo = @ \ {e.id}].user = r.user
        /\ [r EXCEPT !.todo = @ \ {e.id}].todo = r.todo \ {e.id}
        /\ [r EXCEPT !.todo = @ \ {e.id}].had = r.had
    BY DEF Erasure
  <2> QED
    BY <1>2, <2>1 DEF TypeOK
<1>4. Forgotten(e).id = e.id /\ Forgotten(e).user = NoUser
  BY DEF TypeOK, Event, Forgotten
<1>5. \A v \in Workers : Erasing(v) => txn[v].user # NoUser
  BY Kinds, RequestTyped DEF Erasing, Erasure, Subjects
<1>6. spent' = spent
  BY DEF EraseRow
<1>7. \A v \in Workers : txn'[v].op = "record" => txn'[v] = txn[v] /\ Recording(v)
  BY <1>3 DEF Recording
<1>8. \A d \in events : d.id = e.id => d = e
  BY DEF EraseInv, OwnIds
<1>9. \A d \in events' : \/ d \in events /\ d # e /\ d.id # e.id
                         \/ d = Forgotten(e) /\ d.id = e.id /\ d.user = NoUser
  BY <1>2, <1>4, <1>8
<1>10. OwnIds'
  <2>1. \A c, d \in events' : c.id = d.id => c = d
    BY <1>9 DEF EraseInv, OwnIds
  <2>2. \A d \in events' : d.id <= spent'.reports
    BY <1>6, <1>9 DEF EraseInv, OwnIds
  <2>3. \A v \in Workers : txn'[v].op = "record" =>
          txn'[v].id <= spent'.reports /\ \A d \in events' : d.id # txn'[v].id
    BY <1>6, <1>7, <1>9 DEF EraseInv, OwnIds
  <2>4. \A u, v \in Workers : txn'[u].op = "record" /\ txn'[v].op = "record" /\ u # v
          => txn'[u].id # txn'[v].id
    BY <1>7 DEF EraseInv, OwnIds
  <2> QED
    BY <2>1, <2>2, <2>3, <2>4 DEF OwnIds, Recording
<1>11. ASSUME NEW v \in Workers, txn'[v].op = "erase"
       PROVE  /\ \A i \in txn'[v].had : /\ i <= spent'.reports
                                        /\ \A x \in Workers : txn'[x].op = "record" => txn'[x].id # i
              /\ \A d \in events' :
                   d.user = txn'[v].user /\ d.id \in txn'[v].had => d.id \in txn'[v].todo
  <2>1. /\ Erasing(v) /\ txn'[v].had = txn[v].had /\ txn'[v].user = txn[v].user
        /\ txn'[v].todo \in {txn[v].todo, txn[v].todo \ {e.id}}
    BY <1>1, <1>3, <1>11 DEF Erasing
  <2>2. \A i \in txn[v].had : /\ i <= spent.reports
                              /\ \A x \in Workers : Recording(x) => txn[x].id # i
    BY <2>1 DEF EraseInv, ErasuresGoOn
  <2>3. \A d \in events : d.user = txn[v].user /\ d.id \in txn[v].had => d.id \in txn[v].todo
    BY <2>1 DEF EraseInv, ErasuresGoOn
  <2>4. txn[v].user # NoUser
    BY <1>5, <2>1
  <2> QED
    BY <1>6, <1>7, <1>9, <2>1, <2>2, <2>3, <2>4
<1>12. ErasuresGoOn'
  BY <1>11 DEF ErasuresGoOn, Erasing, Recording
<1> QED
  BY <1>10, <1>12 DEF EraseInv

\* Every step keeps the ids apart and the erasures going.
LEMMA NextErase == TypeOK /\ EraseInv /\ [Next]_vars => EraseInv'
<1> SUFFICES ASSUME TypeOK, EraseInv, [Next]_vars PROVE EraseInv'
  OBVIOUS
<1>1. ASSUME Tick \/ UNCHANGED vars PROVE EraseInv'
  BY <1>1 DEF Tick, vars, EraseInv, OwnIds, ErasuresGoOn, Recording, Erasing
<1>2. ASSUME NEW w \in Workers, Step(w) PROVE EraseInv'
  <2>1. CASE RecordRead(w) \/ RecordWrite(w) \/ EraseList(w) \/ EraseRow(w)
    BY <2>1, RecordReadErase, RecordWriteErase, EraseListErase, EraseRowErase
  <2>2. CASE ~ (RecordRead(w) \/ RecordWrite(w) \/ EraseList(w) \/ EraseRow(w))
    <3>1. \A v \in Workers \ {w} : txn'[v] = txn[v]
      BY <1>2, OthersWait
    <3>2. /\ events' \subseteq events /\ spent'.reports = spent.reports
          /\ txn'[w].op \notin {"record", "erase"}
      BY <1>2, <2>2, OtherSteps
    <3> QED
      BY <3>1, <3>2, OtherStepsErase
  <2> QED
    BY <2>1, <2>2
<1> QED
  BY <1>1, <1>2 DEF Next

\* "What it must not keep is which person it failed for" (gdpr.py): an erasure
\* reported done has saved every event that named the person when it began,
\* whatever other workers recorded, capped, swept and erased meanwhile.
THEOREM ErasuresForget == Spec => DoneErasureForgets
<1>1. Init => EraseInv
  BY DEF Init, EraseInv, OwnIds, ErasuresGoOn, Recording, Erasing, Idle
<1>2. TypeOK /\ EraseInv /\ [Next]_vars
        => [\A w \in Workers :
              EraseEnd(w) => \A e \in Naming(txn[w].user) : e.id \notin txn[w].had]_vars
  <2> SUFFICES ASSUME EraseInv, NEW w \in Workers, EraseEnd(w),
                      NEW e \in Naming(txn[w].user)
               PROVE  e.id \notin txn[w].had
    OBVIOUS
  <2>1. Erasing(w) /\ txn[w].todo = {}
    BY DEF EraseEnd, Erasing, Done
  <2>2. e \in events /\ e.user = txn[w].user
    BY DEF Naming
  <2> QED
    BY <2>1, <2>2 DEF EraseInv, ErasuresGoOn
<1> QED
  BY <1>1, <1>2, Typing, NextErase, PTL DEF Spec, DoneErasureForgets

-----------------------------------------------------------------------------
(* Openings                                                                *)

\* A worker that has committed an opening, and is about to tell of it.
Tells(r, f) == r.op = "after" /\ r.target = f /\ r.fact = "opened"
Telling(f) == {w \in Workers : Tells(txn[w], f)}

Present(f) == IF f \in Rows THEN 1 ELSE 0

\* An opening that was told, or may still be, is that of the row there is or of
\* one that was deleted.
OpeningsPaid ==
  \A f \in Traces :
    /\ IsFiniteSet(Telling(f))
    /\ hist[f].openedFacts + Cardinality(Telling(f)) <= hist[f].deleted + Present(f)

\* The worker that takes a step may begin to tell or stop telling.
LEMMA TellingMoves ==
  ASSUME TypeOK, NEW w \in Workers, Step(w), NEW f \in Traces, IsFiniteSet(Telling(f))
  PROVE  /\ IsFiniteSet(Telling(f)')
         /\ Cardinality(Telling(f)) \in Nat /\ Cardinality(Telling(f)') \in Nat
         /\ Cardinality(Telling(f)') <= Cardinality(Telling(f)) + 1
         /\ ~ Tells(txn'[w], f) => Cardinality(Telling(f)') <= Cardinality(Telling(f))
         /\ ~ Tells(txn'[w], f) /\ Tells(txn[w], f)
              => Cardinality(Telling(f)') = Cardinality(Telling(f)) - 1
<1>1. \A v \in Workers \ {w} : txn'[v] = txn[v]
  BY OthersWait
<1>2. CASE Tells(txn'[w], f)
  <2>1. Telling(f)' = Telling(f) \cup {w}
    BY <1>1, <1>2 DEF Telling
  <2> QED
    BY <1>2, <2>1, FS_AddElement, FS_CardinalityType
<1>3. CASE ~ Tells(txn'[w], f)
  <2>1. Telling(f)' = Telling(f) \ {w}
    BY <1>1, <1>3 DEF Telling
  <2>2. Tells(txn[w], f) <=> w \in Telling(f)
    BY DEF Telling
  <2>3. Cardinality(Telling(f)) \in Nat
    BY FS_CardinalityType
  <2>4. CASE w \in Telling(f)
    <3>1. /\ IsFiniteSet(Telling(f)')
          /\ Cardinality(Telling(f)') = Cardinality(Telling(f)) - 1
      BY <2>1, <2>4, FS_RemoveElement
    <3>2. Cardinality(Telling(f)') \in Nat
      BY <3>1, FS_CardinalityType
    <3> QED
      BY <1>3, <2>2, <2>3, <2>4, <3>1, <3>2
  <2>5. CASE w \notin Telling(f)
    <3>1. Telling(f)' = Telling(f)
      BY <2>1, <2>5
    <3> QED
      BY <1>3, <2>2, <2>3, <2>5, <3>1
  <2> QED
    BY <2>4, <2>5
<1> QED
  BY <1>2, <1>3

\* Of workers that race to insert a row one opens it: the row was not there.
LEMMA RecordOpens ==
  ASSUME TypeOK, NEW w \in Workers, RecordWrite(w), NEW f \in Traces
  PROVE  /\ Tells(txn'[w], f) => f \notin Rows /\ f \in Rows'
         /\ Present(f) <= Present(f)'
         /\ hist'[f].openedFacts = hist[f].openedFacts /\ hist'[f].deleted = hist[f].deleted
<1> DEFINE r == txn[w]
<1>1. /\ r \in RecordRequest /\ r.target \in Traces
      /\ ~ Clash(r)
      /\ issues' = [issues EXCEPT ![r.target] = IF r.snap = NoRow THEN Opened(r) ELSE Joined(r)]
      /\ hist' = [hist EXCEPT ![r.target].recorded = @ + r.n]
      /\ txn' = [txn EXCEPT ![w] = [op |-> "after", target |-> r.target, fact |-> Fact(r)]]
  BY Kinds, RequestTyped DEF RecordWrite, RecordRequest, Committed
<1>2. (IF r.snap = NoRow THEN Opened(r) ELSE Joined(r)) # NoRow
  BY <1>1, OpenedTyped, JoinedTyped, RowAssumption DEF RecordRequest
<1> HIDE DEF r
<1>3. /\ r.target \in Rows'
      /\ f # r.target => (f \in Rows' <=> f \in Rows)
  BY <1>1, <1>2 DEF Rows, TypeOK
<1>4. Tells(txn'[w], f) => f = r.target /\ r.snap = NoRow
  BY <1>1 DEF Tells, Fact, TypeOK
<1>5. r.snap = NoRow => r.target \notin Rows
  BY <1>1 DEF Clash, Rows
<1>6. hist'[f].openedFacts = hist[f].openedFacts /\ hist'[f].deleted = hist[f].deleted
  BY <1>1 DEF TypeOK, History
<1> QED
  BY <1>3, <1>4, <1>5, <1>6 DEF Present

\* A row that is deleted is counted as deleted.
LEMMA SweepCloses ==
  ASSUME TypeOK, NEW w \in Workers, SweepDelete(w), NEW f \in Traces
  PROVE  /\ ~ Tells(txn'[w], f)
         /\ hist'[f].openedFacts = hist[f].openedFacts
         /\ hist'[f].deleted + Present(f)' = hist[f].deleted + Present(f)
<1> DEFINE gone == {g \in Rows : issues[g].id \in txn[w].ids}
<1>1. /\ issues' = [g \in Traces |-> IF g \in gone THEN NoRow ELSE issues[g]]
      /\ hist' = [g \in Traces |-> IF g \in gone
                    THEN [hist[g] EXCEPT !.swept = @ + issues[g].count, !.deleted = @ + 1]
                    ELSE hist[g]]
      /\ txn' = [txn EXCEPT ![w] = [op |-> "after sweep"]]
  BY DEF SweepDelete
<1>2. ~ Tells(txn'[w], f)
  BY <1>1 DEF Tells, TypeOK
<1>3. hist[f].deleted \in Nat /\ (f \in gone => f \in Rows)
  BY DEF TypeOK, History
<1> HIDE DEF gone
<1>4. CASE f \in gone
  <2>1. f \notin Rows'
    BY <1>1, <1>4 DEF Rows
  <2>2. hist'[f].openedFacts = hist[f].openedFacts /\ hist'[f].deleted = hist[f].deleted + 1
    BY <1>1, <1>4 DEF TypeOK, History
  <2> QED
    BY <1>2, <1>3, <1>4, <2>1, <2>2 DEF Present
<1>5. CASE f \notin gone
  <2>1. f \in Rows' <=> f \in Rows
    <3>1. issues'[f] = issues[f]
      BY <1>1, <1>5
    <3> QED
      BY <3>1 DEF Rows
  <2>2. hist'[f] = hist[f]
    BY <1>1, <1>5
  <2> QED
    BY <1>2, <2>1, <2>2 DEF Present
<1> QED
  BY <1>4, <1>5

\* What is told of is no longer to be told of; emit() may lose it.
LEMMA AfterTells ==
  ASSUME TypeOK, NEW w \in Workers, AfterCommit(w), NEW f \in Traces
  PROVE  /\ ~ Tells(txn'[w], f)
         /\ Present(f)' = Present(f) /\ hist'[f].deleted = hist[f].deleted
         /\ \/ hist'[f].openedFacts = hist[f].openedFacts
            \/ hist'[f].openedFacts = hist[f].openedFacts + 1 /\ Tells(txn[w], f)
<1> DEFINE g == txn[w].target
<1>1. /\ txn[w].op = "after" /\ issues' = issues /\ txn' = [txn EXCEPT ![w] = Idle]
      /\ \/ hist' = hist
         \/ txn[w].fact = "opened" /\ hist' = [hist EXCEPT ![g].openedFacts = @ + 1]
         \/ hist' = [hist EXCEPT ![g].regressedFacts = @ + 1]
  BY DEF AfterCommit, Finish
<1>2. ~ Tells(txn'[w], f)
  BY <1>1 DEF Tells, Idle, TypeOK
<1>3. Present(f)' = Present(f)
  BY <1>1 DEF Present, Rows
<1> HIDE DEF g
<1>4. CASE hist' = hist
  BY <1>2, <1>3, <1>4
<1>5. CASE txn[w].fact = "opened" /\ hist' = [hist EXCEPT ![g].openedFacts = @ + 1]
  <2>1. /\ hist'[f].deleted = hist[f].deleted
        /\ hist'[f].openedFacts = IF f = g THEN hist[f].openedFacts + 1 ELSE hist[f].openedFacts
    BY <1>5 DEF TypeOK, History
  <2> QED
    BY <1>1, <1>2, <1>3, <1>5, <2>1 DEF Tells, g
<1>6. CASE hist' = [hist EXCEPT ![g].regressedFacts = @ + 1]
  BY <1>2, <1>3, <1>6 DEF TypeOK, History
<1> QED
  BY <1>1, <1>4, <1>5, <1>6

\* No other step of a worker opens, deletes or tells.
LEMMA OthersTellNothing ==
  ASSUME TypeOK, NEW w \in Workers, Step(w), NEW f \in Traces,
         ~ RecordWrite(w), ~ SweepDelete(w), ~ AfterCommit(w)
  PROVE  /\ ~ Tells(txn'[w], f)
         /\ Present(f)' = Present(f)
         /\ hist'[f].openedFacts = hist[f].openedFacts /\ hist'[f].deleted = hist[f].deleted
<1>1. CASE \/ RecordRead(w) \/ FixRead(w) \/ PatchRead(w) \/ EraseList(w) \/ EraseRow(w)
           \/ SweepExpired(w) \/ SweepOverCap(w) \/ SweepList(w)
  <2>1. issues' = issues /\ hist' = hist
    BY <1>1 DEF RecordRead, FixRead, PatchRead, EraseList, EraseRow, SweepExpired,
                SweepOverCap, SweepList
  <2>2. CASE RecordRead(w)
    BY <2>1, <2>2 DEF RecordRead, Begin, Tells, Present, Rows, TypeOK
  <2>3. CASE FixRead(w) \/ PatchRead(w)
    BY <2>1, <2>3 DEF FixRead, PatchRead, Begin, Tells, Present, Rows, TypeOK
  <2>4. CASE EraseList(w)
    BY <2>1, <2>4 DEF EraseList, Begin, Tells, Present, Rows, TypeOK
  <2>5. CASE EraseRow(w)
    <3>1. txn'[w].op = "erase"
      <4>1. txn[w] \in Erasure /\ \E i : txn'[w] = [txn[w] EXCEPT !.todo = @ \ {i}]
        BY <2>5, Kinds, RequestTyped DEF EraseRow, Begin, TypeOK
      <4> QED
        BY <4>1 DEF Erasure
    <3> QED
      BY <2>1, <3>1 DEF Tells, Present, Rows
  <2>6. CASE SweepExpired(w) \/ SweepOverCap(w) \/ SweepList(w)
    <3>1. w \in DOMAIN txn
      BY DEF TypeOK
    <3>2. txn'[w].op # "after"
      <4>1. CASE SweepExpired(w)
        BY <3>1, <4>1 DEF SweepExpired, Begin
      <4>2. CASE SweepOverCap(w)
        BY <3>1, <4>2 DEF SweepOverCap, Begin
      <4>3. CASE SweepList(w)
        BY <3>1, <4>3 DEF SweepList, Begin
      <4> QED
        BY <2>6, <4>1, <4>2, <4>3
    <3> QED
      BY <2>1, <3>2 DEF Tells, Present, Rows
  <2> QED
    BY <1>1, <2>2, <2>3, <2>4, <2>5, <2>6
<1>2. CASE \/ RecordRaise(w) \/ EditMissed(w) \/ EraseEnd(w) \/ EraseMissed(w)
           \/ AfterSweep(w) \/ Crash(w)
  <2>1. issues' = issues /\ txn' = [txn EXCEPT ![w] = Idle]
    BY <1>2 DEF RecordRaise, EditMissed, EraseEnd, EraseMissed, AfterSweep, Crash, Finish
  <2>2. ~ Tells(txn'[w], f) /\ Present(f)' = Present(f)
    BY <2>1 DEF Tells, Idle, Present, Rows, TypeOK
  <2>3. hist'[f].openedFacts = hist[f].openedFacts /\ hist'[f].deleted = hist[f].deleted
    <3>1. CASE RecordRaise(w)
      <4>1. hist' = [hist EXCEPT ![txn[w].target].raised = @ + txn[w].n]
        BY <3>1 DEF RecordRaise
      <4> QED
        BY <4>1 DEF TypeOK, History
    <3>2. CASE ~ RecordRaise(w)
      BY <1>2, <3>2 DEF EditMissed, EraseEnd, EraseMissed, AfterSweep, Crash
    <3> QED
      BY <3>1, <3>2
  <2> QED
    BY <2>2, <2>3
<1>3. CASE FixWrite(w)
  <2>1. txn[w].target \in Rows /\ issues[txn[w].target] \in Row
    BY <1>3 DEF FixWrite, StillThere, Rows, TypeOK
  <2>2. Fixed(issues[txn[w].target]) # NoRow
    <3>1. now \in Nat
      BY DEF TypeOK
    <3>2. Fixed(issues[txn[w].target]) \in Row
      BY <2>1, <3>1, FixedTyped
    <3> QED
      BY <3>2, RowAssumption
  <2>3. Present(f)' = Present(f)
    BY <1>3, <2>1, <2>2 DEF FixWrite, Present, Rows, TypeOK
  <2>4. hist'[f].openedFacts = hist[f].openedFacts /\ hist'[f].deleted = hist[f].deleted
    BY <1>3 DEF FixWrite, TypeOK, History
  <2> QED
    BY <1>3, <2>3, <2>4 DEF FixWrite, Committed, Tells, TypeOK
<1>4. CASE PatchWrite(w)
  <2>1. /\ txn[w] \in PatchRequest
        /\ txn[w].target \in Rows /\ issues[txn[w].target] \in Row
    BY <1>4, Kinds, RequestTyped DEF PatchWrite, StillThere, Rows, TypeOK
  <2>2. Patched(issues[txn[w].target], txn[w]) # NoRow
    BY <2>1, PatchedTyped, RowAssumption
  <2>3. Present(f)' = Present(f)
    BY <1>4, <2>1, <2>2 DEF PatchWrite, Present, Rows, TypeOK
  <2>4. hist'[f].openedFacts = hist[f].openedFacts /\ hist'[f].deleted = hist[f].deleted
    BY <1>4 DEF PatchWrite, TypeOK, History
  <2> QED
    BY <1>4, <2>3, <2>4 DEF PatchWrite, Committed, Finish, Idle, Tells, TypeOK
<1> QED
  BY <1>1, <1>2, <1>3, <1>4 DEF Step

\* Every step leaves the openings paid for.
LEMMA NextPays == TypeOK /\ OpeningsPaid /\ [Next]_vars => OpeningsPaid'
<1> SUFFICES ASSUME TypeOK, OpeningsPaid, [Next]_vars PROVE OpeningsPaid'
  OBVIOUS
<1>1. CASE Tick \/ UNCHANGED vars
  BY <1>1 DEF Tick, vars, OpeningsPaid, Telling, Present, Rows
<1>2. ASSUME NEW w \in Workers, Step(w), NEW f \in Traces
      PROVE  /\ IsFiniteSet(Telling(f)')
             /\ hist'[f].openedFacts + Cardinality(Telling(f)')
                  <= hist'[f].deleted + Present(f)'
  <2>1. /\ IsFiniteSet(Telling(f))
        /\ hist[f].openedFacts + Cardinality(Telling(f)) <= hist[f].deleted + Present(f)
        /\ hist[f].openedFacts \in Nat /\ hist[f].deleted \in Nat /\ Present(f) \in 0 .. 1
    BY DEF OpeningsPaid, TypeOK, History, Present
  <2>2. /\ IsFiniteSet(Telling(f)')
        /\ Cardinality(Telling(f)) \in Nat /\ Cardinality(Telling(f)') \in Nat
        /\ Cardinality(Telling(f)') <= Cardinality(Telling(f)) + 1
        /\ ~ Tells(txn'[w], f) => Cardinality(Telling(f)') <= Cardinality(Telling(f))
        /\ ~ Tells(txn'[w], f) /\ Tells(txn[w], f)
             => Cardinality(Telling(f)') = Cardinality(Telling(f)) - 1
    BY <1>2, <2>1, TellingMoves
  <2>3. Present(f)' \in 0 .. 1
    BY DEF Present
  <2>4. CASE RecordWrite(w)
    <3>1. /\ Tells(txn'[w], f) => f \notin Rows /\ f \in Rows'
          /\ Present(f) <= Present(f)'
          /\ hist'[f].openedFacts = hist[f].openedFacts /\ hist'[f].deleted = hist[f].deleted
      BY <2>4, RecordOpens
    <3>2. Tells(txn'[w], f) => Present(f) = 0 /\ Present(f)' = 1
      BY <3>1 DEF Present
    <3> QED
      BY <2>1, <2>2, <2>3, <3>1, <3>2
  <2>5. CASE SweepDelete(w)
    BY <2>1, <2>2, <2>3, <2>5, SweepCloses
  <2>6. CASE AfterCommit(w)
    <3>1. /\ ~ Tells(txn'[w], f)
          /\ Present(f)' = Present(f) /\ hist'[f].deleted = hist[f].deleted
          /\ \/ hist'[f].openedFacts = hist[f].openedFacts
             \/ hist'[f].openedFacts = hist[f].openedFacts + 1 /\ Tells(txn[w], f)
      BY <2>6, AfterTells
    <3> QED
      BY <2>1, <2>2, <2>3, <3>1
  <2>7. CASE ~ (RecordWrite(w) \/ SweepDelete(w) \/ AfterCommit(w))
    BY <1>2, <2>1, <2>2, <2>3, <2>7, OthersTellNothing
  <2> QED
    BY <2>4, <2>5, <2>6, <2>7
<1> QED
  BY <1>1, <1>2 DEF Next, OpeningsPaid

\* Subscribers of alerts.issue.opened hear of an issue once for each life of its
\* row, however many workers race to open it: the unique fingerprint lets one of
\* them insert, and a row re-inserted by a late save is not opened.
THEOREM OpenedOnce == Spec => []OpenedOncePerLife
<1>1. Init => OpeningsPaid
  <2> SUFFICES ASSUME Init, NEW f \in Traces
               PROVE  /\ IsFiniteSet(Telling(f))
                      /\ hist[f].openedFacts + Cardinality(Telling(f))
                           <= hist[f].deleted + Present(f)
    BY DEF OpeningsPaid
  <2>1. Telling(f) = {}
    BY DEF Init, Telling, Tells, Idle
  <2> QED
    BY <2>1, FS_EmptySet DEF Init, NoHistory, Present
<1>2. TypeOK /\ OpeningsPaid => OpenedOncePerLife
  <2> SUFFICES ASSUME TypeOK, OpeningsPaid, NEW f \in Traces
               PROVE  hist[f].openedFacts <= hist[f].deleted + 1
    BY DEF OpenedOncePerLife
  <2>1. /\ hist[f].openedFacts \in Nat /\ hist[f].deleted \in Nat /\ Present(f) \in 0 .. 1
        /\ Cardinality(Telling(f)) \in Nat
        /\ hist[f].openedFacts + Cardinality(Telling(f)) <= hist[f].deleted + Present(f)
    BY FS_CardinalityType DEF OpeningsPaid, TypeOK, History, Present
  <2> QED
    BY <2>1
<1> QED
  BY <1>1, <1>2, Typing, NextPays, PTL DEF Spec

-----------------------------------------------------------------------------
(* What the steps read, write and count                                    *)

\* The steps that change the issue table.
Writes(w) == RecordWrite(w) \/ FixWrite(w) \/ PatchWrite(w) \/ SweepDelete(w)

\* The steps that read what a later one writes.
Reads(w) == RecordRead(w) \/ FixRead(w) \/ PatchRead(w) \/ SweepList(w)

\* What every other step leaves alone.
LEMMA NeitherReadsNorWrites ==
  ASSUME TypeOK, NEW w \in Workers, Step(w), ~ Reads(w), ~ Writes(w)
  PROVE  /\ issues' = issues /\ spent'.reports = spent.reports
         /\ txn'[w].op \notin {"record", "fix", "patch", "sweep delete", "after", "after sweep"}
<1>1. CASE \/ RecordRaise(w) \/ EditMissed(w) \/ AfterCommit(w) \/ AfterSweep(w)
           \/ EraseEnd(w) \/ EraseMissed(w)
  <2>1. Finish(w) /\ issues' = issues /\ spent' = spent
    BY <1>1 DEF RecordRaise, EditMissed, AfterCommit, AfterSweep, EraseEnd, EraseMissed
  <2> QED
    BY <2>1 DEF Finish, Idle, TypeOK
<1>2. CASE Crash(w)
  BY <1>2 DEF Crash, Finish, Idle, TypeOK
<1>3. CASE SweepExpired(w)
  BY <1>3 DEF SweepExpired, Begin, TypeOK
<1>4. CASE SweepOverCap(w)
  BY <1>4 DEF SweepOverCap, Begin, TypeOK
<1>5. CASE EraseList(w)
  BY <1>5 DEF EraseList, Begin, TypeOK
<1>6. CASE EraseRow(w)
  <2>1. PICK r \in Erasure : r = txn[w]
    BY <1>6, Kinds, RequestTyped DEF EraseRow
  <2>2. PICK e \in events : txn' = [txn EXCEPT ![w] = [r EXCEPT !.todo = @ \ {e.id}]]
    BY <1>6, <2>1 DEF EraseRow, Begin
  <2>3. [r EXCEPT !.todo = @ \ {e.id}].op = "erase"
    BY DEF Erasure
  <2> QED
    BY <1>6, <2>2, <2>3 DEF EraseRow, TypeOK
<1> QED
  BY <1>1, <1>2, <1>3, <1>4, <1>5, <1>6 DEF Step, Reads, Writes

\* What the row record() saves has of the row it read.
LEMMA JoinedParts ==
  ASSUME NEW r \in RecordRequest, r.snap # NoRow
  PROVE  /\ r.snap \in Row
         /\ Joined(r).id = r.snap.id /\ Joined(r).status = StatusAfter(r)
         /\ Joined(r).count = r.snap.count + r.n
         /\ Joined(r).level = Larger(r.snap.level, r.level)
         /\ Joined(r).first = Smaller(r.snap.first, r.occurred)
         /\ Joined(r).last = Larger(r.snap.last, r.occurred)
<1>1. r.snap \in Row
  BY DEF RecordRequest
<1> QED
  BY <1>1, Zenon DEF Joined, Row

\* What mark_fixed and set_status leave of a row.
LEMMA EditedParts ==
  ASSUME NEW row \in Row, NEW r \in PatchRequest
  PROVE  /\ Fixed(row).status = "fixed" /\ Fixed(row).id = row.id
         /\ Fixed(row).count = row.count /\ Fixed(row).level = row.level
         /\ Fixed(row).first = row.first /\ Fixed(row).last = row.last
         /\ Patched(row, r).status = (IF r.status = "same" THEN row.status ELSE r.status)
         /\ Patched(row, r).id = row.id
         /\ Patched(row, r).count = row.count /\ Patched(row, r).level = row.level
         /\ Patched(row, r).first = row.first /\ Patched(row, r).last = row.last
<1>1. /\ Fixed(row).status = "fixed" /\ Fixed(row).id = row.id
      /\ Fixed(row).count = row.count /\ Fixed(row).level = row.level
      /\ Fixed(row).first = row.first /\ Fixed(row).last = row.last
  BY Zenon DEF Fixed, Row
<1>2. /\ Patched(row, r).status = (IF r.status = "same" THEN row.status ELSE r.status)
      /\ Patched(row, r).id = row.id
      /\ Patched(row, r).count = row.count /\ Patched(row, r).level = row.level
      /\ Patched(row, r).first = row.first /\ Patched(row, r).last = row.last
  BY DEF Patched, Row
<1> QED
  BY <1>1, <1>2

\* Every entry of the history is moved by one kind of step.
LEMMA HistoryMoves ==
  ASSUME TypeOK, NEW w \in Workers, Step(w), NEW f \in Traces
  PROVE  /\ RecordWrite(w) \/ hist'[f].recorded = hist[f].recorded
         /\ SweepDelete(w) \/ hist'[f].swept = hist[f].swept
         /\ RecordRaise(w) \/ hist'[f].raised = hist[f].raised
         /\ FixWrite(w) \/ PatchWrite(w) \/ hist'[f].fixes = hist[f].fixes
         /\ AfterCommit(w) \/ hist'[f].regressedFacts = hist[f].regressedFacts
<1>1. CASE hist' = hist
  BY <1>1
<1>2. CASE RecordWrite(w)
  <2>1. PICK h, n : hist' = [hist EXCEPT ![h].recorded = @ + n]
    BY <1>2 DEF RecordWrite
  <2> QED
    BY <1>2, <2>1 DEF TypeOK, History
<1>3. CASE RecordRaise(w)
  <2>1. PICK h, n : hist' = [hist EXCEPT ![h].raised = @ + n]
    BY <1>3 DEF RecordRaise
  <2> QED
    BY <1>3, <2>1 DEF TypeOK, History
<1>4. CASE FixWrite(w)
  BY <1>4 DEF FixWrite, TypeOK, History
<1>5. CASE PatchWrite(w)
  BY <1>5 DEF PatchWrite, TypeOK, History
<1>6. CASE SweepDelete(w)
  BY <1>6 DEF SweepDelete, TypeOK, History
<1>7. CASE AfterCommit(w)
  <2>1. PICK h : \/ hist' = hist
                 \/ hist' = [hist EXCEPT ![h].openedFacts = @ + 1]
                 \/ hist' = [hist EXCEPT ![h].regressedFacts = @ + 1]
    BY <1>7 DEF AfterCommit
  <2>2. CASE hist' = [hist EXCEPT ![h].openedFacts = @ + 1]
    BY <2>2 DEF TypeOK, History
  <2>3. CASE hist' = [hist EXCEPT ![h].regressedFacts = @ + 1]
    BY <1>7, <2>3 DEF TypeOK, History
  <2> QED
    BY <1>1, <2>1, <2>2, <2>3
<1>8. \/ hist' = hist \/ RecordWrite(w) \/ RecordRaise(w) \/ FixWrite(w)
      \/ PatchWrite(w) \/ SweepDelete(w) \/ AfterCommit(w)
  BY DEF Step, RecordRead, FixRead, PatchRead, EditMissed, SweepExpired,
         SweepOverCap, SweepList, EraseList, EraseRow, EraseEnd, EraseMissed,
         AfterSweep, Crash
<1> QED
  BY <1>1, <1>2, <1>3, <1>4, <1>5, <1>6, <1>7, <1>8

-----------------------------------------------------------------------------
(* Regressions                                                             *)

\* An issue whose fix stands.
Closed(f) == f \in Rows /\ issues[f].status = "fixed"

\* A worker has committed a regression and not yet told the subscribers.
Announces(r, f) == r.op = "after" /\ r.target = f /\ r.fact = "regressed"
Announcing(f) == {w \in Workers : Announces(txn[w], f)}

\* A worker has read the issue fixed and has not written yet what it makes of it.
Holds(r, f) == r.op = "record" /\ r.target = f /\ r.snap # NoRow /\ r.snap.status = "fixed"
Holding(f) == {w \in Workers : Holds(txn[w], f)}

\* A fix that stands may still be refuted by every worker; one that was refuted,
\* by the workers that hold a copy from before.
MayRefute(f) == IF Closed(f) THEN Cardinality(Workers) ELSE Cardinality(Holding(f))

RegressionsPaid ==
  \A f \in Traces : hist[f].regressedFacts + Cardinality(Announcing(f)) + MayRefute(f)
                      <= Cardinality(Workers) * hist[f].fixes

\* Products of the numbers of workers and of fixes.
LEMMA Multiples ==
  ASSUME NEW n \in Nat, NEW i \in Nat, NEW j \in Nat, i <= j
  PROVE  /\ n * i \in Nat /\ n * j \in Nat /\ n * i <= n * j
         /\ j = i + 1 => n * j = n * i + n
OBVIOUS

\* A set of workers in which one worker may come or go.
LEMMA OneComesOrGoes ==
  ASSUME NEW S \in SUBSET Workers, NEW T \in SUBSET Workers, NEW w, S \ {w} = T \ {w}
  PROVE  /\ Cardinality(S) \in 0 .. Cardinality(Workers) /\ Cardinality(T) \in Nat
         /\ Cardinality(Workers) \in Nat
         /\ Cardinality(T) = Cardinality(S) + (IF w \in T /\ w \notin S THEN 1 ELSE 0)
                                            - (IF w \in S /\ w \notin T THEN 1 ELSE 0)
<1>1. /\ IsFiniteSet(S) /\ Cardinality(S) \in Nat /\ Cardinality(S) <= Cardinality(Workers)
      /\ IsFiniteSet(T) /\ Cardinality(T) \in Nat /\ Cardinality(Workers) \in Nat
  BY StoreAssumption, FS_Subset, FS_CardinalityType
<1>2. CASE w \in T /\ w \notin S
  <2>1. T = S \cup {w}
    BY <1>2
  <2> QED
    BY <1>1, <1>2, <2>1, FS_AddElement
<1>3. CASE w \in S /\ w \notin T
  <2>1. T = S \ {w}
    BY <1>3
  <2> QED
    BY <1>1, <1>3, <2>1, FS_RemoveElement
<1>4. CASE w \in S <=> w \in T
  <2>1. S = T
    BY <1>4
  <2> QED
    BY <1>1, <1>4, <2>1
<1> QED
  BY <1>2, <1>3, <1>4

\* Closing an issue, by POST fix or by PATCH, is another fix.
LEMMA ClosingIsAFix ==
  ASSUME TypeOK, NEW w \in Workers, FixWrite(w) \/ PatchWrite(w), NEW f \in Traces
  PROVE  /\ hist'[f].fixes \in Nat /\ hist'[f].fixes >= hist[f].fixes
         /\ Closed(f)' => Closed(f) \/ hist'[f].fixes = hist[f].fixes + 1
<1>0. hist[f].fixes \in Nat
  BY DEF TypeOK, History
<1>1. CASE FixWrite(w)
  <2>1. PICK g \in Rows :
          /\ issues' = [issues EXCEPT ![g] = Fixed(issues[g])] /\ g \in Traces
          /\ hist' = [hist EXCEPT ![g].fixes = @ + 1, ![g].asOfFix = hist[g].recorded]
    BY <1>1 DEF FixWrite, StillThere, Rows
  <2>2. CASE f = g
    BY <1>0, <2>1, <2>2 DEF TypeOK, History
  <2>3. CASE f # g
    BY <1>0, <2>1, <2>3 DEF TypeOK, Closed, Rows
  <2> QED
    BY <2>2, <2>3
<1>2. CASE PatchWrite(w)
  <2>0. PICK r \in PatchRequest : r = txn[w]
    BY <1>2, Kinds, RequestTyped DEF PatchWrite
  <2>1. PICK g, n, m :
          /\ g \in Rows /\ g \in Traces /\ n \in {0, 1}
          /\ issues' = [issues EXCEPT ![g] = Patched(issues[g], r)]
          /\ hist' = [hist EXCEPT ![g].fixes = @ + n, ![g].asOfFix = m]
          /\ r.status = "fixed" /\ issues[g].status # "fixed" => n = 1
    <3>2. PICK g \in Rows : g = r.target /\ g \in Traces
      BY <1>2, <2>0 DEF PatchWrite, StillThere, Rows
    <3> DEFINE n == IF r.status = "fixed" /\ issues[g].status # "fixed" THEN 1 ELSE 0
               m == IF r.status = "fixed" /\ issues[g].status # "fixed"
                      THEN hist[g].recorded ELSE hist[g].asOfFix
    <3>3. /\ issues' = [issues EXCEPT ![g] = Patched(issues[g], r)]
          /\ hist' = [hist EXCEPT ![g].fixes = @ + n, ![g].asOfFix = m]
      BY <1>2, <2>0, <3>2 DEF PatchWrite
    <3>4. n \in {0, 1} /\ (r.status = "fixed" /\ issues[g].status # "fixed" => n = 1)
      OBVIOUS
    <3> QED
      BY <3>2, <3>3, <3>4
  <2>2. CASE f = g
    <3>1. hist'[f].fixes = hist[f].fixes + n
      BY <2>1, <2>2 DEF TypeOK, History
    <3>2. issues[f] \in Row /\ issues'[f] = Patched(issues[f], r)
      BY <2>1, <2>2 DEF TypeOK, Rows
    <3>3. Patched(issues[f], r).status =
            (IF r.status = "same" THEN issues[f].status ELSE r.status)
      BY <3>2, EditedParts
    <3>4. Closed(f)' => r.status = "fixed" \/ issues[f].status = "fixed"
      BY <3>2, <3>3 DEF Closed
    <3> QED
      BY <1>0, <2>1, <2>2, <3>1, <3>4 DEF Closed
  <2>3. CASE f # g
    BY <1>0, <2>1, <2>3 DEF TypeOK, Closed, Rows, History
  <2> QED
    BY <2>2, <2>3
<1> QED
  BY <1>1, <1>2

\* The occurrence that refutes a fix is one that read it.
LEMMA RecordRefutes ==
  ASSUME TypeOK, NEW w \in Workers, RecordWrite(w), NEW f \in Traces
  PROVE  /\ ~ Holds(txn'[w], f)
         /\ Announces(txn'[w], f) => Holds(txn[w], f) /\ ~ Closed(f)'
         /\ Closed(f)' => Closed(f)
<1>1. PICK r \in RecordRequest :
        /\ r = txn[w] /\ r.op = "record" /\ r.target \in Traces
        /\ issues' = [issues EXCEPT ![r.target] = IF r.snap = NoRow THEN Opened(r) ELSE Joined(r)]
        /\ txn' = [txn EXCEPT ![w] = [op |-> "after", target |-> r.target, fact |-> Fact(r)]]
  BY Kinds, RequestTyped DEF RecordWrite, RecordRequest, Committed
<1>2. txn'[w] = [op |-> "after", target |-> r.target, fact |-> Fact(r)]
  BY <1>1 DEF TypeOK
<1>3. ~ Holds(txn'[w], f)
  BY <1>2 DEF Holds
<1>4. CASE f # r.target
  <2>1. issues'[f] = issues[f]
    BY <1>1, <1>4 DEF TypeOK
  <2> QED
    BY <1>2, <1>3, <1>4, <2>1 DEF Announces, Closed, Rows
<1>5. CASE f = r.target /\ r.snap = NoRow
  <2>1. issues'[f].status = "new" /\ Fact(r) = "opened"
    BY <1>1, <1>5 DEF TypeOK, Opened, Fact
  <2> QED
    BY <1>2, <1>3, <2>1 DEF Announces, Closed
<1>6. CASE f = r.target /\ r.snap # NoRow
  <2>1. issues'[f].status = StatusAfter(r)
    BY <1>1, <1>6, JoinedParts DEF TypeOK
  <2>2. StatusAfter(r) # "fixed"
    BY DEF StatusAfter, Refutes, Unmutes
  <2>3. Fact(r) = "regressed" => r.snap.status = "fixed"
    BY DEF Fact
  <2> QED
    BY <1>1, <1>2, <1>3, <1>6, <2>1, <2>2, <2>3 DEF Announces, Holds, Closed
<1> QED
  BY <1>4, <1>5, <1>6

\* Telling the subscribers is what a worker had to tell.
LEMMA AfterAnnounces ==
  ASSUME TypeOK, NEW w \in Workers, AfterCommit(w), NEW f \in Traces
  PROVE  /\ txn'[w].op = "idle"
         /\ \/ hist'[f].regressedFacts = hist[f].regressedFacts
            \/ /\ hist'[f].regressedFacts = hist[f].regressedFacts + 1
               /\ Announces(txn[w], f)
<1>1. txn'[w].op = "idle"
  BY DEF AfterCommit, Finish, Idle, TypeOK
<1>2. PICK g : /\ g = txn[w].target
               /\ \/ hist' = hist
                  \/ hist' = [hist EXCEPT ![g].openedFacts = @ + 1]
                  \/ /\ txn[w].fact = "regressed"
                     /\ hist' = [hist EXCEPT ![g].regressedFacts = @ + 1]
  BY DEF AfterCommit
<1>3. CASE hist' = hist
  BY <1>1, <1>3
<1>4. CASE hist' = [hist EXCEPT ![g].openedFacts = @ + 1]
  BY <1>1, <1>4 DEF TypeOK, History
<1>5. CASE txn[w].fact = "regressed" /\ hist' = [hist EXCEPT ![g].regressedFacts = @ + 1]
  BY <1>1, <1>2, <1>5 DEF TypeOK, History, Announces, AfterCommit
<1> QED
  BY <1>2, <1>3, <1>4, <1>5

\* What a step does to the fixes of an issue, to who may refute them and to who tells.
LEMMA StepRefutes ==
  ASSUME TypeOK, NEW w \in Workers, Step(w), NEW f \in Traces
  PROVE  /\ Holds(txn'[w], f) => Closed(f)'
         /\ Announces(txn'[w], f) => Holds(txn[w], f) /\ ~ Closed(f)'
         /\ Closed(f)' => Closed(f) \/ hist'[f].fixes = hist[f].fixes + 1
         /\ hist'[f].fixes \in Nat /\ hist'[f].fixes >= hist[f].fixes
         /\ \/ hist'[f].regressedFacts = hist[f].regressedFacts
            \/ /\ hist'[f].regressedFacts = hist[f].regressedFacts + 1
               /\ Announces(txn[w], f) /\ ~ Announces(txn'[w], f)
<1>1. hist[f].fixes \in Nat /\ hist[f].regressedFacts \in Nat
  BY DEF TypeOK, History
<1>2. CASE RecordWrite(w)
  <2>1. /\ hist'[f].fixes = hist[f].fixes
        /\ hist'[f].regressedFacts = hist[f].regressedFacts
    <3>1. ~ FixWrite(w) /\ ~ PatchWrite(w) /\ ~ AfterCommit(w)
      BY <1>2 DEF RecordWrite, FixWrite, PatchWrite, AfterCommit
    <3> QED
      BY <3>1, HistoryMoves
  <2> QED
    BY <1>1, <1>2, <2>1, RecordRefutes
<1>3. CASE FixWrite(w) \/ PatchWrite(w)
  <2>1. ~ Holds(txn'[w], f) /\ ~ Announces(txn'[w], f)
    BY <1>3 DEF FixWrite, PatchWrite, Committed, Finish, Idle, TypeOK, Holds, Announces
  <2>2. hist'[f].regressedFacts = hist[f].regressedFacts
    <3>1. ~ AfterCommit(w)
      BY <1>3 DEF FixWrite, PatchWrite, AfterCommit
    <3> QED
      BY <3>1, HistoryMoves
  <2> QED
    BY <1>3, <2>1, <2>2, ClosingIsAFix
<1>4. CASE AfterCommit(w)
  <2>1. Closed(f)' <=> Closed(f)
    BY <1>4 DEF AfterCommit, Closed, Rows
  <2>2. hist'[f].fixes = hist[f].fixes
    <3>1. ~ FixWrite(w) /\ ~ PatchWrite(w)
      BY <1>4 DEF FixWrite, PatchWrite, AfterCommit
    <3> QED
      BY <3>1, HistoryMoves
  <2> QED
    BY <1>1, <1>4, <2>1, <2>2, AfterAnnounces DEF Holds, Announces
<1>5. CASE ~ (RecordWrite(w) \/ FixWrite(w) \/ PatchWrite(w) \/ AfterCommit(w))
  <2>1. /\ hist'[f].fixes = hist[f].fixes
        /\ hist'[f].regressedFacts = hist[f].regressedFacts
    BY <1>5, HistoryMoves
  <2>2. txn'[w].op # "after" /\ (Closed(f)' => Closed(f)) /\ (Holds(txn'[w], f) => Closed(f)')
    <3>1. CASE RecordRead(w)
      <4>1. \E r : Begin(w, r) /\ r.op = "record" /\ r.snap = issues[r.target]
        <5>1. PICK t \in Traces, n \in Occurrences, l \in Levels, u \in Users :
                \E occurred \in {x \in 0 .. now : now - x <= MaxDelay}, g \in FindIssue(t) :
                  Begin(w, [op |-> "record", id |-> spent.reports + 1, target |-> g,
                            n |-> n, level |-> l, user |-> u, at |-> now,
                            occurred |-> occurred, snap |-> issues[g]])
          BY <3>1, Zenon DEF RecordRead
        <5>2. PICK occurred, g :
                Begin(w, [op |-> "record", id |-> spent.reports + 1, target |-> g,
                          n |-> n, level |-> l, user |-> u, at |-> now,
                          occurred |-> occurred, snap |-> issues[g]])
          BY <5>1
        <5> QED
          BY <5>2
      <4>2. PICK r : Begin(w, r) /\ r.op = "record" /\ r.snap = issues[r.target]
        BY <4>1
      <4>3. txn'[w] = r /\ issues' = issues
        BY <3>1, <4>2 DEF RecordRead, Begin, TypeOK
      <4> QED
        BY <4>2, <4>3 DEF Holds, Closed, Rows
    <3>2. CASE FixRead(w)
      BY <3>2 DEF FixRead, Begin, TypeOK, Holds, Closed, Rows
    <3>3. CASE PatchRead(w)
      BY <3>3 DEF PatchRead, Begin, TypeOK, Holds, Closed, Rows
    <3>4. CASE SweepList(w)
      BY <3>4 DEF SweepList, Begin, TypeOK, Holds, Closed, Rows
    <3>5. CASE SweepDelete(w)
      <4>1. (issues'[f] = issues[f] \/ issues'[f] = NoRow) /\ txn'[w].op = "after sweep"
        BY <3>5 DEF SweepDelete, TypeOK
      <4> QED
        BY <4>1 DEF Holds, Closed, Rows
    <3>6. CASE ~ Reads(w) /\ ~ Writes(w)
      BY <3>6, NeitherReadsNorWrites DEF Holds, Closed, Rows
    <3> QED
      BY <1>5, <3>1, <3>2, <3>3, <3>4, <3>5, <3>6 DEF Reads, Writes
  <2> QED
    BY <1>1, <2>1, <2>2 DEF Announces
<1> QED
  BY <1>2, <1>3, <1>4, <1>5

\* Every step leaves the regressions paid for.
LEMMA NextRefutes == TypeOK /\ RegressionsPaid /\ [Next]_vars => RegressionsPaid'
<1> SUFFICES ASSUME TypeOK, RegressionsPaid, [Next]_vars PROVE RegressionsPaid'
  OBVIOUS
<1> DEFINE n == Cardinality(Workers)
<1>1. CASE Tick \/ UNCHANGED vars
  BY <1>1 DEF Tick, vars, RegressionsPaid, Announcing, Holding, MayRefute, Closed, Rows
<1>2. ASSUME NEW w \in Workers, Step(w), NEW f \in Traces
      PROVE  hist'[f].regressedFacts + Cardinality(Announcing(f)') + MayRefute(f)'
               <= n * hist'[f].fixes
  <2>1. \A v \in Workers \ {w} : txn'[v] = txn[v]
    BY <1>2, OthersWait
  <2>2. /\ Cardinality(Announcing(f)) \in 0 .. n /\ Cardinality(Announcing(f)') \in Nat
        /\ n \in Nat
        /\ Cardinality(Announcing(f)') =
             Cardinality(Announcing(f))
               + (IF Announces(txn'[w], f) /\ ~ Announces(txn[w], f) THEN 1 ELSE 0)
               - (IF Announces(txn[w], f) /\ ~ Announces(txn'[w], f) THEN 1 ELSE 0)
    <3>1. /\ Announcing(f) \in SUBSET Workers /\ Announcing(f)' \in SUBSET Workers
          /\ Announcing(f) \ {w} = Announcing(f)' \ {w}
          /\ w \in Announcing(f) <=> Announces(txn[w], f)
          /\ w \in Announcing(f)' <=> Announces(txn'[w], f)
      BY <2>1 DEF Announcing
    <3> QED
      BY <3>1, OneComesOrGoes
  <2>3. /\ Cardinality(Holding(f)) \in 0 .. n /\ Cardinality(Holding(f)') \in Nat
        /\ Cardinality(Holding(f)') =
             Cardinality(Holding(f))
               + (IF Holds(txn'[w], f) /\ ~ Holds(txn[w], f) THEN 1 ELSE 0)
               - (IF Holds(txn[w], f) /\ ~ Holds(txn'[w], f) THEN 1 ELSE 0)
    <3>1. /\ Holding(f) \in SUBSET Workers /\ Holding(f)' \in SUBSET Workers
          /\ Holding(f) \ {w} = Holding(f)' \ {w}
          /\ w \in Holding(f) <=> Holds(txn[w], f)
          /\ w \in Holding(f)' <=> Holds(txn'[w], f)
      BY <2>1 DEF Holding
    <3> QED
      BY <3>1, OneComesOrGoes
  <2>4. /\ hist[f].regressedFacts + Cardinality(Announcing(f)) + MayRefute(f)
             <= n * hist[f].fixes
        /\ hist[f].regressedFacts \in Nat /\ hist[f].fixes \in Nat
    BY DEF RegressionsPaid, TypeOK, History
  <2>5. /\ Holds(txn'[w], f) => Closed(f)'
        /\ Announces(txn'[w], f) => Holds(txn[w], f) /\ ~ Closed(f)'
        /\ Closed(f)' => Closed(f) \/ hist'[f].fixes = hist[f].fixes + 1
        /\ hist'[f].fixes \in Nat /\ hist'[f].fixes >= hist[f].fixes
        /\ \/ hist'[f].regressedFacts = hist[f].regressedFacts
           \/ /\ hist'[f].regressedFacts = hist[f].regressedFacts + 1
              /\ Announces(txn[w], f) /\ ~ Announces(txn'[w], f)
    BY <1>2, StepRefutes
  <2>6. ~ (Holds(txn[w], f) /\ Announces(txn[w], f))
    BY DEF Holds, Announces
  <2> HIDE DEF n
  <2>7. /\ MayRefute(f)' = IF Closed(f)' THEN n ELSE Cardinality(Holding(f)')
        /\ MayRefute(f) = IF Closed(f) THEN n ELSE Cardinality(Holding(f))
    BY DEF MayRefute, n
  <2>8. /\ n * hist[f].fixes \in Nat /\ n * hist[f].fixes <= n * hist'[f].fixes
        /\ n * hist'[f].fixes \in Nat
        /\ hist'[f].fixes = hist[f].fixes + 1 => n * hist'[f].fixes = n * hist[f].fixes + n
    BY <2>2, <2>4, <2>5, Multiples
  <2> DEFINE owed == n * hist[f].fixes
             owes == n * hist'[f].fixes
  <2> HIDE DEF owed, owes
  <2>9. hist'[f].regressedFacts + Cardinality(Announcing(f)') + MayRefute(f)' <= owes
    <3>1. CASE Closed(f)'
      BY <2>2, <2>3, <2>4, <2>5, <2>6, <2>7, <2>8, <3>1 DEF owed, owes
    <3>2. CASE ~ Closed(f)'
      BY <2>2, <2>3, <2>4, <2>5, <2>6, <2>7, <2>8, <3>2 DEF owed, owes
    <3> QED
      BY <3>1, <3>2
  <2> QED
    BY <2>9 DEF owes
<1> QED
  BY <1>1, <1>2 DEF Next, RegressionsPaid

\* Subscribers of alerts.issue.regressed hear of a fix at most once from every
\* worker: a worker that has refuted a fix finds it refuted when it reads again,
\* whatever stale copy another one saves meanwhile.
THEOREM FixesRefuted == Spec => []OneRegressionPerFixAndWorker
<1>1. Init => RegressionsPaid
  <2> SUFFICES ASSUME Init, NEW f \in Traces
               PROVE  hist[f].regressedFacts + Cardinality(Announcing(f)) + MayRefute(f)
                        <= Cardinality(Workers) * hist[f].fixes
    BY DEF RegressionsPaid
  <2>1. Announcing(f) = {} /\ Holding(f) = {} /\ ~ Closed(f)
    BY DEF Init, Announcing, Announces, Holding, Holds, Closed, Rows, Idle
  <2>2. hist[f].regressedFacts = 0 /\ hist[f].fixes = 0 /\ Cardinality(Workers) \in Nat
    BY StoreAssumption, FS_CardinalityType DEF Init, NoHistory
  <2> QED
    BY <2>1, <2>2, FS_EmptySet DEF MayRefute
<1>2. TypeOK /\ RegressionsPaid => OneRegressionPerFixAndWorker
  <2> SUFFICES ASSUME TypeOK, RegressionsPaid, NEW f \in Traces
               PROVE  hist[f].regressedFacts <= Cardinality(Workers) * hist[f].fixes
    BY DEF OneRegressionPerFixAndWorker
  <2>1. /\ IsFiniteSet(Announcing(f)) /\ IsFiniteSet(Holding(f)) /\ IsFiniteSet(Workers)
    BY StoreAssumption, FS_Subset DEF Announcing, Holding
  <2>2. Cardinality(Announcing(f)) \in Nat /\ MayRefute(f) \in Nat
    BY <2>1, FS_CardinalityType DEF MayRefute
  <2>3. /\ hist[f].regressedFacts \in Nat /\ hist[f].fixes \in Nat
        /\ Cardinality(Workers) * hist[f].fixes \in Nat
    BY <2>1, FS_CardinalityType DEF TypeOK, History
  <2> QED
    BY <2>2, <2>3 DEF RegressionsPaid
<1> QED
  BY <1>1, <1>2, Typing, NextRefutes, PTL DEF Spec

=============================================================================
