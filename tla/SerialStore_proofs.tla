-------------------------- MODULE SerialStore_proofs --------------------------
(***************************************************************************)
(* Theorems about the tracker of one worker: every operation runs to its   *)
(* end before the next one starts.  Each theorem names that hypothesis,    *)
(* and what else it rests on; the runs show what two workers lose.         *)
(***************************************************************************)
EXTENDS AlertStore_proofs

-----------------------------------------------------------------------------
(* What a worker has read is still so when it writes                       *)

\* record() holds the row as it is in the table.
SnapIsCurrent == \A w \in Workers : Recording(w) => txn[w].snap = issues[txn[w].target]

\* A fix or a PATCH still finds its row.
EditsFindTheirRow == \A w \in Workers : txn[w].op \in {"fix", "patch"} => StillThere(txn[w])

\* A row has the id of the report that opened it, and no other row has it.
OwnRowIds ==
  /\ \A f \in Rows : issues[f].id <= spent.reports
  /\ \A f, g \in Rows : issues[f].id = issues[g].id => f = g
  /\ \A w \in Workers : Recording(w) => /\ txn[w].id <= spent.reports
                                        /\ \A f \in Rows : issues[f].id # txn[w].id

\* The sweep's list names closed issues.
ListIsClosed ==
  \A w \in Workers : txn[w].op = "sweep delete" =>
    \A f \in Rows : issues[f].id \in txn[w].ids => issues[f].status \notin Open

\* The part of the inductive invariant the rest is built on.
SerialCore == SnapIsCurrent /\ EditsFindTheirRow /\ OwnRowIds /\ ListIsClosed

\* The row a write leaves: of record(), mark_fixed and set_status.
LEMMA RecordWrites ==
  ASSUME TypeOK, SerialCore, NEW w \in Workers, RecordWrite(w)
  PROVE  /\ txn[w] \in RecordRequest /\ txn[w].target \in Traces
         /\ txn[w].snap = issues[txn[w].target]
         /\ issues' = [issues EXCEPT ![txn[w].target] =
                         IF issues[txn[w].target] = NoRow THEN Opened(txn[w]) ELSE Joined(txn[w])]
         /\ issues[txn[w].target] # NoRow => issues[txn[w].target] \in Row
<1>1. txn[w] \in RecordRequest /\ Recording(w)
  BY Kinds, RequestTyped DEF RecordWrite, Recording
<1>2. txn[w].target \in Traces
  BY <1>1 DEF RecordRequest
<1>3. txn[w].snap = issues[txn[w].target]
  BY <1>1 DEF SerialCore, SnapIsCurrent
<1> QED
  BY <1>1, <1>2, <1>3 DEF RecordWrite, TypeOK

\* A fix or a PATCH changes one row, and of it nothing that is counted.
LEMMA EditWrites ==
  ASSUME TypeOK, NEW w \in Workers, FixWrite(w) \/ PatchWrite(w)
  PROVE  LET f == txn[w].target
         IN  /\ f \in Rows /\ f \in Traces /\ issues[f] \in Row
             /\ \E row \in Row :
                  /\ issues' = [issues EXCEPT ![f] = row]
                  /\ row.id = issues[f].id /\ row.count = issues[f].count
                  /\ row.level = issues[f].level
                  /\ row.first = issues[f].first /\ row.last = issues[f].last
                  /\ \/ row.status \in {"new", "fixed", "muted"}
                     \/ row.status = issues[f].status
             /\ txn'[w].op \in {"idle", "after"}
             /\ events' = events /\ spent' = spent /\ gauge' = gauge
<1> DEFINE f == txn[w].target
<1>1. f \in Rows /\ f \in Traces /\ issues[f] \in Row
  BY DEF FixWrite, PatchWrite, StillThere, Rows, TypeOK
<1>2. /\ txn'[w].op \in {"idle", "after"}
      /\ events' = events /\ spent' = spent /\ gauge' = gauge
  BY DEF FixWrite, PatchWrite, Committed, Finish, Idle, TypeOK
<1>3. \E row \in Row :
        /\ issues' = [issues EXCEPT ![f] = row]
        /\ row.id = issues[f].id /\ row.count = issues[f].count
        /\ row.level = issues[f].level
        /\ row.first = issues[f].first /\ row.last = issues[f].last
        /\ row.status \in {"new", "fixed", "muted"} \/ row.status = issues[f].status
  <2>1. CASE FixWrite(w)
    <3>1. issues' = [issues EXCEPT ![f] = Fixed(issues[f])]
      BY <2>1 DEF FixWrite
    <3>2. Fixed(issues[f]) \in Row
      BY <1>1, FixedTyped DEF TypeOK
    <3>3. /\ Fixed(issues[f]).status = "fixed" /\ Fixed(issues[f]).id = issues[f].id
          /\ Fixed(issues[f]).count = issues[f].count /\ Fixed(issues[f]).level = issues[f].level
          /\ Fixed(issues[f]).first = issues[f].first /\ Fixed(issues[f]).last = issues[f].last
      BY <1>1, Zenon DEF Fixed, Row
    <3> QED
      BY <3>1, <3>2, <3>3
  <2>2. CASE PatchWrite(w)
    <3>1. PICK r \in PatchRequest : r = txn[w]
      BY <2>2, Kinds, RequestTyped DEF PatchWrite
    <3>2. issues' = [issues EXCEPT ![f] = Patched(issues[f], r)]
      BY <2>2, <3>1 DEF PatchWrite
    <3>3. Patched(issues[f], r) \in Row
      BY <1>1, PatchedTyped
    <3>4. r.status \in {"new", "fixed", "muted", "same"}
      BY DEF PatchRequest, Settable
    <3> QED
      BY <1>1, <3>2, <3>3, <3>4, EditedParts
  <2> QED
    BY <2>1, <2>2
<1> QED
  BY <1>1, <1>2, <1>3

\* With one worker, a request is the only one.
LEMMA Alone ==
  ASSUME NEW w0, Workers = {w0}, NEW w \in Workers, NEW v \in Workers
  PROVE  v = w
OBVIOUS

\* record() reads the row it will write, and takes an id no row has.
LEMMA RecordReadCore ==
  ASSUME NEW w0, Workers = {w0}, TypeOK, SerialCore, NEW w \in Workers, RecordRead(w)
  PROVE  SerialCore'
<1>1. PICK n \in Nat : n = spent.reports
  BY DEF TypeOK
<1>2. PICK t \in Traces, k \in Occurrences, l \in Levels, u \in Users :
        \E occurred \in {x \in 0 .. now : now - x <= MaxDelay}, f \in FindIssue(t) :
          Begin(w, [op |-> "record", id |-> spent.reports + 1, target |-> f,
                    n |-> k, level |-> l, user |-> u, at |-> now,
                    occurred |-> occurred, snap |-> issues[f]])
  BY DEF RecordRead
<1>3. PICK occurred \in 0 .. now, f \in FindIssue(t) :
        Begin(w, [op |-> "record", id |-> spent.reports + 1, target |-> f,
                  n |-> k, level |-> l, user |-> u, at |-> now,
                  occurred |-> occurred, snap |-> issues[f]])
  BY <1>2
<1>4. /\ txn'[w].op = "record" /\ txn'[w].id = n + 1
      /\ txn'[w].target = f /\ txn'[w].snap = issues[f]
  BY <1>1, <1>3 DEF Begin, TypeOK
<1>5. issues' = issues /\ spent'.reports = n + 1 /\ Rows' = Rows
  BY <1>1 DEF RecordRead, TypeOK, Rows
<1>6. \A g \in Rows : issues[g].id \in Nat /\ issues[g].id <= n
  <2>1. \A g \in Rows : issues[g].id \in Nat
    BY DEF Rows, TypeOK, Row
  <2> QED
    BY <1>1, <2>1 DEF SerialCore, OwnRowIds
<1>7. \A v \in Workers : txn'[v].op = "record" /\ txn'[v].id = n + 1
                           /\ txn'[v].snap = issues[txn'[v].target]
  BY <1>4, Alone
<1>8. SnapIsCurrent' /\ EditsFindTheirRow' /\ ListIsClosed'
  BY <1>5, <1>7 DEF SnapIsCurrent, EditsFindTheirRow, ListIsClosed
<1>9. OwnRowIds'
  BY <1>5, <1>6, <1>7 DEF SerialCore, OwnRowIds
<1> QED
  BY <1>8, <1>9 DEF SerialCore

\* So do a fix and a PATCH, and the sweep lists closed issues.
LEMMA OtherReadsCore ==
  ASSUME NEW w0, Workers = {w0}, TypeOK, SerialCore, NEW w \in Workers,
         FixRead(w) \/ PatchRead(w) \/ SweepList(w)
  PROVE  SerialCore'
<1>1. issues' = issues /\ spent'.reports = spent.reports /\ Rows' = Rows
  BY DEF FixRead, PatchRead, SweepList, TypeOK, Rows
<1>2. CASE FixRead(w) \/ PatchRead(w)
  <2>1. txn'[w].op \in {"fix", "patch"} /\ txn'[w].target \in Rows
          /\ txn'[w].id = issues[txn'[w].target].id
    <3>1. CASE FixRead(w)
      BY <3>1 DEF FixRead, Begin, TypeOK
    <3>2. CASE PatchRead(w)
      BY <3>2 DEF PatchRead, Begin, TypeOK
    <3> QED
      BY <1>2, <3>1, <3>2
  <2>2. \A v \in Workers : /\ txn'[v].op \in {"fix", "patch"} /\ txn'[v].target \in Rows
                           /\ txn'[v].id = issues[txn'[v].target].id
    BY <2>1, Alone
  <2> QED
    BY <1>1, <2>2 DEF SerialCore, SnapIsCurrent, EditsFindTheirRow, ListIsClosed,
                      OwnRowIds, Recording, StillThere
<1>3. CASE SweepList(w)
  <2>1. /\ txn'[w].op = "sweep delete"
        /\ txn'[w].ids = {issues[f].id : f \in Swept(txn[w].asOf)}
    BY <1>3 DEF SweepList, Begin, TypeOK
  <2>2. ASSUME NEW f \in Rows, issues[f].id \in txn'[w].ids PROVE issues[f].status \notin Open
    <3>1. PICK g \in Swept(txn[w].asOf) : issues[f].id = issues[g].id
      BY <2>1, <2>2
    <3>2. g \in Rows /\ issues[g].status \notin Open
      BY DEF Swept
    <3>3. f = g
      BY <3>1, <3>2 DEF SerialCore, OwnRowIds
    <3> QED
      BY <3>2, <3>3
  <2>3. \A v \in Workers :
          /\ txn'[v].op = "sweep delete"
          /\ \A f \in Rows : issues[f].id \in txn'[v].ids => issues[f].status \notin Open
    BY <2>1, <2>2, Alone
  <2> QED
    BY <1>1, <2>3 DEF SerialCore, SnapIsCurrent, EditsFindTheirRow, ListIsClosed,
                      OwnRowIds, Recording
<1> QED
  BY <1>2, <1>3

\* After a write nobody holds anything read before it, and ids stay apart.
LEMMA WritesCore ==
  ASSUME NEW w0, Workers = {w0}, TypeOK, SerialCore, NEW w \in Workers, Writes(w)
  PROVE  SerialCore'
<1>1. txn'[w].op \in {"idle", "after", "after sweep"} /\ spent' = spent
  <2>1. CASE RecordWrite(w)
    BY <2>1 DEF RecordWrite, Committed, TypeOK
  <2>2. CASE FixWrite(w) \/ PatchWrite(w)
    BY <2>2, EditWrites
  <2>3. CASE SweepDelete(w)
    BY <2>3 DEF SweepDelete, TypeOK
  <2> QED
    BY <2>1, <2>2, <2>3 DEF Writes
<1>2. \A v \in Workers : txn'[v].op \in {"idle", "after", "after sweep"}
  BY <1>1, Alone
<1>3. SnapIsCurrent' /\ EditsFindTheirRow' /\ ListIsClosed'
  BY <1>2 DEF SnapIsCurrent, EditsFindTheirRow, ListIsClosed, Recording
<1>4. ASSUME \/ \A f \in Rows' : f \in Rows /\ issues'[f].id = issues[f].id
             \/ \E g \in Traces :
                  /\ g \in Rows' /\ issues'[g].id <= spent.reports
                  /\ \A f \in Rows : issues[f].id # issues'[g].id
                  /\ \A f \in Rows' : f # g => f \in Rows /\ issues'[f].id = issues[f].id
      PROVE  OwnRowIds'
  <2>1. \A v \in Workers : ~ Recording(v)'
    BY <1>2 DEF Recording
  <2>2. CASE \A f \in Rows' : f \in Rows /\ issues'[f].id = issues[f].id
    BY <1>1, <2>1, <2>2 DEF SerialCore, OwnRowIds
  <2>3. ASSUME NEW g \in Traces,
               g \in Rows' /\ issues'[g].id <= spent.reports,
               \A f \in Rows : issues[f].id # issues'[g].id,
               \A f \in Rows' : f # g => f \in Rows /\ issues'[f].id = issues[f].id
        PROVE  OwnRowIds'
    <3>1. \A f \in Rows' : issues'[f].id <= spent'.reports
      BY <1>1, <2>3 DEF SerialCore, OwnRowIds
    <3>2. \A e, f \in Rows' : issues'[e].id = issues'[f].id => e = f
      BY <2>3 DEF SerialCore, OwnRowIds
    <3> QED
      BY <2>1, <3>1, <3>2 DEF OwnRowIds
  <2> QED
    BY <1>4, <2>2, <2>3
<1>5. CASE RecordWrite(w)
  <2>1. PICK r \in RecordRequest, f \in Traces :
          /\ r = txn[w] /\ f = r.target /\ r.snap = issues[f]
          /\ issues' = [issues EXCEPT ![f] = IF issues[f] = NoRow THEN Opened(r) ELSE Joined(r)]
    BY <1>5, RecordWrites
  <2>2. \A g \in Traces \ {f} : issues'[g] = issues[g]
    BY <2>1 DEF TypeOK
  <2>3. CASE issues[f] = NoRow
    <3>1. issues'[f] = Opened(r)
      BY <2>1, <2>3 DEF TypeOK
    <3>2. Opened(r).id = r.id
      BY DEF Opened
    <3>3. Recording(w) /\ r.id <= spent.reports /\ \A g \in Rows : issues[g].id # r.id
      BY <1>5, <2>1 DEF RecordWrite, Recording, SerialCore, OwnRowIds
    <3>4. Opened(r) # NoRow
      BY <2>1, OpenedTyped, RowAssumption
    <3>5. f \in Rows' /\ \A g \in Rows' : g # f => g \in Rows /\ issues'[g].id = issues[g].id
      BY <2>2, <3>1, <3>4 DEF Rows
    <3>6. OwnRowIds'
      BY <1>4, <3>1, <3>2, <3>3, <3>5
    <3> QED
      BY <1>3, <3>6 DEF SerialCore
  <2>4. CASE issues[f] # NoRow
    <3>1. issues'[f] = Joined(r) /\ Joined(r).id = issues[f].id
      BY <2>1, <2>4, JoinedParts DEF TypeOK
    <3>2. \A g \in Rows' : g \in Rows /\ issues'[g].id = issues[g].id
      BY <2>2, <2>4, <3>1 DEF Rows
    <3> QED
      BY <1>3, <1>4, <3>2 DEF SerialCore
  <2> QED
    BY <2>3, <2>4
<1>6. CASE FixWrite(w) \/ PatchWrite(w)
  <2>1. PICK f \in Rows, row \in Row :
          issues' = [issues EXCEPT ![f] = row] /\ row.id = issues[f].id /\ f \in Traces
    BY <1>6, EditWrites, Zenon
  <2>2. \A g \in Rows' : g \in Rows /\ issues'[g].id = issues[g].id
    BY <2>1 DEF Rows, TypeOK
  <2> QED
    BY <1>3, <1>4, <2>2 DEF SerialCore
<1>7. CASE SweepDelete(w)
  <2>1. \A g \in Rows' : g \in Rows /\ issues'[g] = issues[g]
    BY <1>7 DEF SweepDelete, Rows
  <2> QED
    BY <1>3, <1>4, <2>1 DEF SerialCore
<1> QED
  BY <1>5, <1>6, <1>7 DEF Writes

\* Every step of one worker keeps what it has read true.
LEMMA NextCore ==
  ASSUME NEW w0, Workers = {w0}, TypeOK, SerialCore, [Next]_vars
  PROVE  SerialCore'
<1>1. ASSUME Tick \/ UNCHANGED vars PROVE SerialCore'
  <2>1. issues' = issues /\ txn' = txn /\ spent' = spent /\ Rows' = Rows
    BY <1>1 DEF Tick, vars, Rows
  <2> QED
    BY <2>1 DEF SerialCore, SnapIsCurrent, EditsFindTheirRow, ListIsClosed, OwnRowIds,
                Recording, StillThere
<1>2. ASSUME NEW w \in Workers, Step(w), ~ Reads(w), ~ Writes(w) PROVE SerialCore'
  <2>1. /\ issues' = issues /\ spent'.reports = spent.reports /\ Rows' = Rows
        /\ \A v \in Workers : txn'[v].op \notin {"record", "fix", "patch", "sweep delete"}
    BY <1>2, NeitherReadsNorWrites, Alone DEF Rows
  <2> QED
    BY <2>1 DEF SerialCore, SnapIsCurrent, EditsFindTheirRow, ListIsClosed, OwnRowIds,
                Recording
<1> QED
  BY <1>1, <1>2, WritesCore, RecordReadCore, OtherReadsCore DEF Next, Reads

\* The tracker starts with nothing read.
LEMMA InitCore == Init => SerialCore
BY DEF Init, SerialCore, SnapIsCurrent, EditsFindTheirRow, ListIsClosed, OwnRowIds,
       Recording, Idle, Rows

\* So what a lone worker has read stays true until it writes.
LEMMA CoreHolds ==
  ASSUME NEW w0, Workers = {w0}
  PROVE  Spec => [](TypeOK /\ SerialCore)
<1>1. TypeOK /\ SerialCore /\ [Next]_vars => SerialCore'
  BY NextCore
<1> QED
  BY <1>1, InitCore, Typing, PTL DEF Spec


-----------------------------------------------------------------------------
(* The history                                                             *)

\* record() adds what it counted to what was recorded.
LEMMA RecordedMoves ==
  ASSUME TypeOK, NEW w \in Workers, RecordWrite(w), NEW f \in Traces
  PROVE  /\ txn[w].n \in Nat
         /\ hist'[f].recorded = IF f = txn[w].target THEN hist[f].recorded + txn[w].n
                                                     ELSE hist[f].recorded
<1>1. PICK r \in RecordRequest : r = txn[w]
  BY Kinds, RequestTyped DEF RecordWrite
<1>2. r.target \in Traces /\ r.n \in Nat
  BY StoreAssumption DEF RecordRequest
<1>3. hist' = [hist EXCEPT ![r.target].recorded = @ + r.n]
  BY <1>1 DEF RecordWrite
<1> QED
  BY <1>1, <1>2, <1>3 DEF TypeOK, History

\* A lone worker's record() counts what it records: opened or joined.
LEMMA RecordCounts ==
  ASSUME TypeOK, SerialCore, NEW w \in Workers, RecordWrite(w), NEW f \in Traces
  PROVE  CountOf(f)' = IF f = txn[w].target THEN CountOf(f) + txn[w].n ELSE CountOf(f)
<1>1. PICK r \in RecordRequest, g \in Traces :
        /\ r = txn[w] /\ g = r.target /\ r.snap = issues[g]
        /\ issues' = [issues EXCEPT ![g] = IF issues[g] = NoRow THEN Opened(r) ELSE Joined(r)]
  BY RecordWrites
<1>2. r.n \in Nat
  BY StoreAssumption DEF RecordRequest
<1>3. CASE f # g
  <2>1. issues'[f] = issues[f]
    BY <1>1, <1>3 DEF TypeOK
  <2> QED
    BY <1>1, <1>3, <2>1 DEF CountOf, Rows
<1>4. CASE f = g /\ issues[g] = NoRow
  <2>1. issues'[f] = Opened(r) /\ Opened(r) # NoRow /\ Opened(r).count = r.n
    BY <1>1, <1>4, OpenedTyped, RowAssumption DEF TypeOK, Opened
  <2> QED
    BY <1>1, <1>2, <1>4, <2>1 DEF CountOf, Rows
<1>5. CASE f = g /\ issues[g] # NoRow
  <2>1. issues'[f] = Joined(r)
    BY <1>1, <1>5 DEF TypeOK
  <2>2. Joined(r) # NoRow /\ Joined(r).count = issues[f].count + r.n
    BY <1>1, <1>5, JoinedParts, JoinedTyped, RowAssumption
  <2> QED
    BY <1>1, <1>5, <2>1, <2>2 DEF CountOf, Rows
<1> QED
  BY <1>3, <1>4, <1>5

\* Only record() and the sweep change what is counted.
LEMMA CountStays ==
  ASSUME TypeOK, NEW w \in Workers, Step(w), ~ RecordWrite(w), ~ SweepDelete(w),
         NEW f \in Traces
  PROVE  CountOf(f)' = CountOf(f)
<1>1. CASE FixWrite(w) \/ PatchWrite(w)
  <2>1. PICK g \in Rows, row \in Row :
          /\ issues' = [issues EXCEPT ![g] = row] /\ row.count = issues[g].count
          /\ g \in Traces
    BY <1>1, EditWrites, Zenon
  <2>2. row # NoRow
    BY RowAssumption
  <2> QED
    BY <2>1, <2>2 DEF CountOf, Rows, TypeOK
<1>2. CASE Reads(w)
  <2>1. issues' = issues
    BY <1>2 DEF Reads, RecordRead, FixRead, PatchRead, SweepList
  <2> QED
    BY <2>1 DEF CountOf, Rows
<1>3. CASE ~ Reads(w) /\ ~ Writes(w)
  <2>1. issues' = issues
    BY <1>3, NeitherReadsNorWrites
  <2> QED
    BY <2>1 DEF CountOf, Rows
<1> QED
  BY <1>1, <1>2, <1>3 DEF Writes

\* What is deleted is remembered as swept.
LEMMA SweepCounts ==
  ASSUME TypeOK, NEW w \in Workers, SweepDelete(w), NEW f \in Traces
  PROVE  \/ CountOf(f)' = CountOf(f) /\ hist'[f].swept = hist[f].swept
         \/ CountOf(f)' = 0 /\ hist'[f].swept = hist[f].swept + CountOf(f)
<1> DEFINE gone == {g \in Rows : issues[g].id \in txn[w].ids}
<1>1. /\ issues' = [g \in Traces |-> IF g \in gone THEN NoRow ELSE issues[g]]
      /\ hist' = [g \in Traces |-> IF g \in gone
                    THEN [hist[g] EXCEPT !.swept = @ + issues[g].count, !.deleted = @ + 1]
                    ELSE hist[g]]
  BY DEF SweepDelete
<1>2. gone \subseteq Rows
  OBVIOUS
<1> HIDE DEF gone
<1>3. CASE f \in gone
  BY <1>1, <1>2, <1>3 DEF CountOf, Rows, TypeOK, History
<1>4. CASE f \notin gone
  BY <1>1, <1>4 DEF CountOf, Rows
<1> QED
  BY <1>3, <1>4

\* With one worker no occurrence recorded is missing from the counters, and
\* none is counted twice: the read-modify-write of record() loses nothing
\* when no other request runs between its read and its save.
THEOREM CountIsFact ==
  ASSUME NEW w0, Workers = {w0}
  PROVE  Spec => []CountIsTheFact
<1>1. Init => CountIsTheFact
  BY DEF Init, CountIsTheFact, CountOf, Rows, NoHistory
<1>2. ASSUME TypeOK, SerialCore, CountIsTheFact, [Next]_vars PROVE CountIsTheFact'
  <2>1. CASE Tick \/ UNCHANGED vars
    <3>1. issues' = issues /\ hist' = hist
      BY <2>1 DEF Tick, vars
    <3> QED
      BY <1>2, <3>1 DEF CountIsTheFact, CountOf, Rows
  <2>2. ASSUME NEW w \in Workers, Step(w), NEW f \in Traces
        PROVE  CountOf(f)' + hist'[f].swept = hist'[f].recorded
    <3>1. /\ CountOf(f) \in Nat /\ hist[f].swept \in Nat /\ hist[f].recorded \in Nat
          /\ CountOf(f) + hist[f].swept = hist[f].recorded
      BY <1>2 DEF TypeOK, History, CountOf, Rows, Row, CountIsTheFact
    <3>2. CASE RecordWrite(w)
      <4>1. ~ SweepDelete(w)
        BY <3>2 DEF RecordWrite, SweepDelete
      <4>2. hist'[f].swept = hist[f].swept
        BY <1>2, <2>2, <4>1, HistoryMoves
      <4> QED
        BY <1>2, <3>1, <3>2, <4>2, RecordedMoves, RecordCounts
    <3>3. CASE SweepDelete(w)
      <4>1. ~ RecordWrite(w)
        BY <3>3 DEF RecordWrite, SweepDelete
      <4>2. hist'[f].recorded = hist[f].recorded
        BY <1>2, <2>2, <4>1, HistoryMoves
      <4> QED
        BY <1>2, <3>1, <3>3, <4>2, SweepCounts
    <3>4. CASE ~ RecordWrite(w) /\ ~ SweepDelete(w)
      BY <1>2, <2>2, <3>1, <3>4, HistoryMoves, CountStays
    <3> QED
      BY <3>2, <3>3, <3>4
  <2> QED
    BY <1>2, <2>1, <2>2 DEF Next, CountIsTheFact
<1> QED
  BY <1>1, <1>2, CoreHolds, PTL DEF Spec


\* With one worker the sweep deletes no issue that was opened again after it
\* was listed: nothing runs between the list and the delete.
THEOREM OpenStays ==
  ASSUME NEW w0, Workers = {w0}
  PROVE  Spec => OpenNeverSwept
<1>1. ASSUME TypeOK, SerialCore, [Next]_vars, NEW f \in Traces, IsOpen(f)
      PROVE  issues'[f] # NoRow
  <2>1. f \in Rows /\ issues[f] \in Row /\ issues[f].status \in Open
    BY <1>1 DEF IsOpen, Rows, TypeOK
  <2>2. CASE issues' = issues
    BY <2>1, <2>2 DEF Rows
  <2>3. ASSUME NEW w \in Workers, Step(w) PROVE issues'[f] # NoRow
    <3>1. CASE RecordWrite(w)
      <4>1. PICK r \in RecordRequest, g \in Traces :
              /\ g = r.target /\ r.snap = issues[g]
              /\ issues' = [issues EXCEPT ![g] = IF issues[g] = NoRow THEN Opened(r)
                                                                      ELSE Joined(r)]
        BY <1>1, <3>1, RecordWrites
      <4> QED
        BY <1>1, <2>1, <4>1, OpenedTyped, JoinedTyped, RowAssumption DEF TypeOK, Rows
    <3>2. CASE FixWrite(w) \/ PatchWrite(w)
      <4>1. PICK g \in Rows, row \in Row : issues' = [issues EXCEPT ![g] = row]
        BY <1>1, <3>2, EditWrites, Zenon
      <4> QED
        BY <1>1, <2>1, <4>1, RowAssumption DEF TypeOK, Rows
    <3>3. CASE SweepDelete(w)
      <4>1. issues[f].id \notin txn[w].ids
        BY <1>1, <2>1, <3>3 DEF SweepDelete, SerialCore, ListIsClosed
      <4> QED
        BY <2>1, <3>3, <4>1 DEF SweepDelete, Rows
    <3>4. CASE Reads(w)
      BY <2>1, <3>4 DEF Reads, RecordRead, FixRead, PatchRead, SweepList, Rows
    <3>5. CASE ~ Reads(w) /\ ~ Writes(w)
      BY <1>1, <2>1, <2>3, <3>5, NeitherReadsNorWrites DEF Rows
    <3> QED
      BY <3>1, <3>2, <3>3, <3>4, <3>5 DEF Writes
  <2> QED
    BY <1>1, <2>2, <2>3 DEF Next, Tick, vars
<1>2. TypeOK /\ SerialCore /\ [Next]_vars
        => [\A f \in Traces : IsOpen(f) => issues'[f] # NoRow]_vars
  BY <1>1
<1> QED
  BY <1>2, CoreHolds, PTL DEF Spec, OpenNeverSwept

-----------------------------------------------------------------------------
(* The gauges                                                              *)

\* The gauges tell the truth except between a commit and the refresh that
\* follows it.
GaugesBetween ==
  (\A w \in Workers : txn[w].op \notin {"after", "after sweep"})
    => \A l \in KnownLevels : gauge[l] = Cardinality(OpenAt(l))

\* A refresh leaves every gauge it sets at the number of open issues.
LEMMA RefreshTells ==
  ASSUME TypeOK, RefreshGauges, issues' = issues
  PROVE  GaugesBetween'
<1>1. KnownLevels \subseteq Levels
  BY DEF KnownLevels, Rows, TypeOK, Row
<1>2. KnownLevels' = KnownLevels /\ \A l \in Levels : OpenAt(l)' = OpenAt(l)
  BY DEF KnownLevels, Rows, OpenAt, IsOpen
<1> QED
  BY <1>1, <1>2 DEF RefreshGauges, GaugesBetween

\* The steps that set no gauge need none set: they start from no commit, and
\* leave the issues, or leave the refresh to be done.
LEMMA OthersTell ==
  ASSUME NEW w0, Workers = {w0}, MaxCrashes = 0, TypeOK, SerialCore, GaugesBetween,
         NEW w \in Workers, Step(w), ~ AfterCommit(w), ~ AfterSweep(w)
  PROVE  GaugesBetween'
<1>1. ~ Crash(w)
  BY DEF Crash, TypeOK
<1>2. txn[w].op \notin {"after", "after sweep"} /\ gauge' = gauge
  BY <1>1 DEF Step, RecordRead, RecordWrite, RecordRaise, FixRead, FixWrite, PatchRead,
       PatchWrite, EditMissed, SweepExpired, SweepOverCap, SweepList, SweepDelete,
       EraseList, EraseRow, EraseEnd, EraseMissed, IsIdle
<1>3. \A l \in KnownLevels : gauge[l] = Cardinality(OpenAt(l))
  BY <1>2, Alone DEF GaugesBetween
<1>4. ASSUME KnownLevels' = KnownLevels, \A l \in KnownLevels : OpenAt(l)' = OpenAt(l)
      PROVE  GaugesBetween'
  BY <1>2, <1>3, <1>4 DEF GaugesBetween
<1>5. CASE issues' = issues
  BY <1>4, <1>5 DEF KnownLevels, Rows, OpenAt, IsOpen
<1>6. ASSUME txn'[w].op \in {"after", "after sweep"} PROVE GaugesBetween'
  BY <1>6 DEF GaugesBetween
<1>7. CASE PatchWrite(w) /\ txn[w].status = "same"
  <2>1. PICK r \in PatchRequest, f \in Rows :
          /\ r = txn[w] /\ f = r.target /\ r.status = "same"
          /\ issues' = [issues EXCEPT ![f] = Patched(issues[f], r)]
    BY <1>7, Kinds, RequestTyped DEF PatchWrite, StillThere
  <2>2. issues[f] \in Row /\ f \in Traces
    BY <2>1 DEF TypeOK, Rows
  <2>3. /\ Patched(issues[f], r) \in Row
        /\ Patched(issues[f], r).status = issues[f].status
        /\ Patched(issues[f], r).level = issues[f].level
    BY <2>1, <2>2, PatchedTyped, EditedParts
  <2>4. /\ Rows' = Rows
        /\ \A g \in Rows : issues'[g].status = issues[g].status
                           /\ issues'[g].level = issues[g].level
    BY <2>1, <2>2, <2>3, RowAssumption DEF Rows, TypeOK
  <2> QED
    BY <1>4, <2>4 DEF KnownLevels, OpenAt, IsOpen
<1>8. CASE RecordWrite(w) \/ FixWrite(w) \/ (PatchWrite(w) /\ txn[w].status # "same")
  <2>1. \E f, fact : Committed(w, f, fact)
    BY <1>8 DEF RecordWrite, FixWrite, PatchWrite
  <2>2. txn'[w].op = "after"
    BY <2>1 DEF Committed, TypeOK
  <2> QED
    BY <1>6, <2>2
<1>9. CASE SweepDelete(w)
  BY <1>6, <1>9 DEF SweepDelete, TypeOK
<1>10. CASE Reads(w)
  BY <1>5, <1>10 DEF Reads, RecordRead, FixRead, PatchRead, SweepList
<1>11. CASE ~ Reads(w) /\ ~ Writes(w)
  BY <1>5, <1>11, NeitherReadsNorWrites
<1> QED
  BY <1>7, <1>8, <1>9, <1>10, <1>11 DEF Writes

\* With one worker that never dies between a commit and its refresh, the
\* gauge of every level that some issue has is the number of open issues.
THEOREM GaugesTold ==
  ASSUME NEW w0, Workers = {w0}, MaxCrashes = 0
  PROVE  Spec => []KnownGaugesTrue
<1>1. Init => GaugesBetween
  BY DEF Init, GaugesBetween, KnownLevels, Rows
<1>2. ASSUME TypeOK, SerialCore, GaugesBetween, [Next]_vars PROVE GaugesBetween'
  <2>1. CASE Tick \/ UNCHANGED vars
    <3>1. issues' = issues /\ txn' = txn /\ gauge' = gauge
      BY <2>1 DEF Tick, vars
    <3> QED
      BY <1>2, <3>1 DEF GaugesBetween, KnownLevels, OpenAt, IsOpen, Rows
  <2>2. ASSUME NEW w \in Workers, AfterCommit(w) \/ AfterSweep(w) PROVE GaugesBetween'
    BY <1>2, <2>2, RefreshTells DEF AfterCommit, AfterSweep
  <2> QED
    BY <1>2, <2>1, <2>2, OthersTell DEF Next
<1>3. GaugesBetween => KnownGaugesTrue
  BY DEF GaugesBetween, KnownGaugesTrue, AllIdle, IsIdle
<1> QED
  BY <1>1, <1>2, <1>3, CoreHolds, PTL DEF Spec


-----------------------------------------------------------------------------
(* Regressions                                                             *)

\* With one worker the subscribers of alerts.issue.regressed hear no fix
\* refuted twice, whatever is fixed, patched, recorded and swept, and
\* whether or not the worker dies before it tells them.
THEOREM FixesRefutedOnce ==
  ASSUME NEW w0, Workers = {w0}
  PROVE  Spec => []OneRegressionPerFix
<1>1. Cardinality(Workers) = 1
  BY FS_Singleton
<1>2. TypeOK /\ OneRegressionPerFixAndWorker => OneRegressionPerFix
  <2> SUFFICES ASSUME TypeOK, OneRegressionPerFixAndWorker, NEW f \in Traces
               PROVE  hist[f].regressedFacts <= hist[f].fixes
    BY DEF OneRegressionPerFix
  <2>1. hist[f].fixes \in Nat /\ hist[f].regressedFacts <= 1 * hist[f].fixes
    BY <1>1 DEF OneRegressionPerFixAndWorker, TypeOK, History
  <2> QED
    BY <2>1
<1> QED
  BY <1>2, Typing, FixesRefuted, PTL

-----------------------------------------------------------------------------
(* The promise of IssueLifecycle                                           *)

\* The state of an issue as IssueLifecycle sees it.
StatusOf(f) == IF f \in Rows THEN issues[f].status ELSE "absent"

\* What IssueLifecycle sees of a step that changes one issue or none.
LEMMA SeenChange ==
  ASSUME NEW f \in Traces, NEW s, NEW n \in Nat,
         \A g \in Traces : CountOf(g) \in Int,
         \A g \in Traces : StatusOf(g)' = IF g = f THEN s ELSE StatusOf(g),
         \A g \in Traces : CountOf(g)' = IF g = f THEN CountOf(g) + n ELSE CountOf(g)
  PROVE  /\ [g \in Traces |-> StatusOf(g)]' = [[g \in Traces |-> StatusOf(g)] EXCEPT ![f] = s]
         /\ [g \in Traces |-> CountOf(g)]' = [[g \in Traces |-> CountOf(g)] EXCEPT ![f] = @ + n]
         /\ n = 0 => [g \in Traces |-> CountOf(g)]' = [g \in Traces |-> CountOf(g)]
         /\ s = StatusOf(f) => [g \in Traces |-> StatusOf(g)]' = [g \in Traces |-> StatusOf(g)]
<1>1. [g \in Traces |-> StatusOf(g)]' = [g \in Traces |-> IF g = f THEN s ELSE StatusOf(g)]
  OBVIOUS
<1>2. [g \in Traces |-> CountOf(g)]'
        = [g \in Traces |-> IF g = f THEN CountOf(g) + n ELSE CountOf(g)]
  OBVIOUS
<1>3. [[g \in Traces |-> StatusOf(g)] EXCEPT ![f] = s]
        = [g \in Traces |-> IF g = f THEN s ELSE StatusOf(g)]
  OBVIOUS
<1>4. [[g \in Traces |-> CountOf(g)] EXCEPT ![f] = @ + n]
        = [g \in Traces |-> IF g = f THEN CountOf(g) + n ELSE CountOf(g)]
  OBVIOUS
<1>5. n = 0 => \A g \in Traces : CountOf(g)' = CountOf(g)
  OBVIOUS
<1>6. s = StatusOf(f) => \A g \in Traces : StatusOf(g)' = StatusOf(g)
  OBVIOUS
<1>7. n = 0 => [g \in Traces |-> CountOf(g)]' = [g \in Traces |-> CountOf(g)]
  BY <1>5
<1>8. s = StatusOf(f) => [g \in Traces |-> StatusOf(g)]' = [g \in Traces |-> StatusOf(g)]
  BY <1>6
<1> QED
  BY <1>1, <1>2, <1>3, <1>4, <1>7, <1>8

\* An occurrence opens an issue, or is one more of it, quiet or not.
LEMMA RecordPromised ==
  ASSUME TypeOK, SerialCore, NEW w \in Workers, RecordWrite(w)
  PROVE  Promise!Next
<1>1. PICK r \in RecordRequest, f \in Traces :
        /\ r = txn[w] /\ f = r.target /\ r.snap = issues[f]
        /\ issues' = [issues EXCEPT ![f] = IF issues[f] = NoRow THEN Opened(r) ELSE Joined(r)]
        /\ issues[f] # NoRow => issues[f] \in Row
  BY RecordWrites
<1>2. r.n \in Occurrences
  BY DEF RecordRequest
<1>12. r.n \in Nat
  BY StoreAssumption DEF RecordRequest
<1>3. PICK s : s = IF issues[f] = NoRow THEN "new" ELSE StatusAfter(r)
  OBVIOUS
<1>4. \A g \in Traces : StatusOf(g)' = IF g = f THEN s ELSE StatusOf(g)
  <2>1. \A g \in Traces : g # f => StatusOf(g)' = StatusOf(g)
    BY <1>1 DEF StatusOf, Rows, TypeOK
  <2>2. issues'[f] # NoRow
    BY <1>1, OpenedTyped, JoinedTyped, RowAssumption DEF TypeOK
  <2>3. issues'[f].status = s
    BY <1>1, <1>3, JoinedParts DEF TypeOK, Opened
  <2> QED
    BY <2>1, <2>2, <2>3 DEF StatusOf, Rows
<1>5. \A g \in Traces : CountOf(g)' = IF g = f THEN CountOf(g) + r.n ELSE CountOf(g)
  BY <1>1, RecordCounts
<1>6. \A g \in Traces : CountOf(g) \in Int
  BY DEF CountOf, Rows, TypeOK, Row
<1>7. /\ [g \in Traces |-> StatusOf(g)]' = [[g \in Traces |-> StatusOf(g)] EXCEPT ![f] = s]
      /\ [g \in Traces |-> CountOf(g)]' = [[g \in Traces |-> CountOf(g)] EXCEPT ![f] = @ + r.n]
      /\ s = StatusOf(f) => [g \in Traces |-> StatusOf(g)]' = [g \in Traces |-> StatusOf(g)]
  BY <1>12, <1>4, <1>5, <1>6, SeenChange
<1>8. Promise!Counted(f)
  BY <1>2, <1>7 DEF Promise!Counted
<1>9. Promise!Become(f, s)
  BY <1>7 DEF Promise!Become, StatusOf
<1>10. CASE issues[f] = NoRow
  BY <1>3, <1>8, <1>9, <1>10 DEF Promise!Appear, Promise!Next, Rows
<1>11. CASE issues[f] # NoRow
  <2>1. f \in Rows /\ StatusOf(f) = issues[f].status /\ s = StatusAfter(r)
    BY <1>3, <1>11 DEF Rows, StatusOf
  <2>2. issues[f].status \in Statuses
    BY <1>1, <1>11 DEF Row
  <2>3. CASE issues[f].status \in {"new", "regressed"}
    <3>1. s = StatusOf(f)
      BY <1>1, <2>1, <2>3 DEF StatusAfter, Refutes, Unmutes
    <3> QED
      BY <1>7, <1>8, <2>1, <2>3, <3>1 DEF Promise!Recur, Promise!Next, StatusOf
  <2>4. CASE issues[f].status = "fixed"
    <3>1. s = "regressed"
      BY <1>1, <2>1, <2>4 DEF StatusAfter, Refutes
    <3> QED
      BY <1>8, <1>9, <2>1, <2>4, <3>1 DEF Promise!Regress, Promise!Next
  <2>5. CASE issues[f].status = "muted"
    <3>1. s \in {"muted", "new"}
      BY <1>1, <2>1, <2>5 DEF StatusAfter, Refutes, Unmutes
    <3> QED
      BY <1>8, <1>9, <2>1, <2>5, <3>1 DEF Promise!Disturb, Promise!Next
  <2> QED
    BY <2>2, <2>3, <2>4, <2>5 DEF Statuses
<1> QED
  BY <1>10, <1>11

\* A fix or a PATCH of the status is a decision, and a note is none.
LEMMA EditPromised ==
  ASSUME TypeOK, NEW w \in Workers, FixWrite(w) \/ PatchWrite(w)
  PROVE  Promise!Next \/ UNCHANGED Promise!promise
<1>1. PICK f \in Traces, row \in Row :
        /\ f \in Rows
        /\ issues' = [issues EXCEPT ![f] = row] /\ row.count = issues[f].count
        /\ \/ row.status \in {"new", "fixed", "muted"}
           \/ row.status = issues[f].status
  BY EditWrites, Zenon
<1>2. \A g \in Traces : StatusOf(g)' = IF g = f THEN row.status ELSE StatusOf(g)
  BY <1>1, RowAssumption DEF StatusOf, Rows, TypeOK
<1>3. \A g \in Traces : CountOf(g)' = CountOf(g) /\ CountOf(g) \in Int
  BY <1>1, RowAssumption DEF CountOf, Rows, TypeOK, Row
<1>4. \A g \in Traces : CountOf(g)' = IF g = f THEN CountOf(g) + 0 ELSE CountOf(g)
  BY <1>3
<1>5. PICK s : s = row.status
  OBVIOUS
<1>6. /\ [g \in Traces |-> StatusOf(g)]' = [[g \in Traces |-> StatusOf(g)] EXCEPT ![f] = s]
      /\ [g \in Traces |-> CountOf(g)]' = [g \in Traces |-> CountOf(g)]
      /\ s = StatusOf(f)
           => [g \in Traces |-> StatusOf(g)]' = [g \in Traces |-> StatusOf(g)]
  <2>1. \A g \in Traces : StatusOf(g)' = IF g = f THEN s ELSE StatusOf(g)
    BY <1>2, <1>5
  <2> QED
    BY <1>3, <1>4, <2>1, SeenChange
<1>7. StatusOf(f) = issues[f].status /\ issues[f].status # "absent"
  BY <1>1 DEF StatusOf, Rows, TypeOK, Row, Statuses
<1>8. CASE s = issues[f].status
  BY <1>6, <1>7, <1>8 DEF Promise!promise, StatusOf
<1>9. CASE s \in {"new", "fixed", "muted"}
  <2>1. Promise!Become(f, s)
    BY <1>6 DEF Promise!Become, StatusOf
  <2> QED
    BY <1>1, <1>6, <1>7, <1>9, <2>1 DEF Promise!Decide, Promise!Next
<1> QED
  BY <1>1, <1>5, <1>8, <1>9

\* The sweep forgets closed issues.
LEMMA SweepPromised ==
  ASSUME TypeOK, SerialCore, NEW w \in Workers, SweepDelete(w)
  PROVE  Promise!Next
<1>1. PICK gone \in SUBSET Traces :
        /\ gone = {f \in Rows : issues[f].id \in txn[w].ids}
        /\ issues' = [f \in Traces |-> IF f \in gone THEN NoRow ELSE issues[f]]
  BY DEF SweepDelete, Rows
<1>2. \A f \in gone : f \in Rows /\ issues[f].status \in {"fixed", "muted"}
  BY <1>1 DEF SweepDelete, SerialCore, ListIsClosed, Rows, TypeOK, Row, Statuses, Open
<1>3. \A f \in Traces : /\ StatusOf(f)' = IF f \in gone THEN "absent" ELSE StatusOf(f)
                        /\ CountOf(f)' = IF f \in gone THEN 0 ELSE CountOf(f)
  BY <1>1 DEF StatusOf, CountOf, Rows
<1>4. /\ [f \in Traces |-> StatusOf(f)]' =
           [f \in Traces |-> IF f \in gone THEN "absent"
                                           ELSE [g \in Traces |-> StatusOf(g)][f]]
      /\ [f \in Traces |-> CountOf(f)]' =
           [f \in Traces |-> IF f \in gone THEN 0 ELSE [g \in Traces |-> CountOf(g)][f]]
  BY <1>3
<1>5. Promise!Forget(gone)
  BY <1>2, <1>4 DEF Promise!Forget, StatusOf
<1> QED
  BY <1>5 DEF Promise!Next

\* The tracker of one worker implements the promise: opened once, counted
\* every time, back only on evidence, never forgotten while open.
THEOREM PromiseKept ==
  ASSUME NEW w0, Workers = {w0}
  PROVE  Spec => KeepsPromise
<1>1. Init => Promise!Init
  BY DEF Init, Promise!Init, Rows, CountOf
<1>2. ASSUME TypeOK, SerialCore, [Next]_vars
      PROVE  Promise!Next \/ UNCHANGED Promise!promise
  <2>1. CASE issues' = issues
    BY <2>1 DEF Promise!promise, Rows, CountOf
  <2>2. ASSUME NEW w \in Workers, Step(w), ~ Writes(w) PROVE issues' = issues
    <3>1. CASE Reads(w)
      BY <3>1 DEF Reads, RecordRead, FixRead, PatchRead, SweepList
    <3>2. CASE ~ Reads(w)
      BY <1>2, <2>2, <3>2, NeitherReadsNorWrites
    <3> QED
      BY <3>1, <3>2
  <2>3. ASSUME NEW w \in Workers, Writes(w)
        PROVE  Promise!Next \/ UNCHANGED Promise!promise
    BY <1>2, <2>3, RecordPromised, EditPromised, SweepPromised DEF Writes
  <2> QED
    BY <1>2, <2>1, <2>2, <2>3 DEF Next, Tick, vars
<1> QED
  BY <1>1, <1>2, CoreHolds, PTL DEF Spec, KeepsPromise, Promise!Spec


-----------------------------------------------------------------------------
(* What a set of events stands for                                         *)

\* An event stands for as many occurrences as it carries.
LEMMA StandOfOne ==
  ASSUME NEW e, e.n \in Nat
  PROVE  IsFiniteSet({e} \X (1 .. e.n)) /\ Cardinality({e} \X (1 .. e.n)) = e.n
<1>1. IsFiniteSet(1 .. e.n) /\ Cardinality(1 .. e.n) = e.n
  BY FS_Interval
<1>2. IsFiniteSet({e}) /\ Cardinality({e}) = 1
  BY FS_Singleton
<1>3. /\ IsFiniteSet({e} \X (1 .. e.n))
      /\ Cardinality({e} \X (1 .. e.n)) = Cardinality({e}) * Cardinality(1 .. e.n)
  BY <1>1, <1>2, FS_Product
<1> QED
  BY <1>1, <1>2, <1>3

\* A finite sample stands for finitely many occurrences.
LEMMA StandFinite ==
  ASSUME NEW S, IsFiniteSet(S), \A e \in S : e.n \in Nat
  PROVE  IsFiniteSet(StandFor(S)) /\ Cardinality(StandFor(S)) \in Nat
<1> DEFINE T == {{e} \X (1 .. e.n) : e \in S}
<1>1. IsFiniteSet(T)
  <2> DEFINE h == [e \in S |-> {e} \X (1 .. e.n)]
  <2>1. h \in Surjection(S, T)
    BY DEF Surjection
  <2> QED
    BY <2>1, FS_Surjection
<1>2. \A H \in T : IsFiniteSet(H)
  BY StandOfOne
<1> HIDE DEF T
<1>3. IsFiniteSet(UNION T)
  BY <1>1, <1>2, FS_UNION
<1> QED
  BY <1>3, FS_CardinalityType DEF StandFor, T

\* A part of a sample stands for no more than the whole.
LEMMA StandOfPart ==
  ASSUME NEW S, IsFiniteSet(S), \A e \in S : e.n \in Nat, NEW T \in SUBSET S
  PROVE  Cardinality(StandFor(T)) <= Cardinality(StandFor(S))
<1>1. StandFor(T) \subseteq StandFor(S)
  BY DEF StandFor
<1> QED
  BY <1>1, StandFinite, FS_Subset

\* One more event stands for as many occurrences more, at most.
LEMMA StandOfOneMore ==
  ASSUME NEW S, IsFiniteSet(S), \A e \in S : e.n \in Nat, NEW d, d.n \in Nat
  PROVE  /\ Cardinality(StandFor(S \cup {d})) <= Cardinality(StandFor(S)) + d.n
         /\ d \notin S => Cardinality(StandFor(S \cup {d})) = Cardinality(StandFor(S)) + d.n
<1>1. StandFor(S \cup {d}) = StandFor(S) \cup ({d} \X (1 .. d.n))
  BY DEF StandFor
<1>2. /\ IsFiniteSet(StandFor(S)) /\ Cardinality(StandFor(S)) \in Nat
      /\ IsFiniteSet({d} \X (1 .. d.n)) /\ Cardinality({d} \X (1 .. d.n)) = d.n
  BY StandFinite, StandOfOne
<1> DEFINE both == StandFor(S) \cap ({d} \X (1 .. d.n))
<1>3. IsFiniteSet(both) /\ Cardinality(both) \in Nat
  <2>1. both \in SUBSET StandFor(S)
    OBVIOUS
  <2> QED
    BY <1>2, <2>1, FS_Subset, FS_CardinalityType
<1>4. Cardinality(StandFor(S \cup {d})) = Cardinality(StandFor(S)) + d.n - Cardinality(both)
  BY <1>1, <1>2, FS_Union
<1>5. d \notin S => Cardinality(both) = 0
  <2>1. d \notin S => both = {}
    BY DEF StandFor
  <2> QED
    BY <2>1, FS_EmptySet
<1> HIDE DEF both
<1> QED
  BY <1>2, <1>3, <1>4, <1>5

\* An event that changes and carries as much stands for as much.
LEMMA StandOfChanged ==
  ASSUME NEW S, IsFiniteSet(S), \A e \in S : e.n \in Nat,
         NEW e \in S, NEW d, d.n = e.n
  PROVE  Cardinality(StandFor((S \ {e}) \cup {d})) <= Cardinality(StandFor(S))
<1> DEFINE R == S \ {e}
<1>1. IsFiniteSet(R) /\ \A x \in R : x.n \in Nat
  BY FS_RemoveElement
<1>2. S = R \cup {e} /\ e \notin R
  OBVIOUS
<1> HIDE DEF R
<1>3. Cardinality(StandFor(S)) = Cardinality(StandFor(R)) + e.n
  BY <1>1, <1>2, StandOfOneMore
<1>4. Cardinality(StandFor(R \cup {d})) <= Cardinality(StandFor(R)) + e.n
  BY <1>1, StandOfOneMore
<1> QED
  BY <1>3, <1>4 DEF R


\* Per fingerprint, the sample stands for no more than is counted.
SampleCounted == \A f \in Traces : Cardinality(StandFor(EventsOf(f))) <= CountOf(f)

\* What the numbers of a sample are.
LEMMA SampleNumbers ==
  ASSUME StoreInv, NEW f \in Traces
  PROVE  /\ IsFiniteSet(EventsOf(f)) /\ \A e \in EventsOf(f) : e.n \in Nat
         /\ Cardinality(StandFor(EventsOf(f))) \in Nat
         /\ CountOf(f) \in Nat
<1>1. EventsOf(f) \in SUBSET events
  BY DEF EventsOf
<1>2. IsFiniteSet(EventsOf(f))
  BY <1>1, FS_Subset DEF StoreInv
<1>3. \A e \in EventsOf(f) : e.n \in Nat
  BY <1>1, StoreAssumption DEF StoreInv, TypeOK, Event
<1>4. CountOf(f) \in Nat
  BY DEF StoreInv, TypeOK, CountOf, Rows, Row
<1> QED
  BY <1>2, <1>3, <1>4, StandFinite

\* What keeps the sample of an issue within its count: nothing new in it, or
\* one event more than is counted more.
LEMMA SampleShrinks ==
  ASSUME StoreInv, NEW f \in Traces, Cardinality(StandFor(EventsOf(f))) <= CountOf(f),
         EventsOf(f)' \subseteq EventsOf(f), CountOf(f)' = CountOf(f)
  PROVE  (Cardinality(StandFor(EventsOf(f))) <= CountOf(f))'
<1>1. PICK S, T : S = EventsOf(f) /\ T = EventsOf(f)'
  OBVIOUS
<1>2. /\ IsFiniteSet(S) /\ \A e \in S : e.n \in Nat
      /\ T \in SUBSET S
      /\ Cardinality(StandFor(S)) <= CountOf(f) /\ CountOf(f) \in Nat
      /\ Cardinality(StandFor(S)) \in Nat
  BY <1>1, SampleNumbers
<1>3. Cardinality(StandFor(T)) <= Cardinality(StandFor(S)) /\ Cardinality(StandFor(T)) \in Nat
  <2>1. IsFiniteSet(T)
    BY <1>2, FS_Subset
  <2> QED
    BY <1>2, <2>1, StandOfPart, StandFinite
<1>4. Cardinality(StandFor(T)) <= CountOf(f)
  BY <1>2, <1>3
<1>5. (Cardinality(StandFor(EventsOf(f))))' = Cardinality(StandFor(T))
  BY <1>1 DEF StandFor
<1> QED
  BY <1>4, <1>5

\* record() stores one event and counts what it stands for.
LEMMA RecordSampled ==
  ASSUME StoreInv, SerialCore, NEW w \in Workers, RecordWrite(w), NEW f \in Traces,
         Cardinality(StandFor(EventsOf(f))) <= CountOf(f)
  PROVE  (Cardinality(StandFor(EventsOf(f))) <= CountOf(f))'
<1>0. TypeOK
  BY DEF StoreInv
<1>1. PICK r \in RecordRequest, g \in Traces :
        /\ r = txn[w] /\ g = r.target /\ r.n \in Nat
        /\ \E kept \in Capped(g, EventsOf(g) \cup {EventRow(r)}) :
             events' = (events \ EventsOf(g)) \cup kept
  BY <1>0, Kinds, RequestTyped, RecordedMoves DEF RecordWrite, RecordRequest
<1>2. PICK kept \in SUBSET (EventsOf(g) \cup {EventRow(r)}) :
        events' = (events \ EventsOf(g)) \cup kept
  BY <1>1, CappedSubset
<1>3. \A e \in kept : e.issue = g
  BY <1>1, <1>2 DEF EventsOf, EventRow
<1>4. CASE f # g
  <2>1. EventsOf(f)' \subseteq EventsOf(f)
    BY <1>2, <1>3, <1>4 DEF EventsOf
  <2>2. CountOf(f)' = CountOf(f)
    BY <1>0, <1>1, <1>4, RecordCounts
  <2> QED
    BY <2>1, <2>2, SampleShrinks
<1>5. CASE f = g
  <2>1. PICK S, T, d : S = EventsOf(f) /\ T = EventsOf(f)' /\ d = EventRow(r)
    OBVIOUS
  <2>2. d.n = r.n
    BY <2>1 DEF EventRow
  <2>3. T \in SUBSET (S \cup {d})
    BY <1>2, <1>5, <2>1 DEF EventsOf
  <2>4. /\ IsFiniteSet(S) /\ \A e \in S : e.n \in Nat
        /\ Cardinality(StandFor(S)) <= CountOf(f) /\ CountOf(f) \in Nat
        /\ Cardinality(StandFor(S)) \in Nat
    BY <2>1, SampleNumbers
  <2>5. IsFiniteSet(S \cup {d}) /\ \A e \in S \cup {d} : e.n \in Nat
    BY <1>1, <2>2, <2>4, FS_AddElement
  <2>6. Cardinality(StandFor(T)) <= Cardinality(StandFor(S \cup {d}))
    BY <2>3, <2>5, StandOfPart
  <2>7. Cardinality(StandFor(S \cup {d})) <= Cardinality(StandFor(S)) + d.n
    BY <1>1, <2>2, <2>4, StandOfOneMore
  <2>8. Cardinality(StandFor(T)) \in Nat /\ Cardinality(StandFor(S \cup {d})) \in Nat
    <3>1. IsFiniteSet(T)
      BY <2>3, <2>5, FS_Subset
    <3> QED
      BY <2>3, <2>5, <3>1, StandFinite
  <2>9. Cardinality(StandFor(T)) <= CountOf(f) + r.n
    BY <1>1, <2>2, <2>4, <2>6, <2>7, <2>8
  <2>10. CountOf(f)' = CountOf(f) + r.n
    BY <1>0, <1>1, <1>5, RecordCounts
  <2>11. (Cardinality(StandFor(EventsOf(f))))' = Cardinality(StandFor(T))
    BY <2>1 DEF StandFor
  <2> QED
    BY <2>9, <2>10, <2>11
<1> QED
  BY <1>4, <1>5

\* The sweep takes the events of an issue with its row.
LEMMA SweepSampled ==
  ASSUME StoreInv, NEW w \in Workers, SweepDelete(w), NEW f \in Traces,
         Cardinality(StandFor(EventsOf(f))) <= CountOf(f)
  PROVE  (Cardinality(StandFor(EventsOf(f))) <= CountOf(f))'
<1>1. PICK gone \in SUBSET Traces :
        /\ issues' = [g \in Traces |-> IF g \in gone THEN NoRow ELSE issues[g]]
        /\ events' = {e \in events : e.issue \notin gone}
  BY DEF SweepDelete, Rows
<1>2. CASE f \in gone
  <2>1. EventsOf(f)' = {} /\ CountOf(f)' = 0
    BY <1>1, <1>2 DEF EventsOf, CountOf, Rows
  <2>2. Cardinality(StandFor({})) = 0
    BY FS_EmptySet DEF StandFor
  <2>3. (Cardinality(StandFor(EventsOf(f))))' = Cardinality(StandFor({}))
    BY <2>1 DEF StandFor
  <2> QED
    BY <2>1, <2>2, <2>3
<1>3. CASE f \notin gone
  <2>1. EventsOf(f)' \subseteq EventsOf(f) /\ CountOf(f)' = CountOf(f)
    BY <1>1, <1>3 DEF EventsOf, CountOf, Rows
  <2> QED
    BY <2>1, SampleShrinks
<1> QED
  BY <1>2, <1>3

\* An event that forgets its person stands for as many occurrences.
LEMMA EraseSampled ==
  ASSUME StoreInv, NEW w \in Workers, EraseRow(w), NEW f \in Traces,
         Cardinality(StandFor(EventsOf(f))) <= CountOf(f)
  PROVE  (Cardinality(StandFor(EventsOf(f))) <= CountOf(f))'
<1>1. PICK e, d : e \in events /\ events' = (events \ {e}) \cup {d} /\ d = Forgotten(e)
  BY DEF EraseRow
<1>2. d.issue = e.issue /\ d.n = e.n
  BY <1>1 DEF Forgotten, StoreInv, TypeOK, Event
<1>3. CountOf(f)' = CountOf(f)
  BY DEF EraseRow, CountOf, Rows
<1>4. CASE e.issue # f
  <2>1. EventsOf(f)' \subseteq EventsOf(f)
    BY <1>1, <1>2, <1>4 DEF EventsOf
  <2> QED
    BY <1>3, <2>1, SampleShrinks
<1>5. CASE e.issue = f
  <2>1. PICK S, T : S = EventsOf(f) /\ T = EventsOf(f)'
    OBVIOUS
  <2>2. e \in S /\ T = (S \ {e}) \cup {d}
    BY <1>1, <1>2, <1>5, <2>1 DEF EventsOf
  <2>3. /\ IsFiniteSet(S) /\ \A x \in S : x.n \in Nat
        /\ Cardinality(StandFor(S)) <= CountOf(f) /\ CountOf(f) \in Nat
        /\ Cardinality(StandFor(S)) \in Nat
    BY <2>1, SampleNumbers
  <2>4. Cardinality(StandFor(T)) <= Cardinality(StandFor(S))
    BY <1>2, <2>2, <2>3, StandOfChanged
  <2>5. Cardinality(StandFor(T)) \in Nat
    <3>1. IsFiniteSet(S \ {e})
      BY <2>3, FS_RemoveElement
    <3>2. IsFiniteSet(T) /\ \A x \in T : x.n \in Nat
      BY <1>2, <2>2, <2>3, <3>1, FS_AddElement
    <3> QED
      BY <3>2, StandFinite
  <2>6. Cardinality(StandFor(T)) <= CountOf(f)
    BY <2>3, <2>4, <2>5
  <2>7. (Cardinality(StandFor(EventsOf(f))))' = Cardinality(StandFor(T))
    BY <2>1 DEF StandFor
  <2> QED
    BY <1>3, <2>6, <2>7
<1> QED
  BY <1>4, <1>5

\* With one worker the events stay a sample: those kept never stand for more
\* occurrences than the issue counts, whatever the cap, the retention, the
\* sweep and the erasure leave of them.
THEOREM SampleIsPart ==
  ASSUME NEW w0, Workers = {w0}
  PROVE  Spec => []SampleWithinCount
<1>1. Init => SampleCounted
  <2>1. Cardinality(StandFor({})) = 0
    BY FS_EmptySet DEF StandFor
  <2>2. Init => \A f \in Traces : EventsOf(f) = {} /\ CountOf(f) = 0
    BY DEF Init, EventsOf, CountOf, Rows
  <2> QED
    BY <2>1, <2>2 DEF SampleCounted
<1>2. ASSUME StoreInv, SerialCore, SampleCounted, [Next]_vars PROVE SampleCounted'
  <2>0. TypeOK
    BY <1>2 DEF StoreInv
  <2>1. ASSUME NEW f \in Traces, EventsOf(f)' \subseteq EventsOf(f), CountOf(f)' = CountOf(f)
        PROVE  (Cardinality(StandFor(EventsOf(f))) <= CountOf(f))'
    BY <1>2, <2>1, SampleShrinks DEF SampleCounted
  <2>2. CASE Tick \/ UNCHANGED vars
    <3>1. issues' = issues /\ events' = events
      BY <2>2 DEF Tick, vars
    <3>2. \A f \in Traces : EventsOf(f)' \subseteq EventsOf(f) /\ CountOf(f)' = CountOf(f)
      BY <3>1 DEF EventsOf, CountOf, Rows
    <3> QED
      BY <2>1, <3>2 DEF SampleCounted
  <2>3. ASSUME NEW w \in Workers, Step(w), NEW f \in Traces
        PROVE  (Cardinality(StandFor(EventsOf(f))) <= CountOf(f))'
    <3>1. Cardinality(StandFor(EventsOf(f))) <= CountOf(f)
      BY <1>2 DEF SampleCounted
    <3>2. CASE RecordWrite(w)
      BY <1>2, <3>1, <3>2, RecordSampled
    <3>3. CASE SweepDelete(w)
      BY <1>2, <3>1, <3>3, SweepSampled
    <3>4. CASE EraseRow(w)
      BY <1>2, <3>1, <3>4, EraseSampled
    <3>5. CASE ~ RecordWrite(w) /\ ~ SweepDelete(w) /\ ~ EraseRow(w)
      <4>1. events' \subseteq events
        BY <2>3, <3>5 DEF Step, RecordRead, RecordRaise, FixRead, FixWrite, PatchRead,
           PatchWrite, EditMissed, SweepExpired, SweepOverCap, SweepList, EraseList,
           EraseEnd, EraseMissed, AfterCommit, AfterSweep, Crash
      <4>2. EventsOf(f)' \subseteq EventsOf(f)
        BY <4>1 DEF EventsOf
      <4>3. CountOf(f)' = CountOf(f)
        BY <2>0, <2>3, <3>5, CountStays
      <4> QED
        BY <2>1, <4>2, <4>3
    <3> QED
      BY <3>2, <3>3, <3>4, <3>5
  <2> QED
    BY <1>2, <2>2, <2>3 DEF Next, SampleCounted
<1>3. SampleCounted => SampleWithinCount
  BY DEF SampleCounted, SampleWithinCount, CountOf, Rows
<1> QED
  BY <1>1, <1>2, <1>3, CoreHolds, Soundness, PTL DEF Spec


-----------------------------------------------------------------------------
(* What the issue says of its sample                                       *)

\* A row covers an event: it is at least as bad, and its dates enclose it.
Covers(row, e) == e.level <= row.level /\ e.occurred \in row.first .. row.last

\* The row record() saves covers what the row it read covered, and its event.
LEMMA JoinedCovers ==
  ASSUME NEW r \in RecordRequest, r.snap # NoRow
  PROVE  /\ Covers(Joined(r), EventRow(r))
         /\ \A e \in Event : Covers(r.snap, e) => Covers(Joined(r), e)
<1>1. /\ Joined(r).level = Larger(r.snap.level, r.level)
      /\ Joined(r).first = Smaller(r.snap.first, r.occurred)
      /\ Joined(r).last = Larger(r.snap.last, r.occurred)
  BY JoinedParts
<1>2. /\ r.snap.level \in Int /\ r.snap.first \in Int /\ r.snap.last \in Int
      /\ r.level \in Int /\ r.occurred \in Int
  BY JoinedParts, StoreAssumption DEF Row, RecordRequest, Levels
<1>3. EventRow(r).level = r.level /\ EventRow(r).occurred = r.occurred
  BY DEF EventRow
<1>4. \A e \in Event : e.level \in Int /\ e.occurred \in Int
  BY StoreAssumption DEF Event, Levels
<1>5. Covers(Joined(r), EventRow(r))
  BY <1>1, <1>2, <1>3 DEF Covers, Larger, Smaller
<1>6. \A e \in Event : Covers(r.snap, e) => Covers(Joined(r), e)
  BY <1>1, <1>2, <1>4 DEF Covers, Larger, Smaller
<1> QED
  BY <1>5, <1>6

\* record() stores an event that its issue covers, and widens the issue.
LEMMA RecordCovers ==
  ASSUME TypeOK, SerialCore, IssueCoversSample, NEW w \in Workers, RecordWrite(w)
  PROVE  IssueCoversSample'
<1>1. PICK r \in RecordRequest, f \in Traces :
        /\ r = txn[w] /\ f = r.target /\ r.snap = issues[f]
        /\ issues' = [issues EXCEPT ![f] = IF issues[f] = NoRow THEN Opened(r) ELSE Joined(r)]
  BY RecordWrites
<1>2. PICK kept \in SUBSET (EventsOf(f) \cup {EventRow(r)}) :
        events' = (events \ EventsOf(f)) \cup kept
  BY <1>1, CappedSubset DEF RecordWrite
<1>3. issues'[f] # NoRow
  BY <1>1, OpenedTyped, JoinedTyped, RowAssumption DEF TypeOK
<1>4. \A e \in events : e.issue \in Rows /\ Covers(issues[e.issue], e) /\ e \in Event
  BY DEF IssueCoversSample, Covers, TypeOK
<1>5. ASSUME NEW e \in events \ EventsOf(f)
      PROVE  e.issue \in Rows' /\ Covers(issues'[e.issue], e)
  <2>1. e.issue # f /\ e.issue \in Rows
    BY <1>4, <1>5 DEF EventsOf
  <2>2. issues'[e.issue] = issues[e.issue]
    BY <1>1, <2>1 DEF Rows, TypeOK
  <2> QED
    BY <1>4, <2>1, <2>2 DEF Rows
<1>6. ASSUME NEW e \in EventsOf(f)
      PROVE  e.issue = f /\ Covers(issues'[f], e)
  <2>1. e.issue = f /\ issues[f] # NoRow /\ Covers(issues[f], e) /\ e \in Event
    BY <1>4, <1>6 DEF EventsOf, Rows
  <2>2. issues'[f] = Joined(r)
    BY <1>1, <2>1 DEF TypeOK
  <2> QED
    BY <1>1, <2>1, <2>2, JoinedCovers
<1>7. EventRow(r).issue = f /\ Covers(issues'[f], EventRow(r))
  <2>1. EventRow(r).issue = f
    BY <1>1 DEF EventRow
  <2>2. CASE issues[f] = NoRow
    <3>1. issues'[f] = Opened(r)
      BY <1>1, <2>2 DEF TypeOK
    <3>2. /\ Opened(r).level = r.level /\ Opened(r).first = r.occurred
          /\ Opened(r).last = r.occurred
          /\ EventRow(r).level = r.level /\ EventRow(r).occurred = r.occurred
      BY DEF Opened, EventRow
    <3>3. r.level \in Int /\ r.occurred \in Int
      BY StoreAssumption DEF RecordRequest, Levels
    <3> QED
      BY <2>1, <3>1, <3>2, <3>3 DEF Covers
  <2>3. CASE issues[f] # NoRow
    <3>1. issues'[f] = Joined(r)
      BY <1>1, <2>3 DEF TypeOK
    <3> QED
      BY <1>1, <2>1, <2>3, <3>1, JoinedCovers
  <2> QED
    BY <2>2, <2>3
<1>8. ASSUME NEW e \in events' PROVE e.issue \in Rows' /\ Covers(issues'[e.issue], e)
  BY <1>1, <1>2, <1>3, <1>5, <1>6, <1>7, <1>8 DEF Rows
<1> QED
  BY <1>8 DEF IssueCoversSample, Covers

\* A step that leaves what a row says of its events, and stores none.
LEMMA OthersCover ==
  ASSUME IssueCoversSample,
         \A e \in events' : \E d \in events : /\ e.issue = d.issue /\ e.level = d.level
                                              /\ e.occurred = d.occurred,
         \A f \in Rows : \/ /\ f \in Rows' /\ issues'[f].level = issues[f].level
                            /\ issues'[f].first = issues[f].first
                            /\ issues'[f].last = issues[f].last
                         \/ \A e \in events' : e.issue # f
  PROVE  IssueCoversSample'
BY DEF IssueCoversSample

\* With one worker an issue covers its sample: it is as bad as the worst of
\* its events and every one of them occurred between its two dates.
THEOREM SampleCovered ==
  ASSUME NEW w0, Workers = {w0}
  PROVE  Spec => []IssueCoversSample
<1>1. Init => IssueCoversSample
  BY DEF Init, IssueCoversSample
<1>2. ASSUME TypeOK, SerialCore, IssueCoversSample, [Next]_vars PROVE IssueCoversSample'
  <2>1. CASE Tick \/ UNCHANGED vars
    <3>1. issues' = issues /\ events' = events
      BY <2>1 DEF Tick, vars
    <3> QED
      BY <1>2, <3>1 DEF IssueCoversSample, Rows
  <2>2. ASSUME NEW w \in Workers, Step(w) PROVE IssueCoversSample'
    <3>1. CASE RecordWrite(w)
      BY <1>2, <3>1, RecordCovers
    <3>2. CASE FixWrite(w) \/ PatchWrite(w)
      <4>1. PICK f \in Rows, row \in Row :
              /\ issues' = [issues EXCEPT ![f] = row] /\ f \in Traces
              /\ row.level = issues[f].level
              /\ row.first = issues[f].first /\ row.last = issues[f].last
        BY <1>2, <3>2, EditWrites, Zenon
      <4>2. \A g \in Rows : /\ g \in Rows' /\ issues'[g].level = issues[g].level
                            /\ issues'[g].first = issues[g].first
                            /\ issues'[g].last = issues[g].last
        BY <1>2, <4>1, RowAssumption DEF Rows, TypeOK
      <4>3. events' = events
        BY <3>2 DEF FixWrite, PatchWrite
      <4> QED
        BY <1>2, <4>2, <4>3, OthersCover
    <3>3. CASE SweepDelete(w)
      <4>1. PICK gone \in SUBSET Traces :
              /\ issues' = [g \in Traces |-> IF g \in gone THEN NoRow ELSE issues[g]]
              /\ events' = {e \in events : e.issue \notin gone}
        BY <3>3 DEF SweepDelete, Rows
      <4>2. \A e \in events' : e \in events /\ e.issue \notin gone
        BY <4>1
      <4>3. \A g \in Rows : \/ g \in Rows' /\ issues'[g] = issues[g]
                            \/ g \in gone
        BY <4>1 DEF Rows
      <4> QED
        BY <1>2, <4>2, <4>3, OthersCover
    <3>4. CASE EraseRow(w)
      <4>1. PICK e, d : e \in events /\ events' = (events \ {e}) \cup {d} /\ d = Forgotten(e)
        BY <3>4 DEF EraseRow
      <4>2. d.issue = e.issue /\ d.level = e.level /\ d.occurred = e.occurred
        BY <1>2, <4>1 DEF Forgotten, TypeOK, Event
      <4>3. issues' = issues /\ Rows' = Rows
        BY <3>4 DEF EraseRow, Rows
      <4>4. \A x \in events' : \E y \in events : /\ x.issue = y.issue /\ x.level = y.level
                                                 /\ x.occurred = y.occurred
        BY <4>1, <4>2
      <4> QED
        BY <1>2, <4>3, <4>4, OthersCover
    <3>5. CASE ~ Writes(w) /\ ~ EraseRow(w)
      <4>1. events' \subseteq events
        BY <2>2, <3>5 DEF Writes, Step, RecordRead, RecordRaise, FixRead,
           PatchRead, EditMissed, SweepExpired, SweepOverCap, SweepList, EraseList,
           EraseEnd, EraseMissed, AfterCommit, AfterSweep, Crash
      <4>2. issues' = issues
        <5>1. CASE Reads(w)
          BY <5>1 DEF Reads, RecordRead, FixRead, PatchRead, SweepList
        <5>2. CASE ~ Reads(w)
          BY <1>2, <2>2, <3>5, <5>2, NeitherReadsNorWrites
        <5> QED
          BY <5>1, <5>2
      <4>3. Rows' = Rows
        BY <4>2 DEF Rows
      <4> QED
        BY <1>2, <4>1, <4>2, <4>3, OthersCover
    <3> QED
      BY <3>1, <3>2, <3>3, <3>4, <3>5 DEF Writes
  <2> QED
    BY <1>2, <2>1, <2>2 DEF Next
<1> QED
  BY <1>1, <1>2, CoreHolds, PTL DEF Spec

=============================================================================
