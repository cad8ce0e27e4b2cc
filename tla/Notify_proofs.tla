----------------------------- MODULE Notify_proofs -----------------------------
(***************************************************************************)
(* Theorems about who gets told, for every setting, every number of        *)
(* workers and of hooks in flight, and every order in which they, the      *)
(* edits and time go by.                                                   *)
(***************************************************************************)
EXTENDS Notify, FiniteSetTheorems, TLAPS

-----------------------------------------------------------------------------
(* Types                                                                   *)

\* What a call of record() makes of the row it read is a row.
LEMMA JoinedTyped ==
  ASSUME NEW c \in Call, c.row # NoIssue, NEW l \in Levels
  PROVE  /\ Joined(c, l) \in Issue
         /\ Joined(c, l).status = "muted" =>
              c.row.status = "muted" /\ Joined(c, l).mutedUntil = c.row.mutedUntil
         /\ Joined(c, l).status # "fixed"
<1>1. c.row \in Issue
  BY DEF Call
<1>2. c.row.status \in Statuses /\ c.row.level \in Levels
      /\ c.row.mutedUntil \in Nat \cup {NoTime}
  BY <1>1 DEF Issue
<1>3. PICK b \in BOOLEAN : b = (c.row.status = "muted" /\ ~ MutedAt(c.row, c.at))
  BY Zenon
<1>4. Joined(c, l) = [status |-> IF b THEN "new" ELSE Returned(c.row.status),
                      level |-> Worst(c.row.level, l),
                      mutedUntil |-> IF b THEN NoTime ELSE c.row.mutedUntil]
  BY <1>3, Zenon DEF Joined
<1>5. Worst(c.row.level, l) \in Levels
  BY <1>2 DEF Worst
<1>6. /\ Returned(c.row.status) \in Statuses \ {"fixed"}
      /\ Returned(c.row.status) = "muted" => c.row.status = "muted"
  BY <1>2 DEF Returned, Statuses
<1> QED
  BY <1>2, <1>4, <1>5, <1>6 DEF Issue, Statuses

\* The cap keeps a part of the rows.
LEMMA CappedSubset ==
  ASSUME NEW S, NEW K \in Capped(S)
  PROVE  K \subseteq S
BY DEF Capped

\* What the commit of a call c by worker w does, by name: its event, its hook,
\* and the row they leave behind.
RecordsWith(w, c, event, hook, row) ==
  /\ c = txn[w] /\ c \in Call
  /\ event = [id |-> c.id, at |-> c.at, n |-> event.n]
  /\ event.n \in Occurrences
  /\ hook = [id |-> c.id, by |-> w, issue |-> row, created |-> c.row = NoIssue,
             regressed |-> c.row # NoIssue /\ c.row.status = "fixed"]
  /\ c.row = NoIssue => issue = NoIssue
  /\ row \in Issue
  /\ row.status # "fixed"
  /\ row.status = "muted" =>
       c.row # NoIssue /\ c.row.status = "muted" /\ row.mutedUntil = c.row.mutedUntil
  /\ issue' = row
  /\ rows' \in Capped(rows \cup {event})
  /\ truth' = truth \cup {event}
  /\ hooks' = hooks \cup {hook}
  /\ past' = IF Mutes(row) THEN [past EXCEPT !.mutedAfter = spent.reports] ELSE past
  /\ txn' = [txn EXCEPT ![w] = Idle]
  /\ UNCHANGED <<now, told, spent>>

\* Every commit is one.
LEMMA RecordedFields ==
  ASSUME TypeOK, NEW w \in Workers, RecordWrite(w)
  PROVE  \E c, event, hook, row : RecordsWith(w, c, event, hook, row)
<1>0. PICK c : c = txn[w]
  OBVIOUS
<1>1. c \in Call /\ (c.row = NoIssue => issue = NoIssue)
  BY <1>0 DEF TypeOK, RecordWrite
<1>2. PICK n, l, row, event :
        /\ n \in Occurrences /\ l \in Levels
        /\ row = IF c.row = NoIssue THEN Opened(l) ELSE Joined(c, l)
        /\ event = [id |-> c.id, at |-> c.at, n |-> n]
        /\ issue' = row
        /\ rows' \in Capped(rows \cup {event})
        /\ truth' = truth \cup {event}
        /\ hooks' = hooks \cup
             {[id |-> c.id, by |-> w, issue |-> row, created |-> c.row = NoIssue,
               regressed |-> c.row # NoIssue /\ c.row.status = "fixed"]}
        /\ past' = IF Mutes(row) THEN [past EXCEPT !.mutedAfter = spent.reports] ELSE past
  BY <1>0, Zenon DEF RecordWrite
<1>3. /\ row \in Issue /\ row.status # "fixed"
      /\ row.status = "muted" =>
           c.row # NoIssue /\ c.row.status = "muted" /\ row.mutedUntil = c.row.mutedUntil
  <2>1. CASE c.row = NoIssue
    BY <1>2, <2>1 DEF Opened, Issue, Statuses
  <2>2. CASE c.row # NoIssue
    BY <1>1, <1>2, <2>2, JoinedTyped
  <2> QED
    BY <2>1, <2>2
<1>4. PICK hook :
        hook = [id |-> c.id, by |-> w, issue |-> row, created |-> c.row = NoIssue,
                regressed |-> c.row # NoIssue /\ c.row.status = "fixed"]
  OBVIOUS
<1>5. event.n = n
  BY <1>2
<1>6. /\ txn' = [txn EXCEPT ![w] = Idle]
      /\ UNCHANGED <<now, told, spent>>
  BY DEF RecordWrite
<1>7. RecordsWith(w, c, event, hook, row)
  BY <1>0, <1>1, <1>2, <1>3, <1>4, <1>5, <1>6, Zenon DEF RecordsWith
<1> QED
  BY <1>7

\* A call of record() sends no message and takes no hook away.
LEMMA RecordsTellNobody ==
  ASSUME NEW w \in Workers, Records(w)
  PROVE  told' = told /\ hooks \subseteq hooks'
BY DEF Records, RecordRead, RecordWrite, RecordRaise

\* An edit leaves a row.
LEMMA EditTyped ==
  ASSUME TypeOK, Fix \/ Mute \/ Reopen
  PROVE  issue' \in Issue
<1>1. issue \in Issue
  BY DEF Fix, Mute, Reopen, Editing, TypeOK
<1>2. CASE Fix
  BY <1>1, <1>2 DEF Fix, Issue, Statuses
<1>3. CASE Mute
  <2>1. PICK until \in 0 .. MaxTime \cup {NoTime} :
          issue' = [issue EXCEPT !.status = "muted", !.mutedUntil = until]
    BY <1>3 DEF Mute
  <2>2. until \in Nat \cup {NoTime}
    BY NotifyAssumption
  <2> QED
    BY <1>1, <2>1, <2>2 DEF Issue, Statuses
<1>4. CASE Reopen
  BY <1>1, <1>4 DEF Reopen, Issue, Statuses
<1> QED
  BY <1>2, <1>3, <1>4

\* The initial state is well typed.
LEMMA InitTyped == Init => TypeOK
BY NotifyAssumption DEF Init, TypeOK

\* So is every step.
LEMMA NextTyped == TypeOK /\ [Next]_vars => TypeOK'
<1> SUFFICES ASSUME TypeOK, [Next]_vars
             PROVE  TypeOK'
  OBVIOUS
<1> USE NotifyAssumption
<1>0. /\ spent.reports \in Nat /\ spent.edits \in Nat
      /\ past.fixes \in Nat /\ past.mutedAfter \in Nat /\ now \in Nat
  BY DEF TypeOK
<1>1. ASSUME NEW w \in Workers, RecordRead(w)
      PROVE  TypeOK'
  <2>1. [id |-> spent.reports + 1, at |-> now, row |-> issue] \in Call
    BY <1>0 DEF TypeOK, Call
  <2>2. txn' \in [Workers -> Call \cup {Idle}]
    BY <1>1, <2>1 DEF RecordRead, TypeOK
  <2>3. spent' \in [reports: Nat, edits: Nat]
    BY <1>0, <1>1 DEF RecordRead, TypeOK
  <2> QED
    BY <1>1, <2>2, <2>3 DEF RecordRead, TypeOK
<1>2. ASSUME NEW w \in Workers, RecordWrite(w)
      PROVE  TypeOK'
  <2>1. PICK c, event, hook, row : RecordsWith(w, c, event, hook, row)
    BY <1>2, RecordedFields
  <2>2. c.id \in Nat /\ c.at \in Nat
    BY <2>1 DEF RecordsWith, Call
  <2>3. event \in Event
    <3>1. event = [id |-> c.id, at |-> c.at, n |-> event.n] /\ event.n \in Occurrences
      BY <2>1 DEF RecordsWith
    <3> QED
      BY <2>2, <3>1 DEF Event
  <2>4. hook \in Hook
    <3>1. PICK b \in BOOLEAN, d \in BOOLEAN :
            hook = [id |-> c.id, by |-> w, issue |-> row, created |-> b, regressed |-> d]
      BY <2>1, Zenon DEF RecordsWith
    <3>2. row \in Issue
      BY <2>1 DEF RecordsWith
    <3> QED
      BY <2>2, <3>1, <3>2 DEF Hook
  <2>5. rows' \subseteq rows \cup {event} /\ truth' = truth \cup {event}
    BY <2>1, CappedSubset DEF RecordsWith
  <2>6. hooks' = hooks \cup {hook} /\ issue' \in Issue
    BY <2>1 DEF RecordsWith
  <2>7. past' \in [fixes: Nat, mutedAfter: Nat]
    <3>1. [past EXCEPT !.mutedAfter = spent.reports] \in [fixes: Nat, mutedAfter: Nat]
      BY <1>0 DEF TypeOK
    <3>2. past \in [fixes: Nat, mutedAfter: Nat]
      BY DEF TypeOK
    <3>3. past' = [past EXCEPT !.mutedAfter = spent.reports] \/ past' = past
      BY <2>1, Zenon DEF RecordsWith
    <3> QED
      BY <3>1, <3>2, <3>3
  <2>8. txn' \in [Workers -> Call \cup {Idle}]
    BY <2>1 DEF RecordsWith, TypeOK
  <2>9. UNCHANGED <<now, told, spent>>
    BY <2>1 DEF RecordsWith
  <2> QED
    BY <2>3, <2>4, <2>5, <2>6, <2>7, <2>8, <2>9 DEF TypeOK
<1>3. ASSUME NEW w \in Workers, RecordRaise(w)
      PROVE  TypeOK'
  BY <1>3 DEF RecordRaise, TypeOK
<1>4. CASE HookTells
  <2>1. PICK h \in hooks :
          /\ Reason(h) # "none"
          /\ told' = told \cup {[id |-> h.id, by |-> h.by, reason |-> Reason(h)]}
          /\ hooks' = hooks \ {h}
    BY <1>4 DEF HookTells
  <2>2. Reason(h) \in Reasons
    BY <2>1 DEF Reason, Reasons
  <2>3. h.id \in Nat /\ h.by \in Workers
    BY DEF TypeOK, Hook
  <2>4. [id |-> h.id, by |-> h.by, reason |-> Reason(h)] \in Message
    BY <2>2, <2>3 DEF Message
  <2> QED
    BY <1>4, <2>1, <2>4 DEF TypeOK, HookTells
<1>5. CASE HookKeepsQuiet
  BY <1>5 DEF TypeOK, HookKeepsQuiet
<1>6. ASSUME Editing
      PROVE  spent' \in [reports: Nat, edits: Nat]
  <2>1. spent' = [spent EXCEPT !.edits = @ + 1]
    BY <1>6 DEF Editing
  <2> QED
    BY <1>0, <2>1 DEF TypeOK
<1>7. CASE Fix
  <2>1. past' \in [fixes: Nat, mutedAfter: Nat]
    BY <1>0, <1>7 DEF Fix, TypeOK
  <2> QED
    BY <1>6, <1>7, <2>1, EditTyped DEF Fix, TypeOK
<1>8. CASE Mute
  <2>1. past' \in [fixes: Nat, mutedAfter: Nat]
    BY <1>0, <1>8 DEF Mute, TypeOK
  <2> QED
    BY <1>6, <1>8, <2>1, EditTyped DEF Mute, TypeOK
<1>9. CASE Reopen
  BY <1>6, <1>9, EditTyped DEF Reopen, TypeOK
<1>10. CASE Tick
  BY <1>10 DEF Tick, TypeOK
<1>11. CASE UNCHANGED vars
  BY <1>11 DEF vars, TypeOK
<1> QED
  BY <1>1, <1>2, <1>3, <1>4, <1>5, <1>7, <1>8, <1>9, <1>10, <1>11 DEF Next, Records

\* Types: issues, event rows, hooks and messages are what they should be,
\* whatever record(), the edits and the hooks of notify.py do to them.
THEOREM Typing == Spec => []TypeOK
BY InitTyped, NextTyped, PTL DEF Spec

-----------------------------------------------------------------------------
(* Repeats tell nobody                                                     *)

\* The messages of an opening and the hooks that may still send one.
SentNew == {m \in told : m.reason = "new issue"}
DueNew == {h \in hooks : h.created}

\* A worker's messages of a return and its hooks that may still send one.
SentBack(w) == {m \in told : m.by = w /\ m.reason = "regressed"}
DueBack(w) == {h \in hooks : h.by = w /\ h.regressed}

\* The worker's next commit may refute a fix: it holds a copy of the fixed row,
\* or may read one.
Refutable(w) ==
  IF \/ issue # NoIssue /\ issue.status = "fixed"
     \/ txn[w] # Idle /\ txn[w].row # NoIssue /\ txn[w].row.status = "fixed"
    THEN 1 ELSE 0

\* What was sent of openings and may still be: nothing before there is an
\* issue, and one message for it.  What a worker sent of returns, may still
\* send, and a fix it may yet refute: one for each fix.
Warrants ==
  /\ IsFiniteSet(told) /\ IsFiniteSet(hooks)
  /\ Cardinality(SentNew) + Cardinality(DueNew) <= IF issue = NoIssue THEN 0 ELSE 1
  /\ \A w \in Workers :
       Cardinality(SentBack(w)) + Cardinality(DueBack(w)) + Refutable(w) <= past.fixes

\* The sets that are counted are finite.
LEMMA WarrantSets ==
  ASSUME Warrants
  PROVE  /\ IsFiniteSet(SentNew) /\ IsFiniteSet(DueNew)
         /\ \A w \in Workers : IsFiniteSet(SentBack(w)) /\ IsFiniteSet(DueBack(w))
<1>1. SentNew \in SUBSET told /\ DueNew \in SUBSET hooks
  BY DEF SentNew, DueNew
<1>2. \A w \in Workers : SentBack(w) \in SUBSET told /\ DueBack(w) \in SUBSET hooks
  BY DEF SentBack, DueBack
<1> QED
  BY <1>1, <1>2, FS_Subset DEF Warrants

\* A set and one element more.
LEMMA OneMore ==
  ASSUME NEW S, IsFiniteSet(S), NEW x
  PROVE  /\ IsFiniteSet(S \cup {x}) /\ Cardinality(S \cup {x}) \in Nat
         /\ Cardinality(S) \in Nat
         /\ Cardinality(S \cup {x}) <= Cardinality(S) + 1
<1>1. IsFiniteSet(S \cup {x})
      /\ (x \in S => Cardinality(S \cup {x}) = Cardinality(S))
      /\ (x \notin S => Cardinality(S \cup {x}) = Cardinality(S) + 1)
  BY FS_AddElement
<1>2. Cardinality(S) \in Nat
  BY FS_CardinalityType
<1> QED
  BY <1>1, <1>2

\* What is sent was due: together they do not grow.
LEMMA SendsWhatIsDue ==
  ASSUME NEW S, NEW D, IsFiniteSet(S), IsFiniteSet(D), NEW T, NEW E, NEW m, NEW h,
         \/ T = S /\ E \in SUBSET D
         \/ T \in SUBSET (S \cup {m}) /\ h \in D /\ E = D \ {h}
  PROVE  /\ Cardinality(T) \in Nat /\ Cardinality(E) \in Nat
         /\ Cardinality(S) \in Nat /\ Cardinality(D) \in Nat
         /\ Cardinality(T) + Cardinality(E) <= Cardinality(S) + Cardinality(D)
<1>1. Cardinality(S) \in Nat /\ Cardinality(D) \in Nat
  BY FS_CardinalityType
<1>2. CASE T = S /\ E \in SUBSET D
  <2>1. IsFiniteSet(E) /\ Cardinality(E) <= Cardinality(D)
    BY <1>2, FS_Subset
  <2>2. Cardinality(E) \in Nat
    BY <2>1, FS_CardinalityType
  <2> QED
    BY <1>1, <1>2, <2>1, <2>2
<1>3. CASE T \in SUBSET (S \cup {m}) /\ h \in D /\ E = D \ {h}
  <2>1. IsFiniteSet(E) /\ Cardinality(E) = Cardinality(D) - 1
    BY <1>3, FS_RemoveElement
  <2>2. IsFiniteSet(S \cup {m}) /\ Cardinality(S \cup {m}) <= Cardinality(S) + 1
    BY OneMore
  <2>3. IsFiniteSet(T) /\ Cardinality(T) <= Cardinality(S \cup {m})
    BY <1>3, <2>2, FS_Subset
  <2>4. /\ Cardinality(T) \in Nat /\ Cardinality(E) \in Nat
        /\ Cardinality(S \cup {m}) \in Nat
    BY <2>1, <2>2, <2>3, FS_CardinalityType
  <2> QED
    BY <1>1, <2>1, <2>2, <2>3, <2>4
<1> QED
  BY <1>2, <1>3

\* A commit adds a hook that may send something only where it opens the issue
\* or refutes a fix that its worker read.
LEMMA RecordedWarrants ==
  ASSUME TypeOK, Warrants, NEW w \in Workers, RecordWrite(w)
  PROVE  Warrants'
<1>1. PICK c, event, hook, row : RecordsWith(w, c, event, hook, row)
  BY RecordedFields
<1>2. PICK b \in BOOLEAN, d \in BOOLEAN :
        /\ b = (c.row = NoIssue)
        /\ d = (c.row # NoIssue /\ c.row.status = "fixed")
        /\ hook = [id |-> c.id, by |-> w, issue |-> row, created |-> b, regressed |-> d]
  BY <1>1, Zenon DEF RecordsWith
<1>3. hook.by = w /\ hook.created = b /\ hook.regressed = d
  BY <1>2
<1>4. /\ hooks' = hooks \cup {hook} /\ told' = told
      /\ issue' = row /\ row.status # "fixed" /\ row # NoIssue
      /\ c = txn[w] /\ c \in Call
      /\ txn' = [txn EXCEPT ![w] = Idle] /\ txn \in [Workers -> Call \cup {Idle}]
  BY <1>1, IssueAssumption DEF RecordsWith, TypeOK
<1>5. past'.fixes = past.fixes /\ past.fixes \in Nat
  <2>1. [past EXCEPT !.mutedAfter = spent.reports].fixes = past.fixes
    BY DEF TypeOK
  <2>2. past' = [past EXCEPT !.mutedAfter = spent.reports] \/ past' = past
    BY <1>1, Zenon DEF RecordsWith
  <2> QED
    BY <2>1, <2>2 DEF TypeOK
<1>6. IsFiniteSet(hooks') /\ IsFiniteSet(told')
  BY <1>4, OneMore DEF Warrants
<1>7. Cardinality(SentNew') + Cardinality(DueNew') <= 1
  <2>1. SentNew' = SentNew
    BY <1>4 DEF SentNew
  <2>2. /\ IsFiniteSet(DueNew)
        /\ Cardinality(SentNew) \in Nat /\ Cardinality(DueNew) \in Nat
    BY WarrantSets, FS_CardinalityType
  <2>3. CASE b
    <3>1. issue = NoIssue
      BY <1>1, <1>2, <2>3 DEF RecordsWith
    <3>2. Cardinality(SentNew) = 0 /\ Cardinality(DueNew) = 0
      BY <2>2, <3>1 DEF Warrants
    <3>3. DueNew' = DueNew \cup {hook}
      BY <1>3, <1>4, <2>3 DEF DueNew
    <3>4. Cardinality(DueNew') <= 1 /\ Cardinality(DueNew') \in Nat
      <4>1. PICK D, E : D = DueNew /\ E = DueNew'
        OBVIOUS
      <4>2. IsFiniteSet(D) /\ E = D \cup {hook} /\ Cardinality(D) = 0
        BY <2>2, <3>2, <3>3, <4>1
      <4>3. Cardinality(E) <= Cardinality(D) + 1 /\ Cardinality(E) \in Nat
        BY <4>2, OneMore
      <4> QED
        BY <4>1, <4>2, <4>3
    <3> QED
      BY <2>1, <3>2, <3>4
  <2>4. CASE ~ b
    <3>1. DueNew' = DueNew
      BY <1>3, <1>4, <2>4 DEF DueNew
    <3> QED
      BY <2>1, <2>2, <3>1 DEF Warrants
  <2> QED
    BY <2>3, <2>4
<1>8. ASSUME NEW v \in Workers
      PROVE  Cardinality(SentBack(v)') + Cardinality(DueBack(v)') + Refutable(v)'
               <= past.fixes
  <2>1. SentBack(v)' = SentBack(v)
    BY <1>4 DEF SentBack
  <2>2. /\ IsFiniteSet(DueBack(v))
        /\ Cardinality(SentBack(v)) \in Nat /\ Cardinality(DueBack(v)) \in Nat
    BY WarrantSets, FS_CardinalityType
  <2>3. Refutable(v) \in {0, 1} /\ Refutable(v)' \in {0, 1}
    BY DEF Refutable
  <2>4. Cardinality(SentBack(v)) + Cardinality(DueBack(v)) + Refutable(v) <= past.fixes
    BY DEF Warrants
  <2>5. CASE v = w /\ d
    <3>1. Refutable(v) = 1
      BY <1>2, <1>4, <2>5, IssueAssumption DEF Refutable
    <3>2. Refutable(v)' = 0
      BY <1>4, <2>5 DEF Refutable
    <3>3. DueBack(v)' = DueBack(v) \cup {hook}
      BY <1>3, <1>4, <2>5 DEF DueBack
    <3>4. Cardinality(DueBack(v)') <= Cardinality(DueBack(v)) + 1
          /\ Cardinality(DueBack(v)') \in Nat
      BY <2>2, <3>3, OneMore
    <3> QED
      BY <1>5, <2>1, <2>2, <2>4, <3>1, <3>2, <3>4
  <2>6. CASE ~ (v = w /\ d)
    <3>1. DueBack(v)' = DueBack(v)
      BY <1>3, <1>4, <2>6 DEF DueBack
    <3>2. txn'[v] = Idle \/ txn'[v] = txn[v]
      BY <1>4
    <3>3. Refutable(v)' <= Refutable(v)
      BY <1>4, <3>2 DEF Refutable
    <3> QED
      BY <1>5, <2>1, <2>2, <2>3, <2>4, <3>1, <3>3
  <2> QED
    BY <2>5, <2>6
<1> QED
  BY <1>4, <1>5, <1>6, <1>7, <1>8 DEF Warrants

\* A hook sends a message of an opening or a return only if it was due.
LEMMA HookWarrants ==
  ASSUME TypeOK, Warrants, HookTells \/ HookKeepsQuiet
  PROVE  Warrants'
<1>1. PICK h, m :
        /\ h \in hooks
        /\ hooks' = hooks \ {h}
        /\ \/ told' = told
           \/ /\ Reason(h) # "none"
              /\ m = [id |-> h.id, by |-> h.by, reason |-> Reason(h)]
              /\ told' = told \cup {m}
  BY DEF HookTells, HookKeepsQuiet
<1>2. UNCHANGED <<issue, past, txn>>
  BY DEF HookTells, HookKeepsQuiet
<1>3. IsFiniteSet(told') /\ IsFiniteSet(hooks')
  <2>1. IsFiniteSet(told) /\ IsFiniteSet(hooks)
    BY DEF Warrants
  <2>2. IsFiniteSet(told \cup {m})
    BY <2>1, OneMore
  <2>3. IsFiniteSet(hooks \ {h})
    BY <2>1, FS_RemoveElement
  <2> QED
    BY <1>1, <2>1, <2>2, <2>3
<1>4. told' # told => m.reason = Reason(h) /\ m.by = h.by
  BY <1>1
<1>5. told' # told /\ Reason(h) = "new issue" => h.created
  BY DEF Reason
<1>6. told' # told /\ Reason(h) = "regressed" => h.regressed
  BY DEF Reason
<1>7. Cardinality(SentNew') + Cardinality(DueNew')
        <= Cardinality(SentNew) + Cardinality(DueNew)
      /\ Cardinality(SentNew') \in Nat /\ Cardinality(DueNew') \in Nat
      /\ Cardinality(SentNew) \in Nat /\ Cardinality(DueNew) \in Nat
  <2>1. \/ SentNew' = SentNew /\ DueNew' \in SUBSET DueNew
        \/ SentNew' \in SUBSET (SentNew \cup {m}) /\ h \in DueNew /\ DueNew' = DueNew \ {h}
    BY <1>1, <1>4, <1>5 DEF SentNew, DueNew
  <2> QED
    BY <2>1, SendsWhatIsDue, WarrantSets
<1>8. ASSUME NEW w \in Workers
      PROVE  Cardinality(SentBack(w)') + Cardinality(DueBack(w)') + Refutable(w)'
               <= past.fixes
  <2>1. \/ SentBack(w)' = SentBack(w) /\ DueBack(w)' \in SUBSET DueBack(w)
        \/ /\ SentBack(w)' \in SUBSET (SentBack(w) \cup {m})
           /\ h \in DueBack(w) /\ DueBack(w)' = DueBack(w) \ {h}
    BY <1>1, <1>4, <1>6 DEF SentBack, DueBack
  <2>2. IsFiniteSet(SentBack(w)) /\ IsFiniteSet(DueBack(w))
    BY WarrantSets
  <2>3. /\ Cardinality(SentBack(w)') \in Nat /\ Cardinality(DueBack(w)') \in Nat
        /\ Cardinality(SentBack(w)) \in Nat /\ Cardinality(DueBack(w)) \in Nat
        /\ Cardinality(SentBack(w)') + Cardinality(DueBack(w)')
             <= Cardinality(SentBack(w)) + Cardinality(DueBack(w))
    BY <2>1, <2>2, SendsWhatIsDue
  <2>4. Refutable(w)' = Refutable(w) /\ Refutable(w) \in Nat
    BY <1>2 DEF Refutable
  <2>5. Cardinality(SentBack(w)) + Cardinality(DueBack(w)) + Refutable(w) <= past.fixes
        /\ past.fixes \in Nat
    BY DEF Warrants, TypeOK
  <2> QED
    BY <2>3, <2>4, <2>5
<1>9. Cardinality(SentNew') + Cardinality(DueNew') <= IF issue = NoIssue THEN 0 ELSE 1
  BY <1>7 DEF Warrants
<1> QED
  BY <1>2, <1>3, <1>8, <1>9 DEF Warrants

\* A worker that reads, or whose INSERT is refused, sends nothing.
LEMMA ReadWarrants ==
  ASSUME TypeOK, Warrants, NEW w \in Workers, RecordRead(w) \/ RecordRaise(w)
  PROVE  Warrants'
<1>1. UNCHANGED <<issue, hooks, told, past>>
  BY DEF RecordRead, RecordRaise
<1>2. SentNew' = SentNew /\ DueNew' = DueNew
  BY <1>1 DEF SentNew, DueNew
<1>3. ASSUME NEW v \in Workers
      PROVE  /\ SentBack(v)' = SentBack(v) /\ DueBack(v)' = DueBack(v)
             /\ Refutable(v)' <= Refutable(v)
  <2>1. SentBack(v)' = SentBack(v) /\ DueBack(v)' = DueBack(v)
    BY <1>1 DEF SentBack, DueBack
  <2>2. \/ txn'[v] = txn[v]
        \/ txn'[v] = Idle
        \/ txn'[v].row = issue
    BY DEF RecordRead, RecordRaise, TypeOK
  <2>3. Refutable(v)' <= Refutable(v)
    BY <1>1, <2>2 DEF Refutable
  <2> QED
    BY <2>1, <2>3
<1>4. \A v \in Workers :
        Cardinality(SentBack(v)') + Cardinality(DueBack(v)') + Refutable(v)' <= past.fixes
  <2>1. TAKE v \in Workers
  <2>2. Cardinality(SentBack(v)) \in Nat /\ Cardinality(DueBack(v)) \in Nat
    BY WarrantSets, FS_CardinalityType
  <2>3. Refutable(v) \in Nat /\ Refutable(v)' \in Nat /\ past.fixes \in Nat
    BY DEF Refutable, TypeOK
  <2>4. Cardinality(SentBack(v)) + Cardinality(DueBack(v)) + Refutable(v) <= past.fixes
    BY DEF Warrants
  <2> QED
    BY <1>3, <2>2, <2>3, <2>4
<1> QED
  BY <1>1, <1>2, <1>4 DEF Warrants

\* A fix warrants one message more of each worker; the other edits change
\* nothing of it.
LEMMA EditWarrants ==
  ASSUME TypeOK, Warrants, Fix \/ Mute \/ Reopen
  PROVE  Warrants'
<1>1. UNCHANGED <<hooks, told, txn>> /\ issue # NoIssue /\ issue \in Issue
  BY DEF Fix, Mute, Reopen, Editing, TypeOK
<1>2. issue' # NoIssue
  BY EditTyped, IssueAssumption
<1>3. SentNew' = SentNew /\ DueNew' = DueNew
  BY <1>1 DEF SentNew, DueNew
<1>4. past.fixes \in Nat
  BY DEF TypeOK
<1>5. \/ past'.fixes = past.fixes + 1
      \/ past'.fixes = past.fixes /\ issue'.status # "fixed"
  <2>1. CASE Fix
    BY <2>1 DEF Fix, TypeOK
  <2>2. CASE Mute \/ Reopen
    BY <1>1, <2>2 DEF Mute, Reopen, TypeOK, Issue
  <2> QED
    BY <2>1, <2>2
<1>6. ASSUME NEW w \in Workers
      PROVE  Cardinality(SentBack(w)') + Cardinality(DueBack(w)') + Refutable(w)'
               <= past'.fixes
  <2>1. SentBack(w)' = SentBack(w) /\ DueBack(w)' = DueBack(w)
    BY <1>1 DEF SentBack, DueBack
  <2>2. Cardinality(SentBack(w)) \in Nat /\ Cardinality(DueBack(w)) \in Nat
    BY WarrantSets, FS_CardinalityType
  <2>3. Refutable(w) \in {0, 1} /\ Refutable(w)' \in {0, 1}
    BY DEF Refutable
  <2>4. issue'.status # "fixed" => Refutable(w)' <= Refutable(w)
    BY <1>1 DEF Refutable
  <2>5. Cardinality(SentBack(w)) + Cardinality(DueBack(w)) + Refutable(w) <= past.fixes
    BY DEF Warrants
  <2> QED
    BY <1>4, <1>5, <2>1, <2>2, <2>3, <2>4, <2>5
<1> QED
  BY <1>1, <1>2, <1>3, <1>6 DEF Warrants

\* Repeats tell nobody: of one issue, however many workers record however many
\* occurrences, and in whatever order their hooks run beside fixes, mutes and
\* reopenings, there is one message for its opening and at most one from each
\* worker for each fix, and the rest are about changes of rate.
THEOREM Repeats == Spec => []RepeatsTellNobody
<1>1. Init => Warrants
  <2> SUFFICES ASSUME Init
               PROVE  Warrants
    OBVIOUS
  <2>1. SentNew = {} /\ DueNew = {} /\ past.fixes = 0 /\ issue = NoIssue
    BY DEF Init, SentNew, DueNew
  <2>2. \A w \in Workers : SentBack(w) = {} /\ DueBack(w) = {} /\ Refutable(w) = 0
    BY DEF Init, SentBack, DueBack, Refutable
  <2> QED
    BY <2>1, <2>2, FS_EmptySet DEF Init, Warrants
<1>2. TypeOK /\ Warrants /\ [Next]_vars => Warrants'
  <2> SUFFICES ASSUME TypeOK, Warrants, [Next]_vars
               PROVE  Warrants'
    OBVIOUS
  <2>1. ASSUME Tick \/ UNCHANGED vars
        PROVE  Warrants'
    <3>1. UNCHANGED <<told, hooks, txn, issue, past>>
      BY <2>1 DEF Tick, vars
    <3> QED
      BY <3>1 DEF Warrants, SentNew, DueNew, SentBack, DueBack, Refutable
  <2> QED
    BY <2>1, RecordedWarrants, ReadWarrants, HookWarrants, EditWarrants DEF Next, Records
<1>3. TypeOK /\ Warrants => RepeatsTellNobody
  <2> SUFFICES ASSUME TypeOK, Warrants
               PROVE  RepeatsTellNobody
    OBVIOUS
  <2>1. Cardinality(SentNew) <= 1
    <3>1. Cardinality(SentNew) \in Nat /\ Cardinality(DueNew) \in Nat
      BY WarrantSets, FS_CardinalityType
    <3> QED
      BY <3>1 DEF Warrants
  <2>2. \A w \in Workers : Cardinality(SentBack(w)) <= past.fixes
    <3>1. TAKE w \in Workers
    <3>2. Cardinality(SentBack(w)) \in Nat /\ Cardinality(DueBack(w)) \in Nat
      BY WarrantSets, FS_CardinalityType
    <3>3. Refutable(w) \in Nat /\ past.fixes \in Nat
      BY DEF Refutable, TypeOK
    <3> QED
      BY <3>2, <3>3 DEF Warrants
  <2> QED
    BY <2>1, <2>2 DEF RepeatsTellNobody, SentNew, SentBack
<1> QED
  BY <1>1, <1>2, <1>3, Typing, PTL DEF Spec

-----------------------------------------------------------------------------
(* A mute is quiet                                                         *)

\* Every call and every hook is of an occurrence that was counted.
AllAreCounted ==
  /\ \A h \in hooks : h.id <= spent.reports
  /\ \A w \in Workers : txn[w] # Idle => txn[w].id <= spent.reports
  /\ past.mutedAfter <= spent.reports

\* While the issue is muted, a call that began after the mute was put on the
\* row, and the hook of such a call, hold a copy of the issue that knows of it.
AllKnowTheMute ==
  issue.status = "muted" =>
    /\ \A h \in hooks :
         h.id > past.mutedAfter =>
           h.issue.status = "muted" /\ h.issue.mutedUntil = issue.mutedUntil
    /\ \A w \in Workers :
         txn[w] # Idle /\ txn[w].id > past.mutedAfter =>
           txn[w].row.status = "muted" /\ txn[w].row.mutedUntil = issue.mutedUntil

\* The inductive invariant of mutes.
MuteInv == AllAreCounted /\ AllKnowTheMute

\* A call that begins reads the mute that stands.
LEMMA ReadKnows ==
  ASSUME TypeOK, MuteInv, NEW w \in Workers, RecordRead(w)
  PROVE  MuteInv'
<1>1. /\ UNCHANGED <<issue, hooks, past>>
      /\ txn' = [txn EXCEPT ![w] = [id |-> spent.reports + 1, at |-> now, row |-> issue]]
      /\ txn \in [Workers -> Call \cup {Idle}]
      /\ spent'.reports = spent.reports + 1 /\ spent.reports \in Nat
      /\ past.mutedAfter \in Nat
  BY DEF RecordRead, TypeOK
<1>2. txn'[w].id = spent.reports + 1 /\ txn'[w].row = issue
  BY <1>1
<1>3. \A v \in Workers : v = w \/ txn'[v] = txn[v]
  BY <1>1
<1>4. \A v \in Workers : txn[v] # Idle => txn[v].id \in Nat
  BY <1>1 DEF Call
<1>5. \A h \in hooks : h.id \in Nat
  BY DEF TypeOK, Hook
<1>6. AllAreCounted'
  BY <1>1, <1>2, <1>3, <1>4, <1>5 DEF MuteInv, AllAreCounted
<1>7. AllKnowTheMute'
  BY <1>1, <1>2, <1>3 DEF MuteInv, AllKnowTheMute
<1> QED
  BY <1>6, <1>7 DEF MuteInv

\* A commit leaves the issue under a mute its call met, which stood then: it is
\* the mute on the row, or one that it puts back, after all that has begun.
LEMMA RecordedKnows ==
  ASSUME TypeOK, MuteInv, NEW w \in Workers, RecordWrite(w)
  PROVE  MuteInv'
<1>1. PICK c, event, hook, row : RecordsWith(w, c, event, hook, row)
  BY RecordedFields
<1>2. /\ hooks' = hooks \cup {hook} /\ issue' = row
      /\ hook.id = c.id /\ hook.issue = row
      /\ c = txn[w] /\ c \in Call
      /\ txn' = [txn EXCEPT ![w] = Idle] /\ txn \in [Workers -> Call \cup {Idle}]
      /\ spent' = spent /\ spent.reports \in Nat /\ past.mutedAfter \in Nat
  BY <1>1 DEF RecordsWith, TypeOK
<1>3. c # Idle /\ c.id \in Nat /\ c.id <= spent.reports
  BY <1>2, IssueAssumption DEF Call, MuteInv, AllAreCounted
<1>4. \A v \in Workers : txn'[v] = Idle \/ txn'[v] = txn[v]
  BY <1>2
<1>5. /\ \A h \in hooks : h.id \in Nat
      /\ \A v \in Workers : txn[v] # Idle => txn[v].id \in Nat
  BY <1>2 DEF TypeOK, Hook, Call
<1>6. CASE Mutes(row)
  <2>1. past'.mutedAfter = spent.reports
    BY <1>1, <1>6 DEF RecordsWith, TypeOK
  <2>2. AllAreCounted'
    BY <1>2, <1>3, <1>4, <2>1 DEF MuteInv, AllAreCounted
  <2>3. AllKnowTheMute'
    BY <1>2, <1>5, <2>1, <2>2 DEF AllAreCounted, AllKnowTheMute, TypeOK, Hook
  <2> QED
    BY <2>2, <2>3 DEF MuteInv
<1>7. CASE ~ Mutes(row)
  <2>1. past' = past
    BY <1>1, <1>7 DEF RecordsWith
  <2>2. AllAreCounted'
    BY <1>2, <1>3, <1>4, <2>1 DEF MuteInv, AllAreCounted
  <2>3. row.status = "muted" => issue.status = "muted" /\ row.mutedUntil = issue.mutedUntil
    BY <1>7 DEF Mutes
  <2>4. AllKnowTheMute'
    BY <1>2, <1>4, <2>1, <2>3 DEF MuteInv, AllKnowTheMute
  <2> QED
    BY <2>2, <2>4 DEF MuteInv
<1> QED
  BY <1>6, <1>7

\* A mute comes after every call there is; the other edits end it.
LEMMA EditKnows ==
  ASSUME TypeOK, MuteInv, Fix \/ Mute \/ Reopen
  PROVE  MuteInv'
<1>1. /\ UNCHANGED <<hooks, txn>> /\ issue \in Issue
      /\ spent'.reports = spent.reports /\ spent.reports \in Nat
  BY DEF Fix, Mute, Reopen, Editing, TypeOK
<1>2. CASE Fix \/ Reopen
  <2>1. issue'.status # "muted" /\ past'.mutedAfter = past.mutedAfter
    BY <1>1, <1>2 DEF Fix, Reopen, Issue, TypeOK
  <2> QED
    BY <1>1, <2>1 DEF MuteInv, AllAreCounted, AllKnowTheMute
<1>3. CASE Mute
  <2>1. past'.mutedAfter = spent.reports
    BY <1>3 DEF Mute, TypeOK
  <2>2. AllAreCounted'
    BY <1>1, <2>1 DEF MuteInv, AllAreCounted
  <2>3. /\ \A h \in hooks : h.id \in Nat /\ h.id <= spent.reports
        /\ \A w \in Workers :
             txn[w] # Idle => txn[w].id \in Nat /\ txn[w].id <= spent.reports
    BY DEF MuteInv, AllAreCounted, TypeOK, Hook, Call
  <2>4. AllKnowTheMute'
    BY <1>1, <2>1, <2>3 DEF AllKnowTheMute
  <2> QED
    BY <2>2, <2>4 DEF MuteInv
<1> QED
  BY <1>2, <1>3

\* Of an issue that is muted now a message goes out only for an occurrence
\* whose recording began before the mute was put on the row
\* (Issue.is_muted_now, asked of the hook's copy).
THEOREM MuteIsKept == Spec => MutedIsQuiet
<1>1. Init => MuteInv
  BY DEF Init, MuteInv, AllAreCounted, AllKnowTheMute
<1>2. TypeOK /\ MuteInv /\ [Next]_vars => MuteInv'
  <2> SUFFICES ASSUME TypeOK, MuteInv, [Next]_vars
               PROVE  MuteInv'
    OBVIOUS
  <2>1. ASSUME HookTells \/ HookKeepsQuiet \/ Tick \/ UNCHANGED vars
        PROVE  MuteInv'
    <3>1. UNCHANGED <<issue, txn, spent, past>> /\ hooks' \subseteq hooks
      BY <2>1 DEF HookTells, HookKeepsQuiet, Tick, vars
    <3> QED
      BY <3>1 DEF MuteInv, AllAreCounted, AllKnowTheMute
  <2>2. ASSUME NEW w \in Workers, RecordRaise(w)
        PROVE  MuteInv'
    <3>1. UNCHANGED <<issue, hooks, spent, past>>
      BY <2>2 DEF RecordRaise
    <3>2. \A v \in Workers : txn'[v] = Idle \/ txn'[v] = txn[v]
      BY <2>2 DEF RecordRaise, TypeOK
    <3> QED
      BY <3>1, <3>2 DEF MuteInv, AllAreCounted, AllKnowTheMute
  <2> QED
    BY <2>1, <2>2, ReadKnows, RecordedKnows, EditKnows DEF Next, Records
<1>3. TypeOK /\ MuteInv /\ [Next]_vars =>
        [\A m \in told' \ told : MutedAt(issue, now) => m.id <= past.mutedAfter]_vars
  <2> SUFFICES ASSUME TypeOK, MuteInv, [Next]_vars, NEW m \in told' \ told,
                      MutedAt(issue, now)
               PROVE  m.id <= past.mutedAfter
    OBVIOUS
  <2>1. HookTells
    BY RecordsTellNobody DEF Next, HookKeepsQuiet, Fix, Mute, Reopen, Tick, vars
  <2>2. PICK h \in hooks :
          ~ Silent(h) /\ told' = told \cup {[id |-> h.id, by |-> h.by, reason |-> Reason(h)]}
    BY <2>1 DEF HookTells
  <2>3. m = [id |-> h.id, by |-> h.by, reason |-> Reason(h)]
    BY <2>2
  <2>4. m.id = h.id
    BY <2>3
  <2>5. ~ MutedAt(h.issue, now)
    BY <2>2, Zenon DEF Silent
  <2>6. ~ (h.id > past.mutedAfter)
    BY <2>5 DEF MuteInv, AllKnowTheMute, MutedAt
  <2>7. h.id \in Nat /\ past.mutedAfter \in Nat
    BY DEF TypeOK, Hook
  <2> QED
    BY <2>4, <2>6, <2>7
<1> QED
  BY <1>1, <1>2, <1>3, Typing, PTL DEF Spec, MutedIsQuiet


-----------------------------------------------------------------------------
(* A true change of rate is heard                                          *)

\* An event stands for as many occurrences as it carries.
LEMMA StandOfOne ==
  ASSUME NEW e, e.n \in Nat
  PROVE  IsFiniteSet({e} \X (1 .. e.n))
<1>1. IsFiniteSet(1 .. e.n)
  BY FS_Interval
<1>2. IsFiniteSet({e})
  BY FS_Singleton
<1> QED
  BY <1>1, <1>2, FS_Product

\* Finitely many events stand for finitely many occurrences.
LEMMA StandFinite ==
  ASSUME NEW S, IsFiniteSet(S), \A e \in S : e.n \in Nat
  PROVE  IsFiniteSet(StandFor(S)) /\ Cardinality(StandFor(S)) \in Nat
<1> DEFINE T == {{e} \X (1 .. e.n) : e \in S}
<1>1. IsFiniteSet(T)
  <2> DEFINE h == [e \in S |-> {e} \X (1 .. e.n)]
  <2>1. h \in Surjection(S, T)
    BY DEF Surjection
  <2> QED
    BY <2>1, FS_Surjection
<1>2. \A H \in T : IsFiniteSet(H)
  BY StandOfOne
<1> HIDE DEF T
<1>3. IsFiniteSet(UNION T)
  BY <1>1, <1>2, FS_UNION
<1> QED
  BY <1>3, FS_CardinalityType DEF StandFor, T

\* Fewer events stand for no more occurrences.
LEMMA StandOfPart ==
  ASSUME NEW S, IsFiniteSet(S), \A e \in S : e.n \in Nat, NEW T \in SUBSET S
  PROVE  Cardinality(StandFor(T)) <= Cardinality(StandFor(S))
<1>1. StandFor(T) \subseteq StandFor(S)
  BY DEF StandFor
<1> QED
  BY <1>1, StandFinite, FS_Subset

\* Events that carry at least one occurrence each stand for at least as many.
LEMMA StandForThemselves ==
  ASSUME NEW S, IsFiniteSet(S), \A e \in S : e.n \in Nat \ {0}
  PROVE  Cardinality(S) <= Cardinality(StandFor(S))
<1> DEFINE h == [e \in S |-> <<e, 1>>]
<1>1. \A e \in S : <<e, 1>> \in {e} \X (1 .. e.n)
  OBVIOUS
<1>2. \A e \in S : <<e, 1>> \in StandFor(S)
  BY <1>1 DEF StandFor
<1>3. h \in Injection(S, StandFor(S))
  BY <1>2 DEF Injection, IsInjective
<1>4. IsFiniteSet(StandFor(S))
  BY StandFinite
<1> HIDE DEF h
<1> QED
  BY <1>3, <1>4, FS_Injection

\* The rows of an issue are all of its occurrences, or the newest Keep.
Newest(R, T) ==
  \/ R = T
  \/ /\ Keep # 0 /\ Cardinality(R) = Keep
     /\ \A x \in R, y \in T \ R : x.at >= y.at

\* What the cap leaves of a spike is a spike, unless the cap keeps fewer rows
\* than a spike must have: where it drops an event of the last hour, all it
\* keeps is of the last hour, and the hour before looks empty.
LEMMA ThinnedSpike ==
  ASSUME NEW T, IsFiniteSet(T), NEW R \in SUBSET T, now \in Nat,
         \A e \in T : e.n \in Nat \ {0} /\ e.at \in Nat /\ e.at <= now,
         Keep = 0 \/ Keep >= Minimum, Newest(R, T), Spiking(T)
  PROVE  Spiking(R)
<1>1. CASE R = T
  BY <1>1
<1>2. CASE Keep # 0 /\ Cardinality(R) = Keep /\ \A x \in R, y \in T \ R : x.at >= y.at
  <2>1. PICK one, two : one = now - Hour /\ two = now - 2 * Hour
    OBVIOUS
  <2>2. one \in Int /\ two \in Int /\ one < now /\ two + Hour = one /\ one + Hour = now
    BY <2>1, NotifyAssumption
  <2>3. Total(T, one) >= Minimum
        /\ (Total(T, two) = 0 \/ Total(T, one) >= Total(T, two) * Factor)
    BY <2>1 DEF Spiking
  <2>4. \A since \in {one, two} :
          /\ IsFiniteSet(InHour(T, since)) /\ InHour(R, since) \subseteq InHour(T, since)
          /\ IsFiniteSet(InHour(R, since))
    <3>1. TAKE since \in {one, two}
    <3>2. InHour(T, since) \in SUBSET T /\ InHour(R, since) \in SUBSET InHour(T, since)
      BY DEF InHour
    <3>3. IsFiniteSet(InHour(T, since))
      BY <3>2, FS_Subset
    <3>4. IsFiniteSet(InHour(R, since))
      BY <3>2, <3>3, FS_Subset
    <3> QED
      BY <3>2, <3>3, <3>4
  <2>5. \A since \in {one, two} :
          Total(R, since) \in Nat /\ Total(T, since) \in Nat
            /\ Total(R, since) <= Total(T, since)
    <3>1. TAKE since \in {one, two}
    <3>2. PICK A, B : A = InHour(T, since) /\ B = InHour(R, since)
      OBVIOUS
    <3>3. IsFiniteSet(A) /\ IsFiniteSet(B) /\ B \in SUBSET A /\ \A e \in A : e.n \in Nat
      BY <2>4, <3>2 DEF InHour
    <3>4. /\ Cardinality(StandFor(A)) \in Nat /\ Cardinality(StandFor(B)) \in Nat
          /\ Cardinality(StandFor(B)) <= Cardinality(StandFor(A))
      BY <3>3, StandFinite, StandOfPart
    <3> QED
      BY <3>2, <3>4 DEF Total
  <2>6. CASE \E y \in T \ R : y \in InHour(T, one)
    <3>1. PICK y \in T \ R : y.at > one
      BY <2>6 DEF InHour
    <3>2. \A x \in R : x.at > one /\ x.at <= now /\ x.at \in Nat
      BY <1>2, <2>2, <3>1
    <3>3. InHour(R, one) = R /\ InHour(R, two) = {}
      BY <2>2, <3>2 DEF InHour
    <3>4. Total(R, two) = 0
      <4>1. StandFor({}) = {}
        BY DEF StandFor
      <4> QED
        BY <3>3, <4>1, FS_EmptySet DEF Total
    <3>5. Total(R, one) >= Keep
      <4>1. IsFiniteSet(R) /\ \A e \in R : e.n \in Nat \ {0}
        BY FS_Subset
      <4> QED
        BY <1>2, <3>3, <4>1, StandForThemselves, NotifyAssumption DEF Total
    <3>6. Total(R, one) >= Minimum
      BY <1>2, <2>5, <3>5, NotifyAssumption
    <3> QED
      BY <2>1, <3>4, <3>6 DEF Spiking
  <2>7. CASE ~ \E y \in T \ R : y \in InHour(T, one)
    <3>1. InHour(R, one) = InHour(T, one)
      BY <2>7 DEF InHour
    <3>2. Total(R, one) = Total(T, one)
      BY <3>1 DEF Total
    <3>3. PICK r, p, q \in Nat :
            r = Total(T, one) /\ p = Total(T, two) /\ q = Total(R, two)
      BY <2>5
    <3>4. r >= Minimum /\ q <= p /\ (p = 0 \/ r >= p * Factor)
      BY <2>3, <2>5, <3>3
    <3>5. q = 0 \/ r >= q * Factor
      <4>1. q * Factor <= p * Factor
        BY <3>4, NotifyAssumption, SMTT(30)
      <4>2. q * Factor \in Nat /\ p * Factor \in Nat
        BY NotifyAssumption
      <4> QED
        BY <3>4, <4>1, <4>2
    <3> QED
      BY <2>1, <3>2, <3>3, <3>4, <3>5 DEF Spiking
  <2> QED
    BY <2>6, <2>7
<1> QED
  BY <1>1, <1>2 DEF Newest


\* Every occurrence committed, or about to be, is in the past.
TruthIsPast ==
  /\ IsFiniteSet(truth)
  /\ \A e \in truth : e.at <= now
  /\ \A w \in Workers : txn[w] # Idle => txn[w].at <= now

\* The rows are the newest occurrences there were.
RowsAreNewest == rows \subseteq truth /\ Newest(rows, truth)

\* The inductive invariant of the rows.
RowInv == TruthIsPast /\ RowsAreNewest

\* The cap of the rows and one event more leaves the newest, also where the
\* event is older than rows that other workers committed before it.
LEMMA CappedNewest ==
  ASSUME NEW T, IsFiniteSet(T), NEW R \in SUBSET T, Newest(R, T),
         NEW event, \A e \in T \cup {event} : e.at \in Nat,
         NEW K \in Capped(R \cup {event})
  PROVE  K \subseteq T \cup {event} /\ Newest(K, T \cup {event})
<1>1. K \subseteq R \cup {event}
  BY CappedSubset
<1>2. IsFiniteSet(R) /\ IsFiniteSet(R \cup {event})
  BY FS_Subset, FS_AddElement
<1>3. /\ Cardinality(R) \in Nat
      /\ event \notin R => Cardinality(R \cup {event}) = Cardinality(R) + 1
  BY <1>2, FS_CardinalityType, FS_AddElement
<1>4. CASE Keep = 0 \/ Cardinality(R \cup {event}) <= Keep
  <2>1. K = R \cup {event}
    BY <1>4 DEF Capped
  <2>2. CASE R = T
    BY <2>1, <2>2 DEF Newest
  <2>3. CASE R # T
    <3>1. Keep # 0 /\ Cardinality(R) = Keep
      BY <2>3 DEF Newest
    <3>2. event \in R
      BY <1>3, <1>4, <3>1
    <3>3. K = R /\ T \cup {event} = T
      BY <2>1, <3>2
    <3> QED
      BY <3>3
  <2> QED
    BY <2>2, <2>3
<1>5. CASE ~ (Keep = 0 \/ Cardinality(R \cup {event}) <= Keep)
  <2>1. /\ Cardinality(K) = Keep /\ Keep # 0
        /\ \A x \in K, y \in (R \cup {event}) \ K : x.at >= y.at
    BY <1>5 DEF Capped
  <2>2. ASSUME NEW x \in K, NEW y \in (T \cup {event}) \ K
        PROVE  x.at >= y.at
    <3>1. CASE y \in R \cup {event}
      BY <2>1, <2>2, <3>1
    <3>2. CASE y \notin R \cup {event}
      <4>1. y \in T \ R /\ Cardinality(R) = Keep
            /\ \A r \in R : r.at >= y.at
        BY <2>2, <3>2 DEF Newest
      <4>2. CASE x \in R
        BY <4>1, <4>2
      <4>3. CASE x \notin R
        <5>1. x = event /\ event \notin R
          BY <1>1, <2>2, <4>3
        <5>2. PICK r \in R : r \notin K
          <6>1. SUFFICES ASSUME R \subseteq K
                         PROVE  FALSE
            OBVIOUS
          <6>2. K = R \cup {event}
            BY <1>1, <2>2, <5>1, <6>1
          <6> QED
            BY <1>3, <2>1, <4>1, <5>1, <6>2, NotifyAssumption
        <5>3. x.at >= r.at /\ r.at >= y.at
          BY <2>1, <2>2, <4>1, <5>2
        <5>4. x.at \in Nat /\ r.at \in Nat /\ y.at \in Nat
          BY <2>2, <4>1, <5>1, <5>2
        <5> QED
          BY <5>3, <5>4
      <4> QED
        BY <4>2, <4>3
    <3> QED
      BY <3>1, <3>2
  <2> QED
    BY <1>1, <2>1, <2>2 DEF Newest
<1> QED
  BY <1>4, <1>5

\* The cap drops the oldest rows only.
LEMMA RecordedNewest ==
  ASSUME TypeOK, RowInv, NEW w \in Workers, RecordWrite(w)
  PROVE  RowInv'
<1>1. PICK c, event, hook, row : RecordsWith(w, c, event, hook, row)
  BY RecordedFields
<1>2. /\ rows' \in Capped(rows \cup {event})
      /\ truth' = truth \cup {event} /\ now' = now
      /\ event.at = c.at /\ c = txn[w] /\ c \in Call
      /\ txn' = [txn EXCEPT ![w] = Idle] /\ txn \in [Workers -> Call \cup {Idle}]
  BY <1>1 DEF RecordsWith, TypeOK
<1>3. \A e \in truth \cup {event} : e.at \in Nat
  BY <1>2 DEF TypeOK, Event, Call
<1>4. TruthIsPast'
  <2>1. IsFiniteSet(truth')
    BY <1>2, FS_AddElement DEF RowInv, TruthIsPast
  <2>2. event.at <= now
    BY <1>2, IssueAssumption DEF RowInv, TruthIsPast
  <2>3. \A v \in Workers : txn'[v] = Idle \/ txn'[v] = txn[v]
    BY <1>2
  <2> QED
    BY <1>2, <2>1, <2>2, <2>3 DEF RowInv, TruthIsPast
<1>5. IsFiniteSet(truth) /\ rows \in SUBSET truth /\ Newest(rows, truth)
  BY DEF RowInv, TruthIsPast, RowsAreNewest
<1>6. rows' \subseteq truth \cup {event} /\ Newest(rows', truth \cup {event})
  <2>1. PICK T, R, K : T = truth /\ R = rows /\ K = rows'
    OBVIOUS
  <2>2. /\ IsFiniteSet(T) /\ R \in SUBSET T /\ Newest(R, T)
        /\ \A e \in T \cup {event} : e.at \in Nat
        /\ K \in Capped(R \cup {event})
    BY <1>2, <1>3, <1>5, <2>1
  <2>3. K \subseteq T \cup {event} /\ Newest(K, T \cup {event})
    BY <2>2, CappedNewest
  <2> QED
    BY <2>1, <2>3
<1>7. RowsAreNewest'
  BY <1>2, <1>6 DEF RowsAreNewest, Newest
<1> QED
  BY <1>4, <1>7 DEF RowInv

\* The rows are what the cap makes them at every step, and stay so as time
\* goes by.
LEMMA RowsStay == Spec => []RowInv
<1>1. Init => RowInv
  BY FS_EmptySet DEF Init, RowInv, TruthIsPast, RowsAreNewest, Newest
<1>2. TypeOK /\ RowInv /\ [Next]_vars => RowInv'
  <2> SUFFICES ASSUME TypeOK, RowInv, [Next]_vars
               PROVE  RowInv'
    OBVIOUS
  <2>1. ASSUME NEW w \in Workers, RecordRead(w) \/ RecordRaise(w)
        PROVE  RowInv'
    <3>1. UNCHANGED <<rows, truth, now>>
      BY <2>1 DEF RecordRead, RecordRaise
    <3>2. now \in Nat
      BY NotifyAssumption DEF TypeOK
    <3>3. \A v \in Workers : txn'[v] = Idle \/ txn'[v] = txn[v] \/ txn'[v].at = now
      BY <2>1 DEF RecordRead, RecordRaise, TypeOK
    <3> QED
      BY <3>1, <3>2, <3>3 DEF RowInv, TruthIsPast, RowsAreNewest, Newest
  <2>2. CASE HookTells \/ HookKeepsQuiet \/ Fix \/ Mute \/ Reopen \/ Tick \/ UNCHANGED vars
    <3>1. UNCHANGED <<rows, truth, txn>> /\ (now' = now \/ now' = now + 1)
      BY <2>2 DEF HookTells, HookKeepsQuiet, Fix, Mute, Reopen, Tick, vars
    <3>2. now \in Nat /\ (\A e \in truth : e.at \in Nat)
          /\ (\A w \in Workers : txn[w] # Idle => txn[w].at \in Nat)
      BY NotifyAssumption DEF TypeOK, Event, Call
    <3>3. TruthIsPast'
      BY <3>1, <3>2 DEF RowInv, TruthIsPast
    <3>4. RowsAreNewest'
      BY <3>1 DEF RowInv, RowsAreNewest, Newest
    <3> QED
      BY <3>3, <3>4 DEF RowInv
  <2> QED
    BY <2>1, <2>2, RecordedNewest DEF Next, Records
<1> QED
  BY <1>1, <1>2, Typing, PTL DEF Spec

\* A true change of rate is heard although _cap_events has thinned the rows,
\* if the cap keeps as many rows as the least spike has, or every row: the
\* hook of an occurrence that runs inside a spike of what really happened,
\* and that nothing silences, sends a message.
THEOREM SpikesAreHeard ==
  ASSUME Keep = 0 \/ Keep >= Minimum
  PROVE  Spec => TrueSpikeIsHeard
<1>1. TypeOK /\ RowInv /\ [Next]_vars =>
        [\A h \in hooks \ hooks' :
           OnSpike /\ Spiking(truth) /\ ~ Silent(h) => \E m \in told' : m.id = h.id]_vars
  <2> SUFFICES ASSUME TypeOK, RowInv, [Next]_vars, NEW h \in hooks \ hooks',
                      OnSpike, Spiking(truth), ~ Silent(h)
               PROVE  \E m \in told' : m.id = h.id
    OBVIOUS
  <2>1. CASE HookTells
    <3>1. PICK k \in hooks :
            /\ told' = told \cup {[id |-> k.id, by |-> k.by, reason |-> Reason(k)]}
            /\ hooks' = hooks \ {k}
      BY <2>1 DEF HookTells
    <3>2. h = k
      BY <3>1
    <3>3. [id |-> k.id, by |-> k.by, reason |-> Reason(k)] \in told'
      BY <3>1
    <3> QED
      BY <3>2, <3>3
  <2>2. CASE HookKeepsQuiet
    <3>1. PICK k \in hooks :
            (Reason(k) = "none" \/ Silent(k)) /\ hooks' = hooks \ {k}
      BY <2>2 DEF HookKeepsQuiet
    <3>2. h = k
      BY <3>1
    <3>3. Reason(h) = "none"
      BY <3>1, <3>2, Zenon
    <3>4. \A e \in truth : e.n \in Nat \ {0} /\ e.at \in Nat /\ e.at <= now
      BY NotifyAssumption DEF TypeOK, Event, RowInv, TruthIsPast
    <3>5. /\ IsFiniteSet(truth) /\ rows \in SUBSET truth /\ now \in Nat
          /\ Newest(rows, truth)
      BY DEF TypeOK, RowInv, TruthIsPast, RowsAreNewest
    <3>6. Spiking(rows)
      BY <3>4, <3>5, ThinnedSpike
    <3>7. Reason(h) # "none"
      BY <3>6 DEF Reason
    <3> QED
      BY <3>3, <3>7
  <2>3. CASE ~ HookTells /\ ~ HookKeepsQuiet
    BY <2>3, RecordsTellNobody DEF Next, Fix, Mute, Reopen, Tick, vars
  <2> QED
    BY <2>1, <2>2, <2>3
<1> QED
  BY <1>1, Typing, RowsStay, PTL DEF Spec, TrueSpikeIsHeard


=============================================================================
