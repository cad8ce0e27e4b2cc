--------------------------- MODULE Transport_proofs ---------------------------
(***************************************************************************)
(* Theorems about a reporter for every set of threads and payloads, every  *)
(* bound of the buffer and of a batch, whatever the owner, its operators   *)
(* and the fallback channel do.                                            *)
(***************************************************************************)
EXTENDS Transport, FiniteSetTheorems, SequenceTheorems, TLAPS

-----------------------------------------------------------------------------
(* Queues                                                                  *)

\* A queue holds what it is made of, at its positions.
LEMMA Positions ==
  ASSUME NEW S, NEW q \in Seq(S)
  PROVE  /\ Len(q) \in Nat /\ DOMAIN q = 1 .. Len(q)
         /\ \A i \in DOMAIN q : q[i] \in S
         /\ In(q) \subseteq S
         /\ q = << >> <=> Len(q) = 0
BY LenProperties, EmptySeq DEF In

\* Nothing is in the empty queue.
LEMMA InEmpty == In(<< >>) = {}
BY DEF In

\* One more at the end of a queue.
LEMMA Appended ==
  ASSUME NEW S, NEW q \in Seq(S), NEW p \in S
  PROVE  /\ Append(q, p) \in Seq(S) /\ Len(Append(q, p)) = Len(q) + 1
         /\ DOMAIN Append(q, p) = 1 .. Len(q) + 1
         /\ \A i \in DOMAIN q : Append(q, p)[i] = q[i]
         /\ Append(q, p)[Len(q) + 1] = p
         /\ In(Append(q, p)) = In(q) \cup {p}
<1>1. /\ Append(q, p) \in Seq(S) /\ Len(Append(q, p)) = Len(q) + 1
      /\ DOMAIN Append(q, p) = 1 .. Len(q) + 1
      /\ \A i \in DOMAIN q : Append(q, p)[i] = q[i]
      /\ Append(q, p)[Len(q) + 1] = p
  BY Positions, AppendProperties, LenProperties
<1>2. DOMAIN q = 1 .. Len(q) /\ Len(q) \in Nat
  BY Positions
<1>3. In(Append(q, p)) \subseteq In(q) \cup {p}
  <2> SUFFICES ASSUME NEW i \in 1 .. Len(q) + 1 PROVE Append(q, p)[i] \in In(q) \cup {p}
    BY <1>1 DEF In
  <2>1. CASE i \in DOMAIN q
    BY <1>1, <2>1 DEF In
  <2>2. CASE i = Len(q) + 1
    BY <1>1, <2>2
  <2> QED
    BY <1>2, <2>1, <2>2
<1>4. In(q) \subseteq In(Append(q, p))
  <2> SUFFICES ASSUME NEW i \in DOMAIN q PROVE q[i] \in In(Append(q, p))
    BY DEF In
  <2>1. i \in DOMAIN Append(q, p) /\ Append(q, p)[i] = q[i]
    BY <1>1, <1>2
  <2> QED
    BY <2>1 DEF In
<1>5. p \in In(Append(q, p))
  <2>1. Len(q) + 1 \in DOMAIN Append(q, p)
    BY <1>1, <1>2
  <2> QED
    BY <1>1, <2>1 DEF In
<1> QED
  BY <1>1, <1>3, <1>4, <1>5

\* A queue in which nothing stands twice.
Once(q) == \A i, j \in DOMAIN q : q[i] = q[j] => i = j

\* One more that was not in it leaves such a queue.
LEMMA AppendedOnce ==
  ASSUME NEW S, NEW q \in Seq(S), NEW p \in S, Once(q), p \notin In(q)
  PROVE  Once(Append(q, p))
<1>1. DOMAIN q = 1 .. Len(q) /\ Len(q) \in Nat
  BY Positions
<1>2. \A i \in DOMAIN q : q[i] # p
  BY DEF In
<1> QED
  BY <1>1, <1>2, Appended DEF Once

\* A part of a queue, between two positions.
LEMMA Part ==
  ASSUME NEW S, NEW q \in Seq(S), NEW m \in 1 .. Len(q) + 1, NEW n \in m - 1 .. Len(q)
  PROVE  /\ SubSeq(q, m, n) \in Seq(S)
         /\ Len(SubSeq(q, m, n)) = n - m + 1
         /\ DOMAIN SubSeq(q, m, n) = 1 .. n - m + 1
         /\ \A i \in 1 .. n - m + 1 : SubSeq(q, m, n)[i] = q[m + i - 1]
         /\ In(SubSeq(q, m, n)) = {q[i] : i \in m .. n}
<1>1. Len(q) \in Nat /\ DOMAIN q = 1 .. Len(q) /\ \A i \in DOMAIN q : q[i] \in S
  BY Positions
<1>2. m \in Int /\ n \in Int /\ \A i \in m .. n : q[i] \in S
  BY <1>1
<1>3. /\ SubSeq(q, m, n) \in Seq(S)
      /\ Len(SubSeq(q, m, n)) = IF m <= n THEN n - m + 1 ELSE 0
      /\ \A i \in 1 .. n - m + 1 : SubSeq(q, m, n)[i] = q[m + i - 1]
  BY <1>2, SubSeqProperties
<1>4. Len(SubSeq(q, m, n)) = n - m + 1
  BY <1>1, <1>3
<1>5. DOMAIN SubSeq(q, m, n) = 1 .. n - m + 1
  BY <1>3, <1>4, LenProperties
<1>6. ASSUME NEW i \in m .. n PROVE q[i] \in In(SubSeq(q, m, n))
  <2>1. i - m + 1 \in 1 .. n - m + 1 /\ m + (i - m + 1) - 1 = i
    BY <1>2
  <2>2. SubSeq(q, m, n)[i - m + 1] = q[i]
    BY <1>3, <2>1
  <2> QED
    BY <1>5, <2>1, <2>2 DEF In
<1>7. ASSUME NEW i \in 1 .. n - m + 1 PROVE SubSeq(q, m, n)[i] \in {q[j] : j \in m .. n}
  <2>1. m + i - 1 \in m .. n
    BY <1>2
  <2> QED
    BY <1>3, <2>1
<1>8. In(SubSeq(q, m, n)) = {SubSeq(q, m, n)[i] : i \in 1 .. n - m + 1}
  BY <1>5 DEF In
<1> QED
  BY <1>3, <1>4, <1>5, <1>6, <1>7, <1>8

\* A queue cut in two: each payload is on one side, and once.
LEMMA Cut ==
  ASSUME NEW S, NEW q \in Seq(S), NEW k \in 0 .. Len(q)
  PROVE  /\ SubSeq(q, 1, k) \in Seq(S) /\ SubSeq(q, k + 1, Len(q)) \in Seq(S)
         /\ Len(SubSeq(q, k + 1, Len(q))) = Len(q) - k
         /\ In(q) = In(SubSeq(q, 1, k)) \cup In(SubSeq(q, k + 1, Len(q)))
         /\ Once(q) => /\ In(SubSeq(q, 1, k)) \cap In(SubSeq(q, k + 1, Len(q))) = {}
                       /\ Once(SubSeq(q, k + 1, Len(q)))
<1> DEFINE left == SubSeq(q, 1, k)
           right == SubSeq(q, k + 1, Len(q))
<1>1. Len(q) \in Nat /\ DOMAIN q = 1 .. Len(q)
  BY Positions
<1>2. 1 \in 1 .. Len(q) + 1 /\ k \in 0 .. Len(q) /\ k + 1 \in 1 .. Len(q) + 1
      /\ Len(q) \in k .. Len(q) /\ 1 - 1 = 0 /\ (k + 1) - 1 = k
  BY <1>1
<1>3. left \in Seq(S) /\ In(left) = {q[i] : i \in 1 .. k}
  BY <1>2, Part
<1>4. /\ right \in Seq(S) /\ In(right) = {q[i] : i \in k + 1 .. Len(q)}
      /\ Len(right) = Len(q) - (k + 1) + 1
      /\ DOMAIN right = 1 .. Len(q) - (k + 1) + 1
      /\ \A i \in 1 .. Len(q) - (k + 1) + 1 : right[i] = q[(k + 1) + i - 1]
  BY <1>2, Part
<1> HIDE DEF left, right
<1>5. Len(right) = Len(q) - k
  BY <1>1, <1>4
<1>6. In(q) = {q[i] : i \in 1 .. Len(q)}
  BY <1>1 DEF In
<1>7. In(q) = In(left) \cup In(right)
  <2>1. 1 .. Len(q) = (1 .. k) \cup (k + 1 .. Len(q))
    BY <1>1
  <2> QED
    BY <1>3, <1>4, <1>6, <2>1
<1>8. ASSUME Once(q) PROVE In(left) \cap In(right) = {}
  <2> SUFFICES ASSUME NEW i \in 1 .. k, NEW j \in k + 1 .. Len(q), q[i] = q[j] PROVE FALSE
    BY <1>3, <1>4
  <2>1. i \in DOMAIN q /\ j \in DOMAIN q /\ i # j
    BY <1>1
  <2> QED
    BY <1>8, <2>1 DEF Once
<1>9. ASSUME Once(q) PROVE Once(right)
  <2> SUFFICES ASSUME NEW i \in DOMAIN right, NEW j \in DOMAIN right, right[i] = right[j]
               PROVE  i = j
    BY DEF Once
  <2>0. i \in 1 .. Len(q) - (k + 1) + 1 /\ j \in 1 .. Len(q) - (k + 1) + 1
    BY <1>4
  <2>1. right[i] = q[(k + 1) + i - 1] /\ right[j] = q[(k + 1) + j - 1]
    BY <1>4, <2>0, Zenon
  <2>2. (k + 1) + i - 1 \in DOMAIN q /\ (k + 1) + j - 1 \in DOMAIN q
    BY <1>1, <2>0
  <2>3. (k + 1) + i - 1 = (k + 1) + j - 1
    BY <1>9, <2>1, <2>2 DEF Once
  <2> QED
    BY <2>0, <2>3
<1> QED
  BY <1>3, <1>4, <1>5, <1>7, <1>8, <1>9 DEF left, right

\* A queue is its head and its tail.
LEMMA HeadAndTail ==
  ASSUME NEW S, NEW q \in Seq(S), q # << >>
  PROVE  /\ Head(q) \in S /\ Tail(q) \in Seq(S)
         /\ Len(q) \in Nat \ {0} /\ Len(Tail(q)) = Len(q) - 1
         /\ In(q) = {Head(q)} \cup In(Tail(q))
         /\ Once(q) => Head(q) \notin In(Tail(q)) /\ Once(Tail(q))
<1>1. Len(q) \in Nat \ {0} /\ DOMAIN q = 1 .. Len(q)
  BY Positions
<1>2. /\ Head(q) \in S /\ Tail(q) \in Seq(S) /\ Len(Tail(q)) = Len(q) - 1
      /\ Tail(q) = SubSeq(q, 2, Len(q))
  BY HeadTailProperties, TailIsSubSeq
<1>3. /\ In(q) = In(SubSeq(q, 1, 1)) \cup In(Tail(q))
      /\ Once(q) => In(SubSeq(q, 1, 1)) \cap In(Tail(q)) = {} /\ Once(Tail(q))
  <2>1. 1 \in 0 .. Len(q) /\ 1 + 1 = 2
    BY <1>1
  <2>2. /\ In(q) = In(SubSeq(q, 1, 1)) \cup In(SubSeq(q, 1 + 1, Len(q)))
        /\ Once(q) => /\ In(SubSeq(q, 1, 1)) \cap In(SubSeq(q, 1 + 1, Len(q))) = {}
                      /\ Once(SubSeq(q, 1 + 1, Len(q)))
    BY <2>1, Cut
  <2> QED
    BY <1>2, <2>1, <2>2
<1>4. In(SubSeq(q, 1, 1)) = {Head(q)}
  <2>1. 1 \in 1 .. Len(q) + 1 /\ 1 \in 1 - 1 .. Len(q)
    BY <1>1
  <2>2. In(SubSeq(q, 1, 1)) = {q[i] : i \in 1 .. 1}
    BY <2>1, Part
  <2>3. Head(q) = q[1]
    BY <1>1
  <2>4. 1 .. 1 = {1}
    OBVIOUS
  <2> QED
    BY <2>2, <2>3, <2>4
<1> QED
  BY <1>1, <1>2, <1>3, <1>4

\* Where nothing stands twice, a payload has one copy or none.
LEMMA CopiesOnce ==
  ASSUME NEW S, NEW q \in Seq(S), Once(q), NEW p
  PROVE  Copies(p, q) = IF p \in In(q) THEN 1 ELSE 0
<1> DEFINE places == {i \in DOMAIN q : q[i] = p}
<1>1. CASE p \in In(q)
  <2>1. PICK i \in DOMAIN q : q[i] = p
    BY <1>1 DEF In
  <2>2. places = {i}
    BY <2>1 DEF Once
  <2> QED
    BY <1>1, <2>2, FS_Singleton DEF Copies
<1>2. CASE p \notin In(q)
  <2>1. places = {}
    BY <1>2 DEF In
  <2> QED
    BY <1>2, <2>1, FS_EmptySet DEF Copies
<1> QED
  BY <1>1, <1>2

-----------------------------------------------------------------------------
(* Type correctness                                                        *)

\* Where a thread may be in _report.
Reporting == [at: Places, batch: Seq(Payloads), attempt: 0 .. Attempts]

\* What a thread is in the middle of.
LEMMA ThreadTyped ==
  ASSUME TypeOK, NEW t \in Threads
  PROVE  /\ thread[t] \in Reporting
         /\ thread[t].at \in Places /\ thread[t].batch \in Seq(Payloads)
         /\ thread[t].attempt \in 0 .. Attempts
BY DEF TypeOK, Reporting

\* An idle thread is somewhere a thread may be.
LEMMA IdleTyped == Idle \in Reporting
<1>1. << >> \in Seq(Payloads)
  BY EmptySeq
<1> QED
  BY <1>1, TransportAssumption DEF Idle, Reporting, Places

\* A thread that goes on, goes on to somewhere it may be.
LEMMA GoesOnTyped ==
  ASSUME TypeOK, NEW t, NEW v \in Reporting, thread' = [thread EXCEPT ![t] = v]
  PROVE  thread' \in [Threads -> Reporting]
BY DEF TypeOK, Reporting

\* So is a thread that only changes its place.
LEMMA GotoTyped ==
  ASSUME TypeOK, NEW t \in Threads, NEW place \in Places, Goto(t, place)
  PROVE  thread' \in [Threads -> Reporting]
<1>1. [thread[t] EXCEPT !.at = place] \in Reporting
  BY ThreadTyped DEF Reporting
<1>2. thread' = [thread EXCEPT ![t] = [thread[t] EXCEPT !.at = place]]
  BY DEF Goto
<1> QED
  BY <1>1, <1>2, GoesOnTyped

\* So is a thread that returns.
LEMMA ReturnTyped ==
  ASSUME TypeOK, NEW t \in Threads, Return(t)
  PROVE  thread' \in [Threads -> Reporting]
BY IdleTyped, GoesOnTyped DEF Return

\* The owner records each payload of a batch it can store, and no other.
LEMMA RecordTyped ==
  ASSUME TypeOK, NEW items, Record(items)
  PROVE  stored' \in [Payloads -> 0 .. 2]
<1>1. \A p \in Payloads : stored[p] \in 0 .. 2
  BY DEF TypeOK
<1>2. ASSUME NEW p \in Payloads
      PROVE  (IF p \in In(items) /\ Storable(p) /\ stored[p] < 2
                THEN stored[p] + 1 ELSE stored[p]) \in 0 .. 2
  BY <1>1
<1> QED
  BY <1>2 DEF Record

\* A clock's age is an age.
LEMMA AgesTyped == 0 \in Ages /\ NoAge \in Ages /\ \A age \in Ages : Older(age) \in Ages
BY TransportAssumption DEF Ages, Older

\* A reporter starts well typed.
LEMMA InitTyped == Init => TypeOK
<1> SUFFICES ASSUME Init PROVE TypeOK
  OBVIOUS
<1>1. buffer \in Seq(Payloads)
  BY EmptySeq DEF Init
<1>2. thread \in [Threads -> Reporting]
  BY IdleTyped DEF Init
<1> QED
  BY <1>1, <1>2, AgesTyped, TransportAssumption DEF Init, TypeOK, Fates, Reporting

\* Capturing a payload leaves everything well typed.
LEMMA CaptureTyped ==
  ASSUME TypeOK, NEW t \in Threads, Capture(t)
  PROVE  TypeOK'
<1>1. PICK p \in Payloads :
        /\ thread' = [thread EXCEPT ![t] = [at |-> "post", attempt |-> 1, batch |-> Batch(p)]]
        /\ fate' = [fate EXCEPT ![p] = "held"]
        /\ stored' = [stored EXCEPT ![p] = 0]
  BY DEF Capture
<1>2. Batch(p) \in Seq(Payloads)
  BY Appended DEF Batch, TypeOK
<1>3. [at |-> "post", attempt |-> 1, batch |-> Batch(p)] \in Reporting
  BY <1>2, TransportAssumption DEF Reporting, Places
<1>4. thread' \in [Threads -> Reporting]
  BY <1>1, <1>3, GoesOnTyped
<1>5. buffer' \in Seq(Payloads)
  BY EmptySeq DEF Capture, Drained
<1>6. fate' \in [Payloads -> Fates] /\ stored' \in [Payloads -> 0 .. 2]
  BY <1>1 DEF TypeOK, Fates
<1> QED
  BY <1>4, <1>5, <1>6 DEF TypeOK, Capture, owner, channel, Reporting

\* So does every answer, or none, to a POST.
LEMMA PostTyped ==
  ASSUME TypeOK, NEW t \in Threads,
         PostRaises(t) \/ PostAccepted(t) \/ PostRefused(t) \/ PostUnanswered(t)
  PROVE  TypeOK'
<1>1. ASSUME PostAccepted(t) PROVE TypeOK'
  <2>1. stored' \in [Payloads -> 0 .. 2]
    BY <1>1, RecordTyped DEF PostAccepted
  <2>2. fate' \in [Payloads -> Fates]
    BY <1>1 DEF PostAccepted, TypeOK, Fates
  <2>3. [thread[t] EXCEPT !.at = "mark up", !.batch = << >>] \in Reporting
    BY ThreadTyped, EmptySeq DEF Reporting, Places
  <2>4. thread' = [thread EXCEPT ![t] = [thread[t] EXCEPT !.at = "mark up", !.batch = << >>]]
    BY <1>1 DEF PostAccepted
  <2>5. thread' \in [Threads -> Reporting]
    BY <2>3, <2>4, GoesOnTyped
  <2> QED
    BY <1>1, <2>1, <2>2, <2>5 DEF TypeOK, PostAccepted, owner, channel, Reporting
<1>2. ASSUME PostRefused(t) PROVE TypeOK'
  <2>1. thread' \in [Threads -> Reporting]
    BY <1>2, GotoTyped DEF PostRefused, Places
  <2> QED
    BY <1>2, <2>1 DEF TypeOK, PostRefused, owner, channel, Reporting
<1>3. ASSUME PostUnanswered(t) PROVE TypeOK'
  <2>1. stored' \in [Payloads -> 0 .. 2]
    BY <1>3, RecordTyped DEF PostUnanswered
  <2>2. ASSUME Retried(thread[t].attempt) PROVE thread' \in [Threads -> Reporting]
    <3>1. thread[t].attempt + 1 \in 0 .. Attempts
      BY <2>2, ThreadTyped, TransportAssumption DEF Retried
    <3>2. [thread[t] EXCEPT !.attempt = @ + 1] \in Reporting
      BY <3>1, ThreadTyped, Zenon DEF Reporting
    <3>3. thread' = [thread EXCEPT ![t] = [thread[t] EXCEPT !.attempt = @ + 1]]
      BY <1>3, <2>2 DEF PostUnanswered
    <3> QED
      BY <3>2, <3>3, GoesOnTyped
  <2>3. ASSUME ~ Retried(thread[t].attempt) PROVE thread' \in [Threads -> Reporting]
    BY <1>3, <2>3, GotoTyped DEF PostUnanswered, Places
  <2>4. thread' \in [Threads -> Reporting]
    BY <1>3, <2>2, <2>3
  <2> QED
    BY <1>3, <2>1, <2>4 DEF TypeOK, PostUnanswered, owner, channel, Reporting
<1>4. ASSUME PostRaises(t) PROVE TypeOK'
  <2>1. fate' \in [Payloads -> Fates]
    BY <1>4 DEF PostRaises, TypeOK, Fates
  <2>2. thread' \in [Threads -> Reporting]
    BY <1>4, ReturnTyped DEF PostRaises
  <2> QED
    BY <1>4, <2>1, <2>2 DEF TypeOK, PostRaises, owner, channel, Reporting
<1> QED
  BY <1>1, <1>2, <1>3, <1>4

\* What a push moves: a payload more in the buffer, and its oldest gone.
LEMMA PushParts ==
  ASSUME TypeOK, NEW t \in Threads, Push(t)
  PROVE  LET batch == thread[t].batch
             full == Append(buffer, Head(batch))
         IN  /\ batch \in Seq(Payloads) /\ batch # << >> /\ Head(batch) \in Payloads
             /\ full \in Seq(Payloads) /\ Len(full) = Len(buffer) + 1
             /\ Len(buffer) \in Nat
             /\ Overflow(full) \in 0 .. Len(full)
<1> DEFINE batch == thread[t].batch
           full == Append(buffer, Head(batch))
<1>1. batch \in Seq(Payloads) /\ batch # << >>
  BY ThreadTyped DEF Push
<1>2. Head(batch) \in Payloads
  BY <1>1, HeadAndTail
<1>3. full \in Seq(Payloads) /\ Len(full) = Len(buffer) + 1 /\ Len(buffer) \in Nat
  BY <1>2, Appended, Positions DEF TypeOK
<1> HIDE DEF batch, full
<1>4. Overflow(full) \in 0 .. Len(full)
  BY <1>3, TransportAssumption DEF Overflow
<1> QED
  BY <1>1, <1>2, <1>3, <1>4 DEF batch, full

\* Pushing a payload back leaves everything well typed.
LEMMA PushTyped ==
  ASSUME TypeOK, NEW t \in Threads, Push(t)
  PROVE  TypeOK'
<1> DEFINE batch == thread[t].batch
           full == Append(buffer, Head(batch))
           cut == Overflow(full)
<1>1. /\ batch \in Seq(Payloads) /\ batch # << >>
      /\ full \in Seq(Payloads) /\ cut \in 0 .. Len(full)
  BY PushParts
<1>2. /\ buffer' = SubSeq(full, cut + 1, Len(full))
      /\ dropped' = IF dropped + cut > MaxDropped THEN MaxDropped ELSE dropped + cut
      /\ fate' = [p \in Payloads |-> IF p \in In(SubSeq(full, 1, cut)) THEN "dropped" ELSE fate[p]]
      /\ thread' = [thread EXCEPT ![t] = [thread[t] EXCEPT !.batch = Tail(batch)]]
  BY DEF Push
<1>3. Tail(batch) \in Seq(Payloads)
  BY <1>1, HeadAndTail
<1>4. [thread[t] EXCEPT !.batch = Tail(batch)] \in Reporting
  BY <1>3, ThreadTyped DEF Reporting
<1>5. thread' \in [Threads -> Reporting]
  BY <1>2, <1>4, GoesOnTyped
<1> HIDE DEF cut, full, batch
<1>6. buffer' \in Seq(Payloads)
  BY <1>1, <1>2, Cut
<1>7. fate' \in [Payloads -> Fates]
  BY <1>2 DEF TypeOK, Fates
<1>8. dropped' \in 0 .. MaxDropped
  <2>1. Len(full) \in Nat
    BY <1>1, Positions
  <2>2. cut \in Nat /\ dropped \in Nat
    BY <1>1, <2>1, TransportAssumption DEF TypeOK
  <2> QED
    BY <1>2, <2>2, TransportAssumption
<1> QED
  BY <1>5, <1>6, <1>7, <1>8 DEF TypeOK, Push, owner, channel, Reporting

\* So does every other step of a thread.
LEMMA RestOfReportTyped ==
  ASSUME TypeOK, NEW t \in Threads,
         MarkUp(t) \/ MarkDown(t) \/ FallbackCheck(t) \/ FallbackSkip(t) \/ Digest(t)
  PROVE  TypeOK'
<1>1. thread' \in [Threads -> Reporting]
  BY GotoTyped, ReturnTyped
     DEF MarkUp, MarkDown, FallbackCheck, FallbackSkip, Digest, Places
<1>2. downFor' \in Ages /\ digestAge' \in Ages
  BY AgesTyped DEF TypeOK, MarkUp, MarkDown, FallbackCheck, FallbackSkip, Digest
<1> QED
  BY <1>1, <1>2
     DEF TypeOK, MarkUp, MarkDown, FallbackCheck, FallbackSkip, Digest, owner, channel, Reporting

\* So does what happens around the process, and a restart of it.
LEMMA AroundTyped ==
  ASSUME TypeOK,
         \/ Tick \/ OwnerStops \/ OwnerRecovers \/ RotateKey \/ SetActive \/ WorldChanges
         \/ Crash \/ UNCHANGED vars
  PROVE  TypeOK'
<1>1. ASSUME Tick PROVE TypeOK'
  BY <1>1, AgesTyped DEF TypeOK, Tick, owner, channel
<1>2. ASSUME OwnerStops \/ OwnerRecovers \/ RotateKey \/ SetActive PROVE TypeOK'
  BY <1>2 DEF TypeOK, OwnerStops, OwnerRecovers, RotateKey, SetActive, channel
<1>3. ASSUME WorldChanges PROVE TypeOK'
  BY <1>3 DEF TypeOK, WorldChanges, owner
<1>4. ASSUME Crash PROVE TypeOK'
  <2>1. buffer' \in Seq(Payloads)
    BY <1>4, EmptySeq DEF Crash
  <2>2. thread' \in [Threads -> Reporting]
    BY <1>4, IdleTyped DEF Crash
  <2>3. fate' \in [Payloads -> Fates]
    BY <1>4 DEF Crash, TypeOK, Fates
  <2>4. crashes' \in 0 .. MaxCrashes /\ dropped' \in 0 .. MaxDropped
    BY <1>4, TransportAssumption DEF Crash, TypeOK
  <2>5. key' \in {"none", "stale", "issued"}
    BY <1>4 DEF Crash, RestartedKey, TypeOK
  <2> QED
    BY <1>4, <2>1, <2>2, <2>3, <2>4, <2>5, AgesTyped DEF TypeOK, Crash, channel, Reporting
<1>5. ASSUME UNCHANGED vars PROVE TypeOK'
  BY <1>5 DEF TypeOK, vars, owner, channel
<1> QED
  BY <1>1, <1>2, <1>3, <1>4, <1>5

\* Every step leaves everything well typed.
LEMMA NextTyped == TypeOK /\ [Next]_vars => TypeOK'
BY CaptureTyped, PostTyped, PushTyped, RestOfReportTyped, AroundTyped DEF Next, Continue

\* Typing: whatever threads, owner, operators and channel do, every variable
\* of a reporter holds what its attribute may hold.
THEOREM Typing == Spec => []TypeOK
BY InitTyped, NextTyped, PTL DEF Spec

-----------------------------------------------------------------------------
(* Memory is bounded                                                       *)

\* What a thread has in its batch stays there unless it captures, is answered,
\* pushes or returns; only an empty batch is returned with.
LEMMA BatchKept ==
  ASSUME TypeOK, NEW t \in Threads,
         \/ PostRefused(t) \/ PostUnanswered(t) \/ MarkDown(t)
  PROVE  /\ \A s \in Threads : thread'[s].batch = thread[s].batch
         /\ \A s \in Threads \ {t} : thread'[s] = thread[s]
         /\ thread'[t].at \in {"post", "mark down", "push"}
         /\ buffer' = buffer /\ fate' = fate /\ dropped' = dropped
<1>1. ASSUME NEW place \in {"mark down", "push"}, Goto(t, place)
      PROVE  /\ \A s \in Threads : thread'[s].batch = thread[s].batch
             /\ \A s \in Threads \ {t} : thread'[s] = thread[s]
             /\ thread'[t].at = place
  BY <1>1 DEF Goto, TypeOK
<1>2. ASSUME PostRefused(t) PROVE Goto(t, "mark down")
  BY <1>2 DEF PostRefused
<1>3. ASSUME MarkDown(t) PROVE Goto(t, "push")
  BY <1>3 DEF MarkDown
<1>4. ASSUME PostUnanswered(t)
      PROVE  \/ Goto(t, "mark down")
             \/ /\ \A s \in Threads : thread'[s].batch = thread[s].batch
                /\ \A s \in Threads \ {t} : thread'[s] = thread[s]
                /\ thread'[t].at = "post"
  <2>1. CASE Retried(thread[t].attempt)
    <3>1. /\ thread' = [thread EXCEPT ![t] = [thread[t] EXCEPT !.attempt = @ + 1]]
          /\ thread[t].at = "post"
      BY <1>4, <2>1 DEF PostUnanswered
    <3>2. [thread[t] EXCEPT !.attempt = @ + 1].at = thread[t].at
      BY ThreadTyped DEF Reporting
    <3>3. [thread[t] EXCEPT !.attempt = @ + 1].batch = thread[t].batch
      BY ThreadTyped DEF Reporting
    <3> QED
      BY <3>1, <3>2, <3>3 DEF TypeOK
  <2>2. CASE ~ Retried(thread[t].attempt)
    BY <1>4, <2>2 DEF PostUnanswered
  <2> QED
    BY <2>1, <2>2
<1>5. buffer' = buffer /\ fate' = fate /\ dropped' = dropped
  BY DEF PostRefused, PostUnanswered, MarkDown
<1> QED
  BY <1>1, <1>2, <1>3, <1>4, <1>5

\* Threads that check the outage clock, or end, hold nothing and move nothing.
LEMMA ReturnKept ==
  ASSUME TypeOK, NEW t \in Threads,
         MarkUp(t) \/ FallbackCheck(t) \/ FallbackSkip(t) \/ Digest(t)
  PROVE  /\ \A s \in Threads \ {t} : thread'[s] = thread[s]
         /\ \/ thread'[t] = Idle
            \/ /\ thread'[t].at = "age" /\ thread[t].batch = << >>
               /\ thread'[t].batch = << >>
         /\ thread[t].at \in {"mark up", "age"} \/ thread[t].batch = << >>
         /\ buffer' = buffer /\ fate' = fate /\ dropped' = dropped
<1>1. ASSUME Return(t)
      PROVE  thread'[t] = Idle /\ \A s \in Threads \ {t} : thread'[s] = thread[s]
  BY <1>1 DEF Return, TypeOK
<1>2. ASSUME MarkUp(t) \/ FallbackSkip(t) \/ Digest(t)
      PROVE  Return(t) /\ thread[t].at \in {"mark up", "age"}
  BY <1>2 DEF MarkUp, FallbackSkip, Digest
<1>3. ASSUME FallbackCheck(t), ~ Return(t)
      PROVE  /\ \A s \in Threads \ {t} : thread'[s] = thread[s]
             /\ thread'[t].at = "age" /\ thread[t].batch = << >>
             /\ thread'[t].batch = << >>
  BY <1>3, ThreadTyped DEF FallbackCheck, Goto, TypeOK
<1>4. ASSUME FallbackCheck(t) PROVE thread[t].batch = << >>
  BY <1>4 DEF FallbackCheck
<1>5. buffer' = buffer /\ fate' = fate /\ dropped' = dropped
  BY DEF MarkUp, FallbackCheck, FallbackSkip, Digest
<1> QED
  BY <1>1, <1>2, <1>3, <1>4, <1>5

\* A thread whose batch cannot be encoded returns without it.
LEMMA RaisedKept ==
  ASSUME TypeOK, NEW t \in Threads, PostRaises(t)
  PROVE  /\ thread'[t] = Idle /\ thread'[t].batch = << >>
         /\ \A s \in Threads \ {t} : thread'[s] = thread[s]
         /\ fate' = [p \in Payloads |-> IF p \in In(thread[t].batch) THEN "lost" ELSE fate[p]]
         /\ buffer' = buffer /\ dropped' = dropped
BY DEF PostRaises, Return, Idle, TypeOK

\* What happens around the process leaves its memory alone.
LEMMA AroundKept ==
  ASSUME \/ Tick \/ OwnerStops \/ OwnerRecovers \/ RotateKey \/ SetActive \/ WorldChanges
         \/ UNCHANGED vars
  PROVE  /\ buffer' = buffer /\ fate' = fate /\ dropped' = dropped
         /\ thread' = thread /\ stored' = stored
BY DEF Tick, OwnerStops, OwnerRecovers, RotateKey, SetActive, WorldChanges, vars

\* Every step keeps the bounds.
LEMMA NextBounded == TypeOK /\ HeldBounded /\ [Next]_vars => HeldBounded'
<1> SUFFICES ASSUME TypeOK, HeldBounded, [Next]_vars PROVE HeldBounded'
  OBVIOUS
<1>0. Len(<< >>) = 0 /\ BufferMax \in Nat
  BY EmptySeq, TransportAssumption
<1>1. ASSUME NEW t \in Threads, Capture(t) PROVE HeldBounded'
  <2>1. PICK p \in Payloads :
          thread' = [thread EXCEPT ![t] = [at |-> "post", attempt |-> 1, batch |-> Batch(p)]]
    BY <1>1 DEF Capture
  <2>2. Len(Batch(p)) = Len(buffer) + 1 /\ Len(buffer) \in Nat
    BY Appended, Positions DEF Batch, TypeOK
  <2>3. buffer' = << >>
    BY <1>1 DEF Capture, Drained
  <2>4. thread'[t].batch = Batch(p) /\ \A s \in Threads \ {t} : thread'[s] = thread[s]
    BY <2>1 DEF TypeOK
  <2> QED
    BY <1>0, <2>2, <2>3, <2>4 DEF HeldBounded
<1>2. ASSUME NEW t \in Threads, PostAccepted(t) PROVE HeldBounded'
  <2>1. thread' = [thread EXCEPT ![t] = [thread[t] EXCEPT !.at = "mark up", !.batch = << >>]]
        /\ buffer' = buffer
    BY <1>2 DEF PostAccepted
  <2>2. thread'[t].batch = << >> /\ \A s \in Threads \ {t} : thread'[s] = thread[s]
    <3>1. [thread[t] EXCEPT !.at = "mark up", !.batch = << >>].batch = << >>
      BY ThreadTyped DEF Reporting
    <3> QED
      BY <2>1, <3>1 DEF TypeOK
  <2> QED
    BY <1>0, <2>1, <2>2 DEF HeldBounded
<1>3. ASSUME NEW t \in Threads, PostRefused(t) \/ PostUnanswered(t) \/ MarkDown(t)
      PROVE  HeldBounded'
  BY <1>3, BatchKept DEF HeldBounded
<1>4. ASSUME NEW t \in Threads, MarkUp(t) \/ FallbackCheck(t) \/ FallbackSkip(t) \/ Digest(t)
      PROVE  HeldBounded'
  <2>1. /\ \A s \in Threads \ {t} : thread'[s] = thread[s]
        /\ thread'[t] = Idle \/ thread'[t].batch = << >>
        /\ buffer' = buffer
    BY <1>4, ReturnKept
  <2>2. thread'[t].batch = << >>
    BY <2>1 DEF Idle
  <2> QED
    BY <1>0, <2>1, <2>2 DEF HeldBounded
<1>5. ASSUME NEW t \in Threads, Push(t) PROVE HeldBounded'
  <2> DEFINE batch == thread[t].batch
             full == Append(buffer, Head(batch))
             cut == Overflow(full)
  <2>1. /\ batch \in Seq(Payloads) /\ batch # << >> /\ full \in Seq(Payloads)
        /\ Len(full) = Len(buffer) + 1 /\ Len(buffer) \in Nat /\ cut \in 0 .. Len(full)
    BY <1>5, PushParts
  <2>2. /\ buffer' = SubSeq(full, cut + 1, Len(full))
        /\ thread' = [thread EXCEPT ![t] = [thread[t] EXCEPT !.batch = Tail(batch)]]
    BY <1>5 DEF Push
  <2>3. Len(buffer') = Len(full) - cut
    BY <2>1, <2>2, Cut
  <2>4. Len(buffer') <= BufferMax
    BY <1>0, <2>1, <2>3 DEF Overflow, HeldBounded
  <2>5. thread'[t].batch = Tail(batch) /\ \A s \in Threads \ {t} : thread'[s] = thread[s]
    <3>1. [thread[t] EXCEPT !.batch = Tail(batch)].batch = Tail(batch)
      BY ThreadTyped DEF Reporting
    <3> QED
      BY <2>2, <3>1 DEF TypeOK
  <2>6. Len(Tail(batch)) = Len(batch) - 1 /\ Len(batch) \in Nat
    BY <2>1, HeadAndTail
  <2>7. Len(batch) <= BufferMax + 1 /\ \A s \in Threads : Len(thread[s].batch) <= BufferMax + 1
    BY DEF HeldBounded
  <2> HIDE DEF batch, full, cut
  <2>8. Len(thread'[t].batch) <= BufferMax + 1
    BY <1>0, <2>5, <2>6, <2>7
  <2> QED
    BY <2>4, <2>5, <2>7, <2>8 DEF HeldBounded
<1>6. ASSUME Crash PROVE HeldBounded'
  BY <1>0, <1>6 DEF Crash, HeldBounded, Idle
<1>7. ASSUME NEW t \in Threads, PostRaises(t) PROVE HeldBounded'
  BY <1>0, <1>7, RaisedKept DEF HeldBounded
<1> QED
  BY <1>1, <1>2, <1>3, <1>4, <1>5, <1>6, <1>7, AroundKept DEF Next, Continue, HeldBounded

\* "A reporter that ran out of memory would be a second outage" (transport.py):
\* for any number of threads the buffer keeps its bound, and a batch in flight
\* exceeds it by the payload being captured at most.
THEOREM Bounded == Spec => []HeldBounded
<1>1. Init => HeldBounded
  BY EmptySeq, TransportAssumption DEF Init, HeldBounded, Idle
<1> QED
  BY <1>1, Typing, NextBounded, PTL DEF Spec

-----------------------------------------------------------------------------
(* A payload is in one place                                               *)

\* Thread t's batch holds p.
Carries(t, p) == p \in In(thread[t].batch)

\* A thread that is past its batch holds none.
PastIsEmpty == \A t \in Threads : thread[t].at \in {"idle", "mark up", "age"} => thread[t].batch = << >>

\* No place holds a payload twice.
NoDoubles == Once(buffer) /\ \A t \in Threads : Once(thread[t].batch)

\* No two places hold the same payload.
Apart ==
  /\ \A t \in Threads, p \in Payloads : Carries(t, p) => p \notin In(buffer)
  /\ \A s, t \in Threads, p \in Payloads : Carries(s, p) /\ Carries(t, p) => s = t

\* What is held is what is in a place.
HeldIsSomewhere ==
  \A p \in Payloads : fate[p] = "held" <=> p \in In(buffer) \/ \E t \in Threads : Carries(t, p)

\* A dropped payload is counted.
DropsCount == \A p \in Payloads : fate[p] = "dropped" => dropped > 0

\* The inductive invariant behind HeldExactlyOnce.
OnePlace == PastIsEmpty /\ NoDoubles /\ Apart /\ HeldIsSomewhere /\ DropsCount

\* One place is one copy.
LEMMA OnePlaceOneCopy == TypeOK /\ OnePlace => HeldExactlyOnce
<1> SUFFICES ASSUME TypeOK, OnePlace, NEW p \in Payloads
             PROVE  /\ \A t \in Threads : Copies(p, thread[t].batch) <= 1
                    /\ Copies(p, buffer)
                         + Cardinality({t \in Threads : Copies(p, thread[t].batch) = 1})
                         = IF fate[p] = "held" THEN 1 ELSE 0
                    /\ fate[p] = "dropped" => dropped > 0
  BY DEF HeldExactlyOnce
<1> DEFINE places == {t \in Threads : Copies(p, thread[t].batch) = 1}
<1>1. ASSUME NEW t \in Threads
      PROVE  Copies(p, thread[t].batch) = IF Carries(t, p) THEN 1 ELSE 0
  <2>1. thread[t].batch \in Seq(Payloads) /\ Once(thread[t].batch)
    BY ThreadTyped DEF OnePlace, NoDoubles, Reporting
  <2> QED
    BY <2>1, CopiesOnce DEF Carries
<1>2. Copies(p, buffer) = IF p \in In(buffer) THEN 1 ELSE 0
  <2>1. buffer \in Seq(Payloads) /\ Once(buffer)
    BY DEF OnePlace, NoDoubles, TypeOK
  <2> QED
    BY <2>1, CopiesOnce
<1>3. places = {t \in Threads : Carries(t, p)}
  BY <1>1
<1>4. \A t \in Threads : Copies(p, thread[t].batch) <= 1
  BY <1>1
<1>5. fate[p] = "dropped" => dropped > 0
  BY DEF OnePlace, DropsCount
<1>6. Copies(p, buffer) + Cardinality(places) = IF fate[p] = "held" THEN 1 ELSE 0
  <2> HIDE DEF places
  <2>1. ASSUME NEW t \in Threads, Carries(t, p)
        PROVE  Copies(p, buffer) + Cardinality(places) = IF fate[p] = "held" THEN 1 ELSE 0
    <3>1. \A s \in Threads : Carries(s, p) => s = t
      BY <2>1 DEF OnePlace, Apart
    <3>2. places = {t}
      BY <1>3, <2>1, <3>1
    <3>3. p \notin In(buffer)
      BY <2>1 DEF OnePlace, Apart
    <3>4. fate[p] = "held"
      BY <2>1 DEF OnePlace, HeldIsSomewhere
    <3>5. Cardinality(places) = 1
      BY <3>2, FS_Singleton
    <3> QED
      BY <1>2, <3>3, <3>4, <3>5
  <2>2. ASSUME \A t \in Threads : ~ Carries(t, p)
        PROVE  Copies(p, buffer) + Cardinality(places) = IF fate[p] = "held" THEN 1 ELSE 0
    <3>1. Cardinality(places) = 0
      BY <1>3, <2>2, FS_EmptySet
    <3>2. fate[p] = "held" <=> p \in In(buffer)
      BY <2>2 DEF OnePlace, HeldIsSomewhere
    <3> QED
      BY <1>2, <3>1, <3>2
  <2> QED
    BY <2>1, <2>2
<1> QED
  BY <1>4, <1>5, <1>6

\* A capture takes the buffer into its batch, with a payload nobody holds.
LEMMA CaptureOnePlace ==
  ASSUME TypeOK, OnePlace, NEW t \in Threads, Capture(t)
  PROVE  OnePlace'
<1>1. PICK p \in Payloads :
        /\ fate[p] # "held"
        /\ thread' = [thread EXCEPT ![t] = [at |-> "post", attempt |-> 1, batch |-> Batch(p)]]
        /\ fate' = [fate EXCEPT ![p] = "held"]
  BY DEF Capture
<1>2. /\ thread'[t].batch = Append(buffer, p) /\ thread'[t].at = "post"
      /\ \A s \in Threads \ {t} : thread'[s] = thread[s]
  BY <1>1 DEF TypeOK, Batch
<1>3. thread[t].batch = << >>
  BY DEF OnePlace, PastIsEmpty, Capture
<1>4. buffer' = << >> /\ In(buffer') = {} /\ Once(buffer') /\ dropped' = dropped
  BY InEmpty DEF Capture, Drained, Once
<1>5. p \notin In(buffer) /\ \A s \in Threads : ~ Carries(s, p)
  BY <1>1 DEF OnePlace, HeldIsSomewhere
<1>6. Once(Append(buffer, p)) /\ In(Append(buffer, p)) = In(buffer) \cup {p}
  <2>1. buffer \in Seq(Payloads) /\ Once(buffer)
    BY DEF OnePlace, NoDoubles, TypeOK
  <2> QED
    BY <1>5, <2>1, Appended, AppendedOnce
<1>7. \A q \in Payloads : fate'[q] = IF q = p THEN "held" ELSE fate[q]
  BY <1>1 DEF TypeOK
<1>8. \A q \in Payloads : q \in In(thread'[t].batch) <=> q \in In(buffer) \/ q = p
  BY <1>2, <1>6
<1>9. \A s \in Threads \ {t} : \A q \in Payloads : q \in In(thread'[s].batch) <=> Carries(s, q)
  BY <1>2 DEF Carries
<1>10. \A q \in Payloads : ~ Carries(t, q)
  BY <1>3, InEmpty DEF Carries
<1>11. NoDoubles'
  BY <1>2, <1>4, <1>6 DEF OnePlace, NoDoubles
<1>12. Apart'
  <2>1. \A r, s \in Threads, q \in Payloads :
          q \in In(thread'[r].batch) /\ q \in In(thread'[s].batch) => r = s
    BY <1>5, <1>8, <1>9 DEF OnePlace, Apart
  <2> QED
    BY <1>4, <2>1 DEF Apart, Carries
<1>13. HeldIsSomewhere'
  <2>1. ASSUME NEW q \in Payloads
        PROVE  fate'[q] = "held" <=> \E s \in Threads : q \in In(thread'[s].batch)
    <3>1. fate[q] = "held" <=> q \in In(buffer) \/ \E s \in Threads \ {t} : Carries(s, q)
      BY <1>10 DEF OnePlace, HeldIsSomewhere
    <3>2. (\E s \in Threads : q \in In(thread'[s].batch))
            <=> q \in In(buffer) \/ q = p \/ \E s \in Threads \ {t} : Carries(s, q)
      BY <1>8, <1>9
    <3> QED
      BY <1>7, <3>1, <3>2
  <2> QED
    BY <1>4, <2>1 DEF HeldIsSomewhere, Carries
<1>14. PastIsEmpty'
  BY <1>2 DEF OnePlace, PastIsEmpty
<1>15. DropsCount'
  BY <1>4, <1>7 DEF OnePlace, DropsCount
<1> QED
  BY <1>11, <1>12, <1>13, <1>14, <1>15 DEF OnePlace

\* A batch that leaves memory whole leaves it with all that it held.
LEMMA LeftOnePlace ==
  ASSUME TypeOK, OnePlace, NEW t \in Threads, NEW end \in {"settled", "lost"},
         thread'[t].batch = << >>, \A s \in Threads \ {t} : thread'[s] = thread[s],
         fate' = [p \in Payloads |-> IF p \in In(thread[t].batch) THEN end ELSE fate[p]],
         buffer' = buffer, dropped' = dropped
  PROVE  OnePlace'
<1>1. /\ fate' = [p \in Payloads |-> IF p \in In(thread[t].batch) THEN end ELSE fate[p]]
      /\ buffer' = buffer /\ dropped' = dropped
  OBVIOUS
<1>2. thread'[t].batch = << >> /\ \A s \in Threads \ {t} : thread'[s] = thread[s]
  OBVIOUS
<1>3. In(thread'[t].batch) = {} /\ Once(thread'[t].batch)
  BY <1>2, InEmpty DEF Once
<1>4. \A s \in Threads \ {t} : \A q \in Payloads : q \in In(thread'[s].batch) <=> Carries(s, q)
  BY <1>2 DEF Carries
<1>5. \A p \in Payloads : /\ fate'[p] = "held" <=> fate[p] = "held" /\ ~ Carries(t, p)
                          /\ fate'[p] = "dropped" => fate[p] = "dropped"
  BY <1>1 DEF Carries
<1>6. NoDoubles'
  BY <1>1, <1>2, <1>3 DEF OnePlace, NoDoubles
<1>7. Apart'
  <2>1. \A r, s \in Threads, q \in Payloads :
          q \in In(thread'[r].batch) /\ q \in In(thread'[s].batch) => r = s
    BY <1>3, <1>4 DEF OnePlace, Apart
  <2>2. \A s \in Threads, q \in Payloads : q \in In(thread'[s].batch) => q \notin In(buffer')
    BY <1>1, <1>3, <1>4 DEF OnePlace, Apart
  <2> QED
    BY <2>1, <2>2 DEF Apart, Carries
<1>8. HeldIsSomewhere'
  <2>1. ASSUME NEW q \in Payloads
        PROVE  fate'[q] = "held"
                 <=> q \in In(buffer') \/ \E s \in Threads : q \in In(thread'[s].batch)
    <3>1. Carries(t, q) => q \notin In(buffer) /\ \A s \in Threads \ {t} : ~ Carries(s, q)
      BY DEF OnePlace, Apart
    <3>2. fate[q] = "held" <=> q \in In(buffer) \/ \E s \in Threads : Carries(s, q)
      BY DEF OnePlace, HeldIsSomewhere
    <3>3. (\E s \in Threads : q \in In(thread'[s].batch)) <=> \E s \in Threads \ {t} : Carries(s, q)
      BY <1>3, <1>4
    <3> QED
      BY <1>1, <1>5, <3>1, <3>2, <3>3
  <2> QED
    BY <2>1 DEF HeldIsSomewhere, Carries
<1>9. PastIsEmpty'
  BY <1>2 DEF OnePlace, PastIsEmpty
<1>10. DropsCount'
  BY <1>1, <1>5 DEF OnePlace, DropsCount
<1> QED
  BY <1>6, <1>7, <1>8, <1>9, <1>10 DEF OnePlace

\* A delivered batch leaves memory, and what it held is settled; one that cannot
\* be encoded leaves it, and what it held is lost.
LEMMA PostedOnePlace ==
  ASSUME TypeOK, OnePlace, NEW t \in Threads, PostAccepted(t) \/ PostRaises(t)
  PROVE  OnePlace'
<1>1. CASE PostAccepted(t)
  <2>1. /\ thread' = [thread EXCEPT ![t] = [thread[t] EXCEPT !.at = "mark up", !.batch = << >>]]
        /\ fate' = [p \in Payloads |-> IF p \in In(thread[t].batch) THEN "settled" ELSE fate[p]]
        /\ buffer' = buffer /\ dropped' = dropped
    BY <1>1 DEF PostAccepted
  <2>2. [thread[t] EXCEPT !.at = "mark up", !.batch = << >>].batch = << >>
    BY ThreadTyped DEF Reporting
  <2>3. thread'[t].batch = << >> /\ \A s \in Threads \ {t} : thread'[s] = thread[s]
    BY <2>1, <2>2 DEF TypeOK
  <2> QED
    BY <2>1, <2>3, LeftOnePlace
<1>2. CASE PostRaises(t)
  BY <1>2, RaisedKept, LeftOnePlace
<1> QED
  BY <1>1, <1>2

\* A push moves a payload from the batch to the buffer, and drops the oldest.
LEMMA PushOnePlace ==
  ASSUME TypeOK, OnePlace, NEW t \in Threads, Push(t)
  PROVE  OnePlace'
<1> DEFINE batch == thread[t].batch
           full == Append(buffer, Head(batch))
           cut == Overflow(full)
           gone == In(SubSeq(full, 1, cut))
<1>1. /\ batch \in Seq(Payloads) /\ batch # << >> /\ Head(batch) \in Payloads
      /\ full \in Seq(Payloads) /\ cut \in 0 .. Len(full)
  BY PushParts
<1>2. /\ buffer' = SubSeq(full, cut + 1, Len(full))
      /\ dropped' = IF dropped + cut > MaxDropped THEN MaxDropped ELSE dropped + cut
      /\ fate' = [p \in Payloads |-> IF p \in gone THEN "dropped" ELSE fate[p]]
      /\ thread' = [thread EXCEPT ![t] = [thread[t] EXCEPT !.batch = Tail(batch)]]
      /\ thread[t].at = "push"
  BY DEF Push
<1>3. /\ In(batch) = {Head(batch)} \cup In(Tail(batch))
      /\ Head(batch) \notin In(Tail(batch)) /\ Once(Tail(batch))
  <2>1. Once(batch)
    BY DEF OnePlace, NoDoubles
  <2> QED
    BY <1>1, <2>1, HeadAndTail
<1>4. /\ thread'[t].batch = Tail(batch) /\ thread'[t].at = "push"
      /\ \A s \in Threads \ {t} : thread'[s] = thread[s]
  <2>1. /\ [thread[t] EXCEPT !.batch = Tail(batch)].batch = Tail(batch)
        /\ [thread[t] EXCEPT !.batch = Tail(batch)].at = thread[t].at
    BY ThreadTyped DEF Reporting
  <2> QED
    BY <1>2, <2>1 DEF TypeOK
<1>5. /\ Carries(t, Head(batch)) /\ Head(batch) \notin In(buffer)
      /\ \A s \in Threads \ {t} : ~ Carries(s, Head(batch))
  <2>1. Carries(t, Head(batch))
    BY <1>3 DEF Carries
  <2> QED
    BY <1>1, <2>1 DEF OnePlace, Apart
<1>6. Once(full) /\ In(full) = In(buffer) \cup {Head(batch)}
  <2>1. buffer \in Seq(Payloads) /\ Once(buffer)
    BY DEF OnePlace, NoDoubles, TypeOK
  <2> QED
    BY <1>1, <1>5, <2>1, Appended, AppendedOnce
<1>7. \A s \in Threads \ {t} : \A q \in Payloads : q \in In(thread'[s].batch) <=> Carries(s, q)
  BY <1>4 DEF Carries
<1>8. \A q \in Payloads : q \in In(thread'[t].batch) <=> Carries(t, q) /\ q # Head(batch)
  BY <1>3, <1>4 DEF Carries
<1> HIDE DEF full, cut
<1>9. In(full) = gone \cup In(buffer') /\ gone \cap In(buffer') = {} /\ Once(buffer')
  BY <1>1, <1>2, <1>6, Cut
<1> HIDE DEF gone
<1>10. \A q \in Payloads : fate'[q] = IF q \in gone THEN "dropped" ELSE fate[q]
  BY <1>2
<1> HIDE DEF batch
<1>11. NoDoubles'
  BY <1>3, <1>4, <1>9 DEF OnePlace, NoDoubles
<1>12. \A s \in Threads, q \in Payloads : q \in In(thread'[s].batch) => q \notin In(full)
  BY <1>5, <1>6, <1>7, <1>8 DEF OnePlace, Apart
<1>13. Apart'
  <2>1. \A r, s \in Threads, q \in Payloads :
          q \in In(thread'[r].batch) /\ q \in In(thread'[s].batch) => r = s
    BY <1>7, <1>8 DEF OnePlace, Apart
  <2>2. \A s \in Threads, q \in Payloads : q \in In(thread'[s].batch) => q \notin In(buffer')
    BY <1>9, <1>12
  <2> QED
    BY <2>1, <2>2 DEF Apart, Carries
<1>14. HeldIsSomewhere'
  <2>1. ASSUME NEW q \in Payloads
        PROVE  fate'[q] = "held"
                 <=> q \in In(buffer') \/ \E s \in Threads : q \in In(thread'[s].batch)
    <3>1. fate[q] = "held" <=> q \in In(buffer) \/ \E s \in Threads : Carries(s, q)
      BY DEF OnePlace, HeldIsSomewhere
    <3>2. (\E s \in Threads : Carries(s, q))
            <=> q = Head(batch) \/ \E s \in Threads : q \in In(thread'[s].batch)
      BY <1>5, <1>7, <1>8
    <3>3. fate[q] = "held" <=> q \in In(full) \/ \E s \in Threads : q \in In(thread'[s].batch)
      BY <1>6, <3>1, <3>2
    <3>4. q \in In(full) <=> q \in gone \/ q \in In(buffer')
      BY <1>9
    <3>5. q \in gone => q \notin In(buffer') /\ q \in In(full)
      BY <1>9
    <3> QED
      BY <1>10, <1>12, <3>3, <3>4, <3>5
  <2> QED
    BY <2>1 DEF HeldIsSomewhere, Carries
<1>15. PastIsEmpty'
  BY <1>4 DEF OnePlace, PastIsEmpty
<1>16. ASSUME NEW p \in Payloads, fate'[p] = "dropped" PROVE dropped' > 0
  <2>1. cut \in Nat /\ dropped \in 0 .. MaxDropped /\ MaxDropped \in Nat \ {0}
    BY <1>1, Positions, TransportAssumption DEF TypeOK
  <2>2. CASE p \in gone
    <3>1. cut # 0
      <4> SUFFICES ASSUME cut = 0 PROVE FALSE
        OBVIOUS
      <4>1. SubSeq(full, 1, cut) = << >>
        BY Part, <1>1, Positions
      <4> QED
        BY <2>2, <4>1, InEmpty DEF gone
    <3> QED
      BY <1>2, <2>1, <3>1
  <2>3. CASE p \notin gone
    <3>1. dropped > 0
      BY <1>10, <1>16, <2>3 DEF OnePlace, DropsCount
    <3> QED
      BY <1>2, <2>1, <3>1
  <2> QED
    BY <2>2, <2>3
<1>17. DropsCount'
  BY <1>16 DEF DropsCount
<1> QED
  BY <1>11, <1>13, <1>14, <1>15, <1>17 DEF OnePlace

\* A step that leaves the buffer, every batch and every fate alone.
LEMMA SamePlaces ==
  ASSUME OnePlace, buffer' = buffer, fate' = fate, dropped' = dropped,
         \A s \in Threads : thread'[s].batch = thread[s].batch, PastIsEmpty'
  PROVE  OnePlace'
<1>1. \A s \in Threads, p \in Payloads : p \in In(thread'[s].batch) <=> Carries(s, p)
  BY DEF Carries
<1>2. NoDoubles'
  BY DEF OnePlace, NoDoubles
<1>3. Apart'
  BY <1>1 DEF OnePlace, Apart, Carries
<1>4. HeldIsSomewhere'
  BY <1>1 DEF OnePlace, HeldIsSomewhere, Carries
<1>5. DropsCount'
  BY DEF OnePlace, DropsCount
<1> QED
  BY <1>2, <1>3, <1>4, <1>5 DEF OnePlace

\* Every step keeps each payload in one place.
LEMMA NextOnePlace == TypeOK /\ OnePlace /\ [Next]_vars => OnePlace'
<1> SUFFICES ASSUME TypeOK, OnePlace, [Next]_vars PROVE OnePlace'
  OBVIOUS
<1>1. ASSUME NEW t \in Threads, PostRefused(t) \/ PostUnanswered(t) \/ MarkDown(t)
      PROVE  OnePlace'
  <2>1. PastIsEmpty'
    BY <1>1, BatchKept DEF OnePlace, PastIsEmpty
  <2> QED
    BY <1>1, <2>1, BatchKept, SamePlaces
<1>2. ASSUME NEW t \in Threads, MarkUp(t) \/ FallbackCheck(t) \/ FallbackSkip(t) \/ Digest(t)
      PROVE  OnePlace'
  <2>1. /\ \A s \in Threads \ {t} : thread'[s] = thread[s]
        /\ thread'[t] = Idle \/ thread'[t].batch = << >>
        /\ thread[t].at \in {"mark up", "age"} \/ thread[t].batch = << >>
        /\ buffer' = buffer /\ fate' = fate /\ dropped' = dropped
    BY <1>2, ReturnKept
  <2>2. thread'[t].batch = << >>
    <3>1. Idle.batch = << >>
      BY DEF Idle
    <3> QED
      BY <2>1, <3>1
  <2>3. thread[t].batch = << >>
    BY <2>1 DEF OnePlace, PastIsEmpty
  <2>4. \A s \in Threads : thread'[s].batch = thread[s].batch
    BY <2>1, <2>2, <2>3
  <2>5. PastIsEmpty'
    BY <2>1, <2>2 DEF OnePlace, PastIsEmpty
  <2> QED
    BY <2>1, <2>4, <2>5, SamePlaces
<1>3. ASSUME Crash PROVE OnePlace'
  <2>1. buffer' = << >> /\ \A t \in Threads : thread'[t].batch = << >>
    BY <1>3 DEF Crash, Idle
  <2>2. \A p \in Payloads : fate'[p] \notin {"held", "dropped"}
    BY <1>3 DEF Crash
  <2>3. In(buffer') = {} /\ \A t \in Threads : In(thread'[t].batch) = {}
    BY <2>1, InEmpty
  <2>4. PastIsEmpty' /\ DropsCount'
    BY <2>1, <2>2 DEF PastIsEmpty, DropsCount
  <2>5. NoDoubles'
    BY <2>1 DEF NoDoubles, Once
  <2>6. Apart' /\ HeldIsSomewhere'
    BY <2>2, <2>3 DEF Apart, HeldIsSomewhere, Carries
  <2> QED
    BY <2>4, <2>5, <2>6 DEF OnePlace
<1>4. ASSUME \/ Tick \/ OwnerStops \/ OwnerRecovers \/ RotateKey \/ SetActive \/ WorldChanges
             \/ UNCHANGED vars
      PROVE  OnePlace'
  <2>1. thread' = thread /\ buffer' = buffer /\ fate' = fate /\ dropped' = dropped
    BY <1>4, AroundKept
  <2>2. PastIsEmpty'
    BY <2>1 DEF OnePlace, PastIsEmpty
  <2> QED
    BY <2>1, <2>2, SamePlaces
<1> QED
  BY <1>1, <1>2, <1>3, <1>4, CaptureOnePlace, PostedOnePlace, PushOnePlace DEF Next, Continue

\* A payload neither delivered nor counted as dropped is in memory exactly once
\* (transport.py), however many threads drain, post, fail and push back.
THEOREM ExactlyOnce == Spec => []HeldExactlyOnce
<1>1. Init => OnePlace
  <2> SUFFICES ASSUME Init PROVE OnePlace
    OBVIOUS
  <2>1. /\ In(buffer) = {} /\ \A t \in Threads : thread[t].batch = << >>
        /\ \A t \in Threads : In(thread[t].batch) = {}
    BY InEmpty DEF Init, Idle
  <2>2. PastIsEmpty /\ DropsCount
    BY <2>1 DEF Init, PastIsEmpty, DropsCount
  <2>3. NoDoubles
    BY <2>1 DEF Init, NoDoubles, Once
  <2>4. Apart /\ HeldIsSomewhere
    BY <2>1 DEF Init, Apart, HeldIsSomewhere, Carries
  <2> QED
    BY <2>2, <2>3, <2>4 DEF OnePlace
<1> QED
  BY <1>1, Typing, NextOnePlace, OnePlaceOneCopy, PTL DEF Spec

\* transport.py: "held in a bounded in-memory buffer and retried on the next
\* capture".  Where every context can be encoded, no step but a restart loses a
\* payload that was held: it is held on, delivered, or dropped and counted.
THEOREM HeldOn ==
  ASSUME Unencodable = {}
  PROVE  Spec => HeldUntilDelivered
<1>1. TypeOK /\ [Next]_vars
        => [crashes' = crashes =>
              \A p \in Held : fate'[p] \in {"held", "settled", "dropped"}]_vars
  <2> SUFFICES ASSUME TypeOK, [Next]_vars, crashes' = crashes, NEW p \in Held
               PROVE  fate'[p] \in {"held", "settled", "dropped"}
    OBVIOUS
  <2>0. p \in Payloads /\ fate[p] = "held" /\ fate \in [Payloads -> Fates]
    BY DEF Held, TypeOK
  <2>1. ASSUME NEW t \in Threads, Capture(t) PROVE fate'[p] = "held"
    BY <2>0, <2>1 DEF Capture
  <2>2. ASSUME NEW t \in Threads, Continue(t)
        PROVE  fate'[p] \in {"held", "settled", "dropped"}
    <3>1. ~ PostRaises(t)
      BY DEF PostRaises, Encodes
    <3>2. CASE PostAccepted(t)
      BY <2>0, <3>2 DEF PostAccepted
    <3>3. CASE Push(t)
      BY <2>0, <3>3 DEF Push
    <3>4. CASE \/ PostRefused(t) \/ PostUnanswered(t) \/ MarkUp(t) \/ MarkDown(t)
               \/ FallbackCheck(t) \/ FallbackSkip(t) \/ Digest(t)
      BY <2>0, <3>4 DEF PostRefused, PostUnanswered, MarkUp, MarkDown, FallbackCheck,
                        FallbackSkip, Digest
    <3> QED
      BY <2>2, <3>1, <3>2, <3>3, <3>4 DEF Continue
  <2>3. ~ Crash
    <3>1. crashes \in Nat
      BY TransportAssumption DEF TypeOK
    <3> QED
      BY <3>1 DEF Crash
  <2>4. CASE \/ Tick \/ OwnerStops \/ OwnerRecovers \/ RotateKey \/ SetActive
             \/ WorldChanges \/ UNCHANGED vars
    BY <2>0, <2>4, AroundKept
  <2> QED
    BY <2>1, <2>2, <2>3, <2>4 DEF Next
<1> QED
  BY <1>1, Typing, PTL DEF Spec, HeldUntilDelivered

-----------------------------------------------------------------------------
(* What was settled is stored                                              *)

\* What the owner recorded once it does not forget before the payload is
\* captured anew; an accepted batch was recorded whole.
LEMMA NextSettled == TypeOK /\ SettledIsStored /\ [Next]_vars => SettledIsStored'
<1> SUFFICES ASSUME TypeOK, SettledIsStored, [Next]_vars,
                    NEW p \in Payloads, fate'[p] = "settled", Storable(p)
             PROVE  stored'[p] > 0
  BY DEF SettledIsStored, Storable
<1>0. stored[p] \in 0 .. 2
  BY DEF TypeOK
<1>1. ASSUME NEW t \in Threads, Capture(t) PROVE stored'[p] > 0
  <2>1. PICK q \in Payloads :
          fate' = [fate EXCEPT ![q] = "held"] /\ stored' = [stored EXCEPT ![q] = 0]
    BY <1>1 DEF Capture
  <2>2. p # q
    BY <2>1 DEF TypeOK
  <2> QED
    BY <2>1, <2>2 DEF TypeOK, SettledIsStored
<1>2. ASSUME NEW t \in Threads, PostAccepted(t) PROVE stored'[p] > 0
  <2>1. /\ fate'[p] = IF p \in In(thread[t].batch) THEN "settled" ELSE fate[p]
        /\ stored'[p] = IF p \in In(thread[t].batch) /\ Storable(p) /\ stored[p] < 2
                          THEN stored[p] + 1 ELSE stored[p]
    BY <1>2 DEF PostAccepted, Record
  <2> QED
    BY <1>0, <2>1 DEF SettledIsStored
<1>3. ASSUME NEW t \in Threads, PostUnanswered(t) PROVE stored'[p] > 0
  <2>1. PICK k \in 0 .. Len(thread[t].batch) : Record(SubSeq(thread[t].batch, 1, k))
    BY <1>3 DEF PostUnanswered
  <2>2. stored'[p] \in {stored[p], stored[p] + 1}
    BY <2>1 DEF Record
  <2>3. fate[p] = "settled"
    BY <1>3 DEF PostUnanswered
  <2> QED
    BY <1>0, <2>2, <2>3 DEF SettledIsStored
<1>4. ASSUME NEW t \in Threads, Push(t) PROVE stored'[p] > 0
  <2>1. stored' = stored /\ fate'[p] \in {"dropped", fate[p]}
    BY <1>4 DEF Push
  <2> QED
    BY <2>1 DEF SettledIsStored
<1>5. ASSUME Crash PROVE stored'[p] > 0
  <2>1. stored' = stored /\ fate'[p] \in {"lost", fate[p]}
    BY <1>5 DEF Crash
  <2> QED
    BY <2>1 DEF SettledIsStored
<1>6. ASSUME NEW t \in Threads,
             \/ PostRefused(t) \/ MarkUp(t) \/ MarkDown(t)
             \/ FallbackCheck(t) \/ FallbackSkip(t) \/ Digest(t)
      PROVE  stored'[p] > 0
  <2>1. stored' = stored /\ fate' = fate
    BY <1>6 DEF PostRefused, MarkUp, MarkDown, FallbackCheck, FallbackSkip, Digest
  <2> QED
    BY <2>1 DEF SettledIsStored
<1>7. ASSUME \/ Tick \/ OwnerStops \/ OwnerRecovers \/ RotateKey \/ SetActive \/ WorldChanges
             \/ UNCHANGED vars
      PROVE  stored'[p] > 0
  BY <1>7, AroundKept DEF SettledIsStored
<1>8. ASSUME NEW t \in Threads, PostRaises(t) PROVE stored'[p] > 0
  <2>1. stored' = stored /\ fate'[p] \in {"lost", fate[p]}
    BY <1>8 DEF PostRaises
  <2> QED
    BY <2>1 DEF SettledIsStored
<1> QED
  BY <1>1, <1>2, <1>3, <1>4, <1>5, <1>6, <1>7, <1>8 DEF Next, Continue

\* What left memory on a 2xx is in the store, unless the owner ignores it or
\* cannot store it (_report, ReportView.post).
THEOREM Settled == Spec => []SettledIsStored
<1>1. Init => SettledIsStored
  BY DEF Init, SettledIsStored
<1> QED
  BY <1>1, Typing, NextSettled, PTL DEF Spec

-----------------------------------------------------------------------------
(* The fallback channel                                                    *)

\* send_telegram never ends in the General tab when a topic is configured: the
\* library's channel is left for the Bot API when it cannot address one.
LEMMA TelegramHonoursTopic ==
  ASSUME NEW s \in Settings, NEW w \in Worlds, s.topic
  PROVE  SendTelegram(s, w) \in {"topic", "nowhere"}
<1>1. Addressed(s) = "topic"
  BY DEF Addressed
<1>2. ViaLibrary(s, w) \in {"topic", "nowhere"}
  BY <1>1 DEF ViaLibrary
<1>3. ViaBotApi(s, w) \in {"topic", "nowhere"}
  BY <1>1 DEF ViaBotApi
<1> QED
  BY <1>2, <1>3 DEF SendTelegram

\* Nor does notify(), whatever NOTIFY is.
LEMMA NotifyHonoursTopic ==
  ASSUME NEW s \in Settings, NEW w \in Worlds, s.topic
  PROVE  Lands(s, w) # "general"
<1>1. CASE s.notify = "telegram"
  <2>1. Lands(s, w) = SendTelegram(s, w)
    BY <1>1 DEF Lands
  <2> QED
    BY <2>1, TelegramHonoursTopic
<1>2. CASE s.notify = "seam"
  BY <1>2 DEF Lands
<1>3. CASE s.notify \notin {"telegram", "seam"}
  BY <1>3 DEF Lands
<1> QED
  BY <1>1, <1>2, <1>3

\* What Reachable promises, it keeps: a channel that can carry a message does.
\* DeadStoreIsHeard rests on it.
LEMMA ReachableGoesOut ==
  ASSUME NEW s \in Settings, NEW w \in Worlds, Reachable(s, w)
  PROVE  GoesOut(s, w)
<1>1. Addressed(s) # "nowhere"
  BY DEF Addressed
<1>2. CASE s.notify = "seam" /\ w.seam
  BY <1>2 DEF GoesOut, Lands
<1>3. CASE s.notify = "telegram" /\ s.chat
  <2>1. Lands(s, w) = SendTelegram(s, w)
    BY <1>3 DEF Lands
  <2>2. ViaLibrary(s, w) # "nowhere" \/ ViaBotApi(s, w) # "nowhere"
    BY <1>1, <1>3 DEF Reachable, ViaLibrary, ViaBotApi
  <2> QED
    BY <1>3, <2>1, <2>2 DEF SendTelegram, GoesOut
<1> QED
  BY <1>2, <1>3 DEF Reachable

\* "A configured destination that is silently ignored is a send that SUCCEEDED
\* and went to the wrong place" (fallback.py): no digest of any reporter does.
THEOREM TopicHonoured == Spec => TopicIsHonoured
<1>1. TypeOK => settings \in Settings /\ world \in Worlds
  BY TransportAssumption DEF TypeOK
<1>2. TypeOK /\ [Next]_vars
        => [\A t \in Threads : Digest(t) /\ settings.topic => Lands(settings, world) # "general"]_vars
  BY <1>1, NotifyHonoursTopic
<1> QED
  BY <1>2, Typing, PTL DEF Spec, TopicIsHonoured

-----------------------------------------------------------------------------
(* One thread is a mailbox                                                 *)

\* A push does not change what buffer and batch hold together, nor its order.
LEMMA PushedBack ==
  ASSUME NEW S, NEW q \in Seq(S), NEW b \in Seq(S), b # << >>
  PROVE  Append(q, Head(b)) \o Tail(b) = q \o b
<1>1. /\ Head(b) \in S /\ Tail(b) \in Seq(S) /\ Len(Tail(b)) = Len(b) - 1 /\ Len(b) \in Nat \ {0}
      /\ \A i \in 1 .. Len(b) - 1 : Tail(b)[i] = b[i + 1]
  BY HeadAndTail, HeadTailProperties
<1>2. <<Head(b)>> \in Seq(S) /\ Append(q, Head(b)) = q \o <<Head(b)>>
  BY <1>1, AppendIsConcat
<1>3. (q \o <<Head(b)>>) \o Tail(b) = q \o (<<Head(b)>> \o Tail(b))
  BY <1>1, <1>2, ConcatAssociative
<1>4. <<Head(b)>> \o Tail(b) = b
  <2>1. 1 \in 1 .. Len(b) /\ Len(b) \in 1 .. Len(b)
    BY <1>1
  <2>2. SubSeq(b, 1, Len(b)) = <<b[1]>> \o SubSeq(b, 1 + 1, Len(b))
    BY <2>1, SubSeqRecursiveFirst
  <2>3. SubSeq(b, 1, Len(b)) = b /\ SubSeq(b, 2, Len(b)) = Tail(b) /\ Head(b) = b[1]
    BY SubSeqFull, TailIsSubSeq
  <2> QED
    BY <2>2, <2>3
<1> QED
  BY <1>2, <1>3, <1>4

\* Without its oldest, what they hold together lacks its oldest.
LEMMA OldestGone ==
  ASSUME NEW S, NEW q \in Seq(S), NEW b \in Seq(S), q # << >>
  PROVE  Tail(q) \o b = Tail(q \o b)
<1>1. /\ Tail(q) \in Seq(S) /\ Len(Tail(q)) = Len(q) - 1 /\ Len(q) \in Nat \ {0}
      /\ \A i \in 1 .. Len(q) - 1 : Tail(q)[i] = q[i + 1]
  BY HeadAndTail, HeadTailProperties
<1>2. /\ q \o b \in Seq(S) /\ Len(q \o b) = Len(q) + Len(b) /\ Len(b) \in Nat
      /\ \A i \in 1 .. Len(q) + Len(b) : (q \o b)[i] = IF i <= Len(q) THEN q[i] ELSE b[i - Len(q)]
  BY ConcatProperties, LenProperties
<1>3. q \o b # << >>
  BY <1>1, <1>2, EmptySeq
<1>4. /\ Tail(q \o b) \in Seq(S) /\ Len(Tail(q \o b)) = Len(q) + Len(b) - 1
      /\ \A i \in 1 .. Len(q) + Len(b) - 1 : Tail(q \o b)[i] = (q \o b)[i + 1]
  BY <1>2, <1>3, HeadTailProperties
<1>5. /\ Tail(q) \o b \in Seq(S) /\ Len(Tail(q) \o b) = Len(q) + Len(b) - 1
      /\ \A i \in 1 .. Len(q) + Len(b) - 1 :
           (Tail(q) \o b)[i] = IF i <= Len(q) - 1 THEN Tail(q)[i] ELSE b[i - (Len(q) - 1)]
  <2>1. (Len(q) - 1) + Len(b) = Len(q) + Len(b) - 1
    BY <1>1, <1>2
  <2>2. /\ Tail(q) \o b \in Seq(S) /\ Len(Tail(q) \o b) = Len(Tail(q)) + Len(b)
        /\ \A i \in 1 .. Len(Tail(q)) + Len(b) :
             (Tail(q) \o b)[i] = IF i <= Len(Tail(q)) THEN Tail(q)[i] ELSE b[i - Len(Tail(q))]
    BY <1>1, ConcatProperties
  <2> QED
    BY <1>1, <2>1, <2>2
<1>6. ASSUME NEW i \in 1 .. Len(q) + Len(b) - 1
      PROVE  (Tail(q) \o b)[i] = Tail(q \o b)[i]
  <2>1. i + 1 \in 1 .. Len(q) + Len(b) /\ i - (Len(q) - 1) = (i + 1) - Len(q) /\ i \in Nat \ {0}
    BY <1>1, <1>2
  <2>2. Tail(q \o b)[i] = IF i + 1 <= Len(q) THEN q[i + 1] ELSE b[(i + 1) - Len(q)]
    BY <1>2, <1>4, <2>1
  <2>3. CASE i <= Len(q) - 1
    BY <1>1, <1>5, <2>1, <2>2, <2>3
  <2>4. CASE ~ (i <= Len(q) - 1)
    BY <1>1, <1>5, <2>1, <2>2, <2>4
  <2> QED
    BY <2>3, <2>4
<1> QED
  BY <1>4, <1>5, <1>6, SeqEqual

\* What a push of b's oldest leaves in the buffer q.
Rest(q, b) == LET full == Append(q, Head(b)) IN SubSeq(full, Overflow(full) + 1, Len(full))

\* A push leaves the whole as it was, or cuts its oldest off when it was over
\* the bound.
LEMMA PushOnQueues ==
  ASSUME NEW S, NEW q \in Seq(S), NEW b \in Seq(S), b # << >>, Len(q) <= BufferMax
  PROVE  \/ Rest(q, b) \o Tail(b) = q \o b
         \/ Len(q \o b) > BufferMax /\ Rest(q, b) \o Tail(b) = Tail(q \o b)
<1>1. Head(b) \in S /\ Tail(b) \in Seq(S) /\ Len(q) \in Nat /\ BufferMax \in Nat
  BY HeadAndTail, LenProperties, TransportAssumption
<1>2. PICK full \in Seq(S) : full = Append(q, Head(b)) /\ Len(full) = Len(q) + 1
  BY <1>1, Appended
<1>3. full \o Tail(b) = q \o b
  BY <1>2, PushedBack
<1>4. Rest(q, b) = SubSeq(full, Overflow(full) + 1, Len(full))
  BY <1>2 DEF Rest
<1>5. CASE Len(full) <= BufferMax
  <2>1. Overflow(full) = 0
    BY <1>1, <1>2, <1>5 DEF Overflow
  <2>2. Rest(q, b) = full
    BY <1>4, <2>1, SubSeqFull
  <2> QED
    BY <1>3, <2>2
<1>6. CASE Len(full) > BufferMax
  <2>1. Overflow(full) = 1
    BY <1>1, <1>2, <1>6 DEF Overflow
  <2>2. full # << >>
    BY <1>1, <1>2, EmptySeq
  <2>3. Rest(q, b) = Tail(full)
    BY <1>4, <2>1, <2>2, TailIsSubSeq
  <2>4. Tail(full) \o Tail(b) = Tail(full \o Tail(b))
    BY <1>1, <2>2, OldestGone
  <2>5. Len(full \o Tail(b)) = Len(full) + Len(Tail(b)) /\ Len(Tail(b)) \in Nat
    BY <1>1, ConcatProperties, LenProperties
  <2>6. Len(full \o Tail(b)) > BufferMax
    BY <1>1, <1>2, <1>6, <2>5
  <2> QED
    BY <1>3, <2>3, <2>4, <2>6, Zenon
<1>7. Len(full) <= BufferMax \/ Len(full) > BufferMax
  BY <1>1, <1>2
<1> QED
  BY <1>5, <1>6, <1>7, Zenon

\* From the capture to the first push the batch is all a reporter of one
\* thread holds.
DrainedWhilePosting ==
  \A t \in Threads : thread[t].at \in {"post", "mark up", "mark down"} => buffer = << >>

\* With the bounds and the empty batches, what the refinement needs.
MailboxInv == TypeOK /\ HeldBounded /\ PastIsEmpty /\ DrainedWhilePosting

\* Every step of a one-threaded reporter keeps it.
LEMMA NextMailboxInv ==
  ASSUME NEW t0, Threads = {t0}, MailboxInv, [Next]_vars
  PROVE  MailboxInv'
<1> USE DEF MailboxInv
<1>1. TypeOK' /\ HeldBounded'
  BY NextTyped, NextBounded
<1>2. ASSUME NEW t \in Threads, Capture(t) PROVE PastIsEmpty' /\ DrainedWhilePosting'
  <2>1. thread'[t].at = "post" /\ buffer' = << >>
    BY <1>2 DEF Capture, Drained, TypeOK
  <2> QED
    BY <2>1 DEF PastIsEmpty, DrainedWhilePosting
<1>3. ASSUME NEW t \in Threads, PostAccepted(t) PROVE PastIsEmpty' /\ DrainedWhilePosting'
  <2>1. /\ thread' = [thread EXCEPT ![t] = [thread[t] EXCEPT !.at = "mark up", !.batch = << >>]]
        /\ buffer' = buffer /\ thread[t].at = "post"
    BY <1>3 DEF PostAccepted
  <2>2. [thread[t] EXCEPT !.at = "mark up", !.batch = << >>].batch = << >>
    BY ThreadTyped DEF Reporting
  <2> QED
    BY <2>1, <2>2 DEF PastIsEmpty, DrainedWhilePosting, TypeOK
<1>4. ASSUME NEW t \in Threads, PostRefused(t) \/ PostUnanswered(t) \/ MarkDown(t)
      PROVE  PastIsEmpty' /\ DrainedWhilePosting'
  <2>1. buffer' = buffer /\ thread[t].at \in {"post", "mark down"}
    BY <1>4 DEF PostRefused, PostUnanswered, MarkDown
  <2> QED
    BY <1>4, <2>1, BatchKept DEF PastIsEmpty, DrainedWhilePosting
<1>5. ASSUME NEW t \in Threads, Push(t) PROVE PastIsEmpty' /\ DrainedWhilePosting'
  <2>1. /\ thread' = [thread EXCEPT ![t] = [thread[t] EXCEPT !.batch = Tail(thread[t].batch)]]
        /\ thread[t].at = "push"
    BY <1>5 DEF Push
  <2>2. [thread[t] EXCEPT !.batch = Tail(thread[t].batch)].at = thread[t].at
    BY ThreadTyped DEF Reporting
  <2>3. thread'[t].at = "push"
    BY <2>1, <2>2 DEF TypeOK
  <2> QED
    BY <2>3 DEF PastIsEmpty, DrainedWhilePosting
<1>6. ASSUME NEW t \in Threads, MarkUp(t) \/ FallbackCheck(t) \/ FallbackSkip(t) \/ Digest(t)
      PROVE  PastIsEmpty' /\ DrainedWhilePosting'
  <2>1. Idle.batch = << >> /\ Idle.at = "idle"
    BY DEF Idle
  <2>2. thread'[t].batch = << >> /\ thread'[t].at \in {"idle", "age"}
    BY <1>6, <2>1, ReturnKept
  <2> QED
    BY <2>2 DEF PastIsEmpty, DrainedWhilePosting
<1>7. ASSUME Crash PROVE PastIsEmpty' /\ DrainedWhilePosting'
  BY <1>7 DEF Crash, Idle, PastIsEmpty, DrainedWhilePosting
<1>8. ASSUME \/ Tick \/ OwnerStops \/ OwnerRecovers \/ RotateKey \/ SetActive \/ WorldChanges
             \/ UNCHANGED vars
      PROVE  PastIsEmpty' /\ DrainedWhilePosting'
  BY <1>8, AroundKept DEF PastIsEmpty, DrainedWhilePosting
<1>9. ASSUME NEW t \in Threads, PostRaises(t) PROVE PastIsEmpty' /\ DrainedWhilePosting'
  <2>1. Idle.at = "idle"
    BY DEF Idle
  <2>2. /\ thread'[t].at = "idle" /\ thread'[t].batch = << >> /\ buffer' = buffer
        /\ \A s \in Threads \ {t} : thread'[s] = thread[s]
    BY <1>9, <2>1, RaisedKept
  <2> QED
    BY <2>2 DEF PastIsEmpty, DrainedWhilePosting
<1> QED
  BY <1>1, <1>2, <1>3, <1>4, <1>5, <1>6, <1>7, <1>8, <1>9 DEF Next, Continue

\* With one thread, buffer and batch together are one queue in the order of
\* the captures: drop-oldest cuts its oldest end and nothing else (_Buffer,
\* _report).
THEOREM OneThreadIsAMailbox ==
  ASSUME NEW t0, Threads = {t0}
  PROVE  Spec => IsMailbox
<1> DEFINE reporter == CHOOSE t \in Threads : TRUE
<1>0. reporter = t0 /\ t0 \in Threads
  OBVIOUS
<1>1. Init => MailboxInv
  <2>1. Init => TypeOK
    BY InitTyped
  <2> QED
    BY <2>1, EmptySeq, TransportAssumption
       DEF Init, MailboxInv, HeldBounded, PastIsEmpty, DrainedWhilePosting, Idle
<1>2. Init => Box!Init
  <2> SUFFICES ASSUME Init PROVE buffer \o thread[reporter].batch = << >>
    BY DEF Box!Init
  <2>1. buffer = << >> /\ thread[reporter].batch = << >>
    BY <1>0 DEF Init, Idle
  <2> QED
    BY <2>1, EmptySeq, ConcatEmptySeq
<1>3. MailboxInv /\ [Next]_vars
        => [Box!Next]_(buffer \o thread[reporter].batch)
  <2> SUFFICES ASSUME MailboxInv, [Next]_vars
               PROVE  [Box!Next]_(buffer \o thread[reporter].batch)
    OBVIOUS
  <2> DEFINE batch == thread[reporter].batch
             queue == buffer \o batch
  <2>0. /\ buffer \in Seq(Payloads) /\ batch \in Seq(Payloads) /\ << >> \in Seq(Payloads)
        /\ Len(buffer) \in Nat /\ Len(buffer) <= BufferMax /\ BufferMax \in Nat
    BY <1>0, EmptySeq, LenProperties, TransportAssumption DEF MailboxInv, TypeOK, HeldBounded
  <2>a. ASSUME queue' = << >> PROVE Box!Next
    BY <2>a DEF Box!Next, Box!Empty
  <2>1. CASE Capture(t0)
    <3>1. PICK p \in Payloads :
            thread' = [thread EXCEPT ![t0] = [at |-> "post", attempt |-> 1, batch |-> Batch(p)]]
      BY <2>1 DEF Capture
    <3>2. batch' = Append(buffer, p)
      BY <1>0, <3>1 DEF MailboxInv, TypeOK, Batch
    <3>3. buffer' = << >>
      BY <2>1 DEF Capture, Drained
    <3>4. batch = << >>
      BY <1>0, <2>1 DEF MailboxInv, PastIsEmpty, Capture
    <3>5. queue = buffer
      BY <2>0, <3>4, ConcatEmptySeq
    <3>6. queue' = Append(buffer, p)
      BY <2>0, <3>2, <3>3, Appended, ConcatEmptySeq
    <3>7. Len(queue) <= BufferMax /\ queue' = Append(queue, p)
      BY <2>0, <3>5, <3>6
    <3> QED
      BY <3>7 DEF Box!Next, Box!Accept
  <2>2. CASE PostAccepted(t0)
    <3>1. /\ thread' = [thread EXCEPT ![t0] = [thread[t0] EXCEPT !.at = "mark up", !.batch = << >>]]
          /\ buffer' = buffer /\ buffer = << >>
      BY <1>0, <2>2 DEF PostAccepted, MailboxInv, DrainedWhilePosting
    <3>2. [thread[t0] EXCEPT !.at = "mark up", !.batch = << >>].batch = << >>
      BY <1>0, ThreadTyped DEF Reporting, MailboxInv
    <3>3. batch' = << >>
      BY <1>0, <3>1, <3>2 DEF MailboxInv, TypeOK
    <3>4. queue' = << >>
      BY <2>0, <3>1, <3>3, ConcatEmptySeq
    <3> QED
      BY <2>a, <3>4
  <2>3. CASE Push(t0)
    <3>1. batch # << >>
      BY <1>0, <2>3, PushParts DEF MailboxInv
    <3>2. /\ buffer' = Rest(buffer, batch)
          /\ thread' = [thread EXCEPT ![t0] = [thread[t0] EXCEPT !.batch = Tail(thread[t0].batch)]]
      BY <1>0, <2>3 DEF Push, Rest
    <3>3. batch' = Tail(batch)
      <4>1. [thread[t0] EXCEPT !.batch = Tail(thread[t0].batch)].batch = Tail(thread[t0].batch)
        BY <1>0, ThreadTyped DEF Reporting, MailboxInv
      <4> QED
        BY <1>0, <3>2, <4>1 DEF MailboxInv, TypeOK
    <3>4. queue' = Rest(buffer, batch) \o Tail(batch)
      BY <3>2, <3>3
    <3>5. \/ queue' = queue
          \/ Len(queue) > BufferMax /\ queue' = Tail(queue)
      BY <2>0, <3>1, <3>4, PushOnQueues
    <3> QED
      BY <3>5 DEF Box!Next, Box!DropOldest
  <2>4. CASE Crash
    <3>1. buffer' = << >> /\ batch' = << >>
      BY <1>0, <2>4 DEF Crash, Idle
    <3>2. queue' = << >>
      BY <2>0, <3>1, ConcatEmptySeq
    <3> QED
      BY <2>a, <3>2
  <2>5. CASE \/ PostRefused(t0) \/ PostUnanswered(t0) \/ MarkDown(t0)
    <3>1. buffer' = buffer /\ batch' = batch
      BY <1>0, <2>5, BatchKept DEF MailboxInv
    <3> QED
      BY <3>1
  <2>6. CASE \/ MarkUp(t0) \/ FallbackCheck(t0) \/ FallbackSkip(t0) \/ Digest(t0)
    <3>1. Idle.batch = << >>
      BY DEF Idle
    <3>2. /\ buffer' = buffer /\ thread'[t0].batch = << >>
          /\ thread[t0].at \in {"mark up", "age"} \/ thread[t0].batch = << >>
      BY <1>0, <2>6, <3>1, ReturnKept DEF MailboxInv
    <3>3. thread[t0].batch = << >>
      BY <1>0, <3>2 DEF MailboxInv, PastIsEmpty
    <3>4. buffer' = buffer /\ batch' = batch
      BY <1>0, <3>2, <3>3
    <3> QED
      BY <3>4
  <2>7. CASE \/ Tick \/ OwnerStops \/ OwnerRecovers \/ RotateKey \/ SetActive \/ WorldChanges
             \/ UNCHANGED vars
    <3>1. buffer' = buffer /\ batch' = batch
      BY <1>0, <2>7, AroundKept
    <3> QED
      BY <3>1
  <2>8. CASE PostRaises(t0)
    <3>1. buffer' = buffer /\ buffer = << >> /\ batch' = << >>
      BY <1>0, <2>8, RaisedKept DEF PostRaises, MailboxInv, DrainedWhilePosting
    <3>2. queue' = << >>
      BY <2>0, <3>1, ConcatEmptySeq
    <3> QED
      BY <2>a, <3>2
  <2> QED
    BY <1>0, <2>1, <2>2, <2>3, <2>4, <2>5, <2>6, <2>7, <2>8 DEF Next, Continue
<1>4. MailboxInv /\ [Next]_vars => MailboxInv'
  BY NextMailboxInv
<1> QED
  BY <1>1, <1>2, <1>3, <1>4, PTL DEF Spec, IsMailbox, Box!Spec

=============================================================================
