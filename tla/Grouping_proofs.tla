---------------------------- MODULE Grouping_proofs ----------------------------
(***************************************************************************)
(* Theorems about find_issue() for every set of occurrences, in whatever   *)
(* order they arrive and whatever is fixed and muted in between.           *)
(*                                                                         *)
(* What the normaliser and the matcher make of traces is proved by         *)
(* induction over their lines.  An induction theorem that takes a          *)
(* predicate cannot be instantiated, so it is an induction over sets: the  *)
(* numbers for which a lemma holds are a set, and a set of numbers that    *)
(* has 0 and with each number the next one is Nat.                         *)
(***************************************************************************)
EXTENDS Grouping, SequenceTheorems, FiniteSetTheorems, WellFoundedInduction, TLAPS

-----------------------------------------------------------------------------
(* Induction over sets of numbers                                          *)

\* The order by which data is built up.
Less == OpToRel(<, Nat)

\* It descends to 0 and no further.
LEMMA LessWellFounded == IsWellFoundedOn(Less, Nat)
BY NatLessThanWellFounded DEF Less

\* A set of numbers has a smallest.
LEMMA SmallestOf ==
  ASSUME NEW S \in SUBSET Nat, S # {}
  PROVE  \E m \in S : \A k \in S : m <= k
<1>1. \A k, m \in Nat : <<k, m>> \in Less <=> k < m
  BY DEF Less, OpToRel
<1>2. PICK m \in S : \A k \in S : <<k, m>> \notin Less
  BY LessWellFounded, WFMin
<1>3. \A k \in S : k \in Nat /\ m \in Nat /\ ~ (k < m)
  BY <1>1, <1>2
<1> QED
  BY <1>3

\* Induction, over a set of numbers.
LEMMA AllNaturals ==
  ASSUME NEW S \in SUBSET Nat, 0 \in S, \A n \in S : n + 1 \in S
  PROVE  S = Nat
<1> SUFFICES ASSUME Nat \ S # {} PROVE FALSE
  OBVIOUS
<1>1. PICK m \in Nat \ S : \A k \in Nat \ S : m <= k
  BY SmallestOf
<1>2. m - 1 \in Nat /\ m - 1 \notin Nat \ S
  BY <1>1
<1> QED
  BY <1>2

\* n steps of h from t.
Runs(T, t, h, n) ==
  {g \in [0 .. n -> T] : g[0] = t /\ \A k \in 0 .. n - 1 : g[k + 1] = h[<<k, g[k]>>]}

\* Two such runs agree as far as both go.
LEMMA RunsAgree ==
  ASSUME NEW T, NEW t, NEW h, NEW m \in Nat, NEW n \in Nat,
         NEW f \in Runs(T, t, h, m), NEW g \in Runs(T, t, h, n)
  PROVE  \A k \in Nat : k <= m /\ k <= n => f[k] = g[k]
<1> DEFINE S == {k \in Nat : k <= m /\ k <= n => f[k] = g[k]}
<1>1. 0 \in S
  BY DEF Runs
<1>2. ASSUME NEW k \in S, k + 1 <= m, k + 1 <= n
      PROVE  f[k + 1] = g[k + 1]
  <2>1. k \in 0 .. m - 1 /\ k \in 0 .. n - 1 /\ f[k] = g[k]
    BY <1>2
  <2> QED
    BY <2>1 DEF Runs
<1>3. \A k \in S : k + 1 \in S
  BY <1>2
<1>4. S = Nat
  <2> HIDE DEF S
  <2>1. S \in SUBSET Nat
    BY DEF S
  <2> QED
    BY <1>1, <1>3, <2>1, AllNaturals
<1> QED
  BY <1>4

\* Steps of h from t without end.
IsRun(run, T, t, h) ==
  run \in [Nat -> T] /\ run[0] = t /\ \A n \in Nat : run[n + 1] = h[<<n, run[n]>>]

\* What is defined by its next step from its last one exists.
LEMMA Iteration ==
  ASSUME NEW T, NEW t \in T, NEW h \in [Nat \X T -> T]
  PROVE  \E run : IsRun(run, T, t, h)
<1> DEFINE S == {n \in Nat : Runs(T, t, h, n) # {}}
<1>1. 0 \in S
  <2>1. [k \in 0 .. 0 |-> t] \in Runs(T, t, h, 0)
    BY DEF Runs
  <2> QED
    BY <2>1
<1>2. ASSUME NEW n \in S
      PROVE  n + 1 \in S
  <2>1. PICK g : g \in Runs(T, t, h, n)
    OBVIOUS
  <2>2. PICK f : f = [k \in 0 .. n + 1 |-> IF k = n + 1 THEN h[<<n, g[n]>>] ELSE g[k]]
    OBVIOUS
  <2>3. g \in [0 .. n -> T] /\ g[0] = t /\ \A k \in 0 .. n - 1 : g[k + 1] = h[<<k, g[k]>>]
    BY <2>1 DEF Runs
  <2>4. h[<<n, g[n]>>] \in T
    BY <2>3
  <2>5. f \in [0 .. n + 1 -> T] /\ f[0] = t
    BY <2>2, <2>3, <2>4
  <2>6. ASSUME NEW k \in 0 .. (n + 1) - 1
        PROVE  f[k + 1] = h[<<k, f[k]>>]
    <3>1. n \in Nat /\ f[k] = g[k]
      BY <2>2
    <3>2. CASE k = n
      <4>1. k + 1 = n + 1 /\ n + 1 \in 0 .. n + 1 /\ f[n + 1] = h[<<n, g[n]>>]
        BY <2>2, <3>1, <3>2
      <4> QED
        BY <3>1, <3>2, <4>1
    <3>3. CASE k # n
      BY <2>2, <2>3, <3>1, <3>3
    <3> QED
      BY <3>2, <3>3
  <2> QED
    BY <2>5, <2>6 DEF Runs
<1>3. \A n \in Nat : Runs(T, t, h, n) # {}
  <2>1. S = Nat
    <3> HIDE DEF S
    <3>1. S \in SUBSET Nat
      BY DEF S
    <3> QED
      BY <1>1, <1>2, <3>1, AllNaturals
  <2> QED
    BY <2>1
<1> DEFINE pick(n) == CHOOSE g : g \in Runs(T, t, h, n)
           run == [n \in Nat |-> pick(n)[n]]
<1>4. \A n \in Nat : pick(n) \in Runs(T, t, h, n)
  BY <1>3
<1> HIDE DEF pick
<1>5. run \in [Nat -> T] /\ run[0] = t
  BY <1>4 DEF Runs
<1>6. ASSUME NEW n \in Nat
      PROVE  run[n + 1] = h[<<n, run[n]>>]
  <2>1. pick(n) \in Runs(T, t, h, n) /\ pick(n + 1) \in Runs(T, t, h, n + 1)
    BY <1>4
  <2>2. pick(n)[n] = pick(n + 1)[n]
    BY <2>1, RunsAgree
  <2>3. pick(n + 1)[n + 1] = h[<<n, pick(n + 1)[n]>>]
    BY <2>1 DEF Runs
  <2> QED
    BY <2>2, <2>3
<1> QED
  BY <1>5, <1>6 DEF IsRun

-----------------------------------------------------------------------------
(* The normaliser                                                          *)

\* The lines a trace may leave, and where the loop may be.
LinesOf(trace) ==
  {<<"frame", NormalisePath(trace[k].path), trace[k].fn>> : k \in DOMAIN trace}
  \cup {<<"source", NormaliseLine(trace[k].text)>> : k \in DOMAIN trace}
  \cup {<<"other", NormaliseLine(trace[k].text)>> : k \in DOMAIN trace}
  \cup {<<"raised", trace[k].class, NormaliseLine(trace[k].text)>> : k \in DOMAIN trace}
Sofar(trace) == [kept: Seq(LinesOf(trace)), inFrame: BOOLEAN]

\* A sequence of whatever.
IsTrace(trace) == trace \in Seq({trace[k] : k \in DOMAIN trace})

\* The loop after each line.
Loop(trace, f) ==
  f = [k \in 0 .. Len(trace) |->
        IF k = 0 THEN [kept |-> <<>>, inFrame |-> FALSE] ELSE Normalise(f[k - 1], trace[k])]

\* A line more leaves lines of that trace.
LEMMA NormaliseKeepsType ==
  ASSUME NEW trace, NEW k \in DOMAIN trace, NEW sofar \in Sofar(trace)
  PROVE  Normalise(sofar, trace[k]) \in Sofar(trace)
<1> DEFINE line == trace[k]
           keep(l, inFrame) == [kept |-> Append(sofar.kept, l), inFrame |-> inFrame]
           drop == [sofar EXCEPT !.inFrame = FALSE]
<1>1. drop \in Sofar(trace)
  BY DEF Sofar
<1>2. ASSUME NEW l \in LinesOf(trace), NEW inFrame \in BOOLEAN
      PROVE  keep(l, inFrame) \in Sofar(trace)
  BY DEF Sofar
<1>3. /\ <<"frame", NormalisePath(line.path), line.fn>> \in LinesOf(trace)
      /\ <<"source", NormaliseLine(line.text)>> \in LinesOf(trace)
      /\ <<"other", NormaliseLine(line.text)>> \in LinesOf(trace)
      /\ <<"raised", line.class, NormaliseLine(line.text)>> \in LinesOf(trace)
  BY DEF LinesOf
<1>4. \/ Normalise(sofar, line) = drop
      \/ Normalise(sofar, line) = keep(<<"frame", NormalisePath(line.path), line.fn>>, TRUE)
      \/ Normalise(sofar, line) = keep(<<"source", NormaliseLine(line.text)>>, FALSE)
      \/ Normalise(sofar, line) = keep(<<"other", NormaliseLine(line.text)>>, FALSE)
      \/ Normalise(sofar, line) = keep(<<"raised", line.class, NormaliseLine(line.text)>>, FALSE)
  BY DEF Normalise
<1> HIDE DEF keep, drop, line
<1>5. Normalise(sofar, line) \in Sofar(trace)
  BY <1>1, <1>2, <1>3, <1>4
<1> QED
  BY <1>5 DEF line

\* normalise_trace is that loop: nothing at first, then one line after another.
LEMMA LoopRuns ==
  ASSUME NEW trace, IsTrace(trace)
  PROVE  \E f \in [0 .. Len(trace) -> Sofar(trace)] :
           /\ f[0] = [kept |-> <<>>, inFrame |-> FALSE]
           /\ \A k \in 1 .. Len(trace) : f[k] = Normalise(f[k - 1], trace[k])
           /\ NormaliseTrace(trace) = f[Len(trace)].kept
<1> DEFINE T == Sofar(trace)
           t == [kept |-> <<>>, inFrame |-> FALSE]
           h == [p \in Nat \X T |->
                  IF p[1] + 1 \in DOMAIN trace THEN Normalise(p[2], trace[p[1] + 1]) ELSE p[2]]
<1>1. t \in T
  BY DEF Sofar
<1>2. h \in [Nat \X T -> T]
  <2>1. \A p \in Nat \X T :
          (IF p[1] + 1 \in DOMAIN trace THEN Normalise(p[2], trace[p[1] + 1]) ELSE p[2]) \in T
    BY NormaliseKeepsType
  <2> QED
    BY <2>1
<1>3. PICK run : run \in [Nat -> T] /\ run[0] = t /\ \A n \in Nat : run[n + 1] = h[<<n, run[n]>>]
  <2>1. \E run : IsRun(run, T, t, h)
    <3> HIDE DEF T, t, h
    <3> QED
      BY <1>1, <1>2, Iteration
  <2> HIDE DEF T, t, h
  <2> QED
    BY <2>1 DEF IsRun
<1>4. Len(trace) \in Nat /\ DOMAIN trace = 1 .. Len(trace)
  BY DEF IsTrace
<1>5. ASSUME NEW k \in 1 .. Len(trace)
      PROVE  run[k] = Normalise(run[k - 1], trace[k])
  <2>1. k - 1 \in Nat /\ (k - 1) + 1 = k /\ run[k - 1] \in T
    BY <1>3, <1>4
  <2>2. run[k] = h[<<k - 1, run[k - 1]>>]
    BY <1>3, <2>1
  <2> QED
    BY <1>4, <2>1, <2>2
<1> DEFINE g == [k \in 0 .. Len(trace) |-> run[k]]
<1>6. Loop(trace, g)
  <2>1. ASSUME NEW k \in 0 .. Len(trace)
        PROVE  run[k] = IF k = 0 THEN t ELSE Normalise(g[k - 1], trace[k])
    BY <1>3, <1>4, <1>5
  <2> QED
    BY <2>1 DEF Loop
<1> DEFINE f == CHOOSE f : f = [k \in 0 .. Len(trace) |->
                  IF k = 0 THEN [kept |-> <<>>, inFrame |-> FALSE] ELSE Normalise(f[k - 1], trace[k])]
<1>7. Loop(trace, f)
  <2> HIDE DEF g
  <2> QED
    BY <1>6 DEF Loop
<1>8. NormaliseTrace(trace) = f[Len(trace)].kept
  BY DEF NormaliseTrace
<1> HIDE DEF f, h, t
<1>9. /\ DOMAIN f = 0 .. Len(trace) /\ f = [k \in 0 .. Len(trace) |-> f[k]]
      /\ f[0] = [kept |-> <<>>, inFrame |-> FALSE]
      /\ \A k \in 1 .. Len(trace) : f[k] = Normalise(f[k - 1], trace[k])
  <2>1. f = [k \in 0 .. Len(trace) |->
        IF k = 0 THEN [kept |-> <<>>, inFrame |-> FALSE] ELSE Normalise(f[k - 1], trace[k])]
    BY <1>7 DEF Loop
  <2> HIDE DEF f
  <2>2. PICK e : e = [k \in 0 .. Len(trace) |->
        IF k = 0 THEN [kept |-> <<>>, inFrame |-> FALSE] ELSE Normalise(f[k - 1], trace[k])]
    OBVIOUS
  <2>3. /\ DOMAIN e = 0 .. Len(trace) /\ e = [k \in 0 .. Len(trace) |-> e[k]]
        /\ e[0] = [kept |-> <<>>, inFrame |-> FALSE]
        /\ \A k \in 1 .. Len(trace) : e[k] = Normalise(f[k - 1], trace[k])
    BY <1>4, <2>2
  <2>4. e = f
    BY <2>1, <2>2
  <2> QED
    BY <2>3, <2>4
<1>10. \A k \in 0 .. Len(trace) : f[k] \in T
  <2> DEFINE S == {k \in Nat : k <= Len(trace) => f[k] \in T}
  <2>1. 0 \in S
    BY <1>1, <1>4, <1>9 DEF t
  <2>2. ASSUME NEW k \in S
        PROVE  k + 1 \in S
    <3>1. ASSUME k + 1 <= Len(trace)
          PROVE  f[k + 1] \in T
      <4>1. k + 1 \in 1 .. Len(trace) /\ f[k] \in T /\ (k + 1) - 1 = k
        BY <1>4, <3>1
      <4> QED
        BY <1>4, <1>9, <4>1, NormaliseKeepsType
    <3> QED
      BY <3>1
  <2>3. S \in SUBSET Nat
    OBVIOUS
  <2> HIDE DEF S
  <2>4. S = Nat
    BY <2>1, <2>2, <2>3, AllNaturals
  <2> QED
    BY <1>4, <2>4 DEF S
<1>11. f \in [0 .. Len(trace) -> T]
  BY <1>9, <1>10
<1> QED
  BY <1>8, <1>9, <1>11

\* The last of some lines of a trace is one of them, and behind all others.
LEMMA LastOfBounded ==
  ASSUME NEW n \in Nat, NEW S \in SUBSET (1 .. n), S # {}
  PROVE  LastOf(S) \in S /\ \A k \in S : k <= LastOf(S)
<1> DEFINE R == {j \in Nat : \E k \in S : j = n - k}
<1>1. PICK j \in R : \A i \in R : j <= i
  <2>1. R \in SUBSET Nat /\ R # {}
    <3>1. PICK k \in S : k \in 1 .. n
      OBVIOUS
    <3>2. n - k \in R
      BY <3>1
    <3> QED
      BY <3>2
  <2> HIDE DEF R
  <2> QED
    BY <2>1, SmallestOf
<1>2. n - j \in S /\ \A k \in S : k <= n - j
  <2>1. PICK k \in S : j = n - k
    BY <1>1
  <2>2. ASSUME NEW l \in S
        PROVE  l <= n - j
    <3>1. n - l \in R
      OBVIOUS
    <3> QED
      BY <1>1, <2>1, <3>1
  <2> QED
    BY <2>1, <2>2
<1> QED
  BY <1>2 DEF LastOf

\* Lines that differ in values, line numbers or what stands above an anchor are the
\* same line to the normaliser.
LEMMA SameLines ==
  ASSUME NEW k, NEW l, SameLine(k, l), NEW sofar
  PROVE  /\ Normalise(sofar, k) = Normalise(sofar, l)
         /\ (k.is = "raised") = (l.is = "raised")
         /\ k.is = "raised" => /\ k.class = l.class
                               /\ (k.text = Nothing) = (l.text = Nothing)
                               /\ NormaliseLine(k.text) = NormaliseLine(l.text)
<1>1. ASSUME NEW s, NEW t, SameText(s, t)
      PROVE  NormaliseLine(s) = NormaliseLine(t) /\ (s = Nothing) = (t = Nothing)
  BY <1>1 DEF SameText, NormaliseLine
<1>2. CASE k.is = "frame"
  <2>1. /\ l.is = "frame" /\ k.fn = l.fn
        /\ NormalisePath(k.path) = NormalisePath(l.path)
        /\ (k.path \in Generated) = (l.path \in Generated)
    BY <1>2 DEF SameLine, SamePath, NormalisePath
  <2> QED
    BY <1>2, <2>1 DEF Normalise
<1>3. CASE k.is \in {"source", "other"}
  BY <1>1, <1>3 DEF SameLine, Normalise
<1>4. CASE k.is = "raised"
  BY <1>1, <1>4 DEF SameLine, Normalise
<1>5. CASE k.is \notin {"frame", "source", "other", "raised"}
  BY <1>5 DEF SameLine, Normalise
<1> QED
  BY <1>2, <1>3, <1>4, <1>5

\* So that traces of such lines have the same frames, class and message.
LEMMA SameTraces ==
  ASSUME NEW s, NEW t, IsTrace(s), IsTrace(t), Len(s) = Len(t),
         \A k \in DOMAIN s : SameLine(s[k], t[k])
  PROVE  /\ NormaliseTrace(s) = NormaliseTrace(t)
         /\ ExceptionClass(s) = ExceptionClass(t)
         /\ ExceptionMessage(s) = ExceptionMessage(t)
<1>1. Len(s) \in Nat /\ DOMAIN s = 1 .. Len(s) /\ DOMAIN t = 1 .. Len(s)
  BY DEF IsTrace
<1>2. NormaliseTrace(s) = NormaliseTrace(t)
  <2>1. PICK f \in [0 .. Len(s) -> Sofar(s)] :
           /\ f[0] = [kept |-> <<>>, inFrame |-> FALSE]
           /\ \A k \in 1 .. Len(s) : f[k] = Normalise(f[k - 1], s[k])
           /\ NormaliseTrace(s) = f[Len(s)].kept
    BY LoopRuns
  <2>2. PICK g \in [0 .. Len(t) -> Sofar(t)] :
           /\ g[0] = [kept |-> <<>>, inFrame |-> FALSE]
           /\ \A k \in 1 .. Len(t) : g[k] = Normalise(g[k - 1], t[k])
           /\ NormaliseTrace(t) = g[Len(t)].kept
    BY LoopRuns
  <2> DEFINE S == {k \in Nat : k <= Len(s) => f[k] = g[k]}
  <2>3. 0 \in S
    BY <2>1, <2>2
  <2>4. ASSUME NEW k \in S
        PROVE  k + 1 \in S
    <3>1. ASSUME k + 1 <= Len(s)
          PROVE  f[k + 1] = g[k + 1]
      <4>1. k + 1 \in 1 .. Len(s) /\ (k + 1) - 1 = k /\ f[k] = g[k]
        BY <1>1, <3>1
      <4>2. f[k + 1] = Normalise(f[k], s[k + 1]) /\ g[k + 1] = Normalise(g[k], t[k + 1])
        BY <2>1, <2>2, <4>1
      <4>3. Normalise(f[k], s[k + 1]) = Normalise(f[k], t[k + 1])
        BY <1>1, <4>1, SameLines
      <4> QED
        BY <4>1, <4>2, <4>3
    <3> QED
      BY <3>1
  <2>5. S \in SUBSET Nat
    OBVIOUS
  <2>6. S = Nat
    <3> HIDE DEF S
    <3> QED
      BY <2>3, <2>4, <2>5, AllNaturals
  <2>7. f[Len(s)] = g[Len(s)]
    BY <1>1, <2>6
  <2> QED
    BY <2>1, <2>2, <2>7
<1>3. \A k \in 1 .. Len(s) :
        /\ (s[k].is = "raised") = (t[k].is = "raised")
        /\ s[k].is = "raised" => /\ s[k].class = t[k].class
                                 /\ (s[k].text = Nothing) = (t[k].text = Nothing)
                                 /\ NormaliseLine(s[k].text) = NormaliseLine(t[k].text)
  BY <1>1, SameLines
<1>4. Raised(s) = Raised(t)
  BY <1>1, <1>3 DEF Raised
<1>5. Told(s) = Told(t)
  BY <1>1, <1>3, <1>4 DEF Told, Raised
<1>6. ASSUME NEW S \in SUBSET (1 .. Len(s)), S # {}
      PROVE  LastOf(S) \in S
  BY <1>1, <1>6, LastOfBounded
<1>7. ExceptionClass(s) = ExceptionClass(t)
  <2>1. Raised(s) # {} => LastOf(Raised(s)) \in Raised(s)
    BY <1>1, <1>6 DEF Raised
  <2> QED
    BY <1>1, <1>3, <1>4, <2>1 DEF ExceptionClass, Raised
<1>8. ExceptionMessage(s) = ExceptionMessage(t)
  <2>1. Told(s) # {} => LastOf(Told(s)) \in Told(s)
    BY <1>1, <1>6 DEF Told, Raised
  <2> QED
    BY <1>1, <1>3, <1>5, <2>1 DEF ExceptionMessage, Told, Raised
<1> QED
  BY <1>2, <1>7, <1>8

\* The occurrences of a bug have one fingerprint.
LEMMA SamePrints ==
  ASSUME OccurrenceAssumption, NEW o \in Occurrences, NEW p \in Occurrences, o.bug = p.bug
  PROVE  Prints[o] = Prints[p]
<1>1. IsTrace(o.trace) /\ IsTrace(p.trace) /\ SameButForValues(o, p)
  BY DEF OccurrenceAssumption, IsTrace
<1>2. /\ NormaliseTrace(o.trace) = NormaliseTrace(p.trace)
      /\ ExceptionClass(o.trace) = ExceptionClass(p.trace)
      /\ ExceptionMessage(o.trace) = ExceptionMessage(p.trace)
  BY <1>1, SameTraces DEF SameButForValues
<1>3. /\ o.service = p.service /\ o.class = p.class
      /\ NormaliseLine(o.message) = NormaliseLine(p.message)
      /\ (o.message = Nothing) = (p.message = Nothing)
  BY <1>1 DEF SameButForValues, SameText, NormaliseLine
<1>4. (o.trace = <<>>) = (p.trace = <<>>)
  <2>1. \A s : IsTrace(s) => ((s = <<>>) = (Len(s) = 0))
    BY EmptySeq DEF IsTrace
  <2> QED
    BY <1>1, <2>1 DEF SameButForValues
<1>5. FramesOf(o) = FramesOf(p)
  BY <1>2, <1>3, <1>4 DEF FramesOf
<1>6. ClassOf(o) = ClassOf(p) /\ SubjectOf(o) = SubjectOf(p)
  BY <1>2, <1>3 DEF ClassOf, SubjectOf
<1>7. Fingerprint(o) = Fingerprint(p)
  BY <1>3, <1>5, <1>6 DEF Fingerprint
<1> QED
  BY <1>7 DEF Prints

\* The lines of a normalised trace that tell a message, and the last message told.
ToldIn(frames) == {k \in DOMAIN frames : frames[k][1] = "raised" /\ frames[k][3] # Nothing}
MessageOf(frames) == IF ToldIn(frames) = {} THEN Nothing ELSE frames[LastOf(ToldIn(frames))][3]

\* The same of the first n lines of a trace as it was reported.
ToldUpTo(trace, n) == {k \in Told(trace) : k <= n}
MessageUpTo(trace, n) ==
  IF ToldUpTo(trace, n) = {} THEN Nothing
  ELSE NormaliseLine(trace[LastOf(ToldUpTo(trace, n))].text)

\* The last of some lines, when the n-th of n lines is one of them.
LEMMA LastIs ==
  ASSUME NEW n \in Nat, NEW S \in SUBSET (1 .. n), n \in S
  PROVE  LastOf(S) = n
<1>1. LastOf(S) \in S /\ \A k \in S : k <= LastOf(S)
  BY LastOfBounded
<1>2. LastOf(S) \in 1 .. n /\ n <= LastOf(S)
  BY <1>1
<1> QED
  BY <1>2

\* A line more is the message, if it tells one.
LEMMA MessageOfMore ==
  ASSUME NEW L, NEW frames \in Seq(L), NEW l \in L
  PROVE  MessageOf(Append(frames, l)) =
           IF l[1] = "raised" /\ l[3] # Nothing THEN l[3] ELSE MessageOf(frames)
<1> DEFINE more == Append(frames, l)
           n == Len(frames)
<1>1. /\ n \in Nat /\ DOMAIN frames = 1 .. n /\ DOMAIN more = 1 .. n + 1
      /\ more[n + 1] = l /\ \A k \in 1 .. n : more[k] = frames[k]
  BY AppendProperties, LenProperties
<1> HIDE DEF more, n
<1>2. CASE l[1] = "raised" /\ l[3] # Nothing
  <2>1. ToldIn(more) \in SUBSET (1 .. n + 1) /\ n + 1 \in ToldIn(more) /\ n + 1 \in Nat
    BY <1>1, <1>2 DEF ToldIn
  <2>2. LastOf(ToldIn(more)) = n + 1
    BY <2>1, LastIs
  <2> QED
    BY <1>1, <1>2, <2>1, <2>2 DEF MessageOf, more
<1>3. CASE ~ (l[1] = "raised" /\ l[3] # Nothing)
  <2>1. ASSUME NEW k
        PROVE  k \in ToldIn(more) <=> k \in ToldIn(frames)
    <3>1. k \in 1 .. n + 1 <=> k \in 1 .. n \/ k = n + 1
      BY <1>1
    <3> QED
      BY <1>1, <1>3, <3>1 DEF ToldIn
  <2>2. ToldIn(more) = ToldIn(frames)
    BY <2>1
  <2>3. ToldIn(frames) # {} => LastOf(ToldIn(frames)) \in 1 .. n
    BY <1>1, LastOfBounded DEF ToldIn
  <2> QED
    BY <1>1, <1>3, <2>2, <2>3 DEF MessageOf, more
<1> QED
  BY <1>2, <1>3

\* And so it is of the trace as it was reported.
LEMMA MessageUpToMore ==
  ASSUME NEW trace, IsTrace(trace), NEW k \in 1 .. Len(trace)
  PROVE  MessageUpTo(trace, k) =
           IF k \in Told(trace) THEN NormaliseLine(trace[k].text) ELSE MessageUpTo(trace, k - 1)
<1>1. Len(trace) \in Nat /\ DOMAIN trace = 1 .. Len(trace) /\ k \in Nat /\ k - 1 \in Nat
  BY DEF IsTrace
<1>2. Told(trace) \in SUBSET (1 .. Len(trace))
  BY <1>1 DEF Told, Raised
<1>3. CASE k \in Told(trace)
  <2>1. ToldUpTo(trace, k) \in SUBSET (1 .. k) /\ k \in ToldUpTo(trace, k)
    BY <1>1, <1>2, <1>3 DEF ToldUpTo
  <2>2. LastOf(ToldUpTo(trace, k)) = k
    BY <1>1, <2>1, LastIs
  <2> QED
    BY <1>3, <2>1, <2>2 DEF MessageUpTo
<1>4. CASE k \notin Told(trace)
  <2>1. ToldUpTo(trace, k) = ToldUpTo(trace, k - 1)
    BY <1>1, <1>2, <1>4 DEF ToldUpTo
  <2> QED
    BY <1>4, <2>1 DEF MessageUpTo
<1> QED
  BY <1>3, <1>4

\* The normaliser loses no message: the last one told in what it leaves is that of the
\* exception that escaped.
LEMMA MessageIsKept ==
  ASSUME NEW trace, IsTrace(trace),
         \A k \in DOMAIN trace :
           trace[k].is = "raised" /\ trace[k].text # Nothing => trace[k].text.shape # Nothing
  PROVE  MessageOf(NormaliseTrace(trace)) = ExceptionMessage(trace)
<1>1. Len(trace) \in Nat /\ DOMAIN trace = 1 .. Len(trace)
  BY DEF IsTrace
<1>2. PICK f \in [0 .. Len(trace) -> Sofar(trace)] :
           /\ f[0] = [kept |-> <<>>, inFrame |-> FALSE]
           /\ \A k \in 1 .. Len(trace) : f[k] = Normalise(f[k - 1], trace[k])
           /\ NormaliseTrace(trace) = f[Len(trace)].kept
  BY LoopRuns
<1> DEFINE S == {k \in Nat : k <= Len(trace) => MessageOf(f[k].kept) = MessageUpTo(trace, k)}
<1>3. 0 \in S
  <2>1. MessageOf(<<>>) = Nothing
    BY DEF MessageOf, ToldIn
  <2>2. ToldUpTo(trace, 0) = {}
    BY <1>1 DEF ToldUpTo, Told, Raised
  <2> QED
    BY <1>2, <2>1, <2>2 DEF MessageUpTo
<1>4. ASSUME NEW k \in S
      PROVE  k + 1 \in S
  <2>1. SUFFICES ASSUME k + 1 <= Len(trace)
                 PROVE  MessageOf(f[k + 1].kept) = MessageUpTo(trace, k + 1)
    OBVIOUS
  <2>2. /\ k + 1 \in 1 .. Len(trace) /\ k + 1 \in DOMAIN trace /\ (k + 1) - 1 = k
        /\ MessageOf(f[k].kept) = MessageUpTo(trace, k)
        /\ f[k].kept \in Seq(LinesOf(trace))
    BY <1>1, <1>2, <2>1 DEF Sofar
  <2>3. f[k + 1] = Normalise(f[k], trace[k + 1])
    BY <1>2, <2>2
  <2> DEFINE line == trace[k + 1]
  <2>4. ASSUME NEW l \in LinesOf(trace), f[k + 1].kept = Append(f[k].kept, l)
        PROVE  MessageOf(f[k + 1].kept) =
                 IF l[1] = "raised" /\ l[3] # Nothing THEN l[3] ELSE MessageUpTo(trace, k)
    BY <2>2, <2>4, MessageOfMore
  <2>5. MessageUpTo(trace, k + 1) =
          IF k + 1 \in Told(trace) THEN NormaliseLine(line.text) ELSE MessageUpTo(trace, k)
    BY <2>2, MessageUpToMore
  <2>6. CASE line.is = "raised"
    <3>1. f[k + 1].kept = Append(f[k].kept, <<"raised", line.class, NormaliseLine(line.text)>>)
      BY <2>3, <2>6 DEF Normalise
    <3>2. <<"raised", line.class, NormaliseLine(line.text)>> \in LinesOf(trace)
      BY <2>2 DEF LinesOf
    <3>3. k + 1 \in Told(trace) <=> NormaliseLine(line.text) # Nothing
      BY <2>2, <2>6 DEF Told, Raised, NormaliseLine
    <3> QED
      BY <2>4, <2>5, <3>1, <3>2, <3>3
  <2>7. CASE line.is # "raised"
    <3>1. k + 1 \notin Told(trace)
      BY <2>7 DEF Told, Raised
    <3>2. \/ f[k + 1].kept = f[k].kept
          \/ f[k + 1].kept = Append(f[k].kept, <<"frame", NormalisePath(line.path), line.fn>>)
          \/ f[k + 1].kept = Append(f[k].kept, <<"source", NormaliseLine(line.text)>>)
          \/ f[k + 1].kept = Append(f[k].kept, <<"other", NormaliseLine(line.text)>>)
      <4>1. CASE line.is = "other"
        BY <2>3, <4>1 DEF Normalise
      <4>2. CASE line.is = "source"
        BY <2>2, <2>3, <4>2 DEF Normalise
      <4>3. CASE line.is = "frame"
        BY <2>2, <2>3, <4>3 DEF Normalise
      <4>4. CASE line.is \notin {"frame", "source", "other", "raised"}
        <5>1. f[k] \in Sofar(trace)
          BY <1>1, <1>2, <2>1
        <5> QED
          BY <2>3, <4>4, <5>1 DEF Normalise, Sofar
      <4> QED
        BY <2>7, <4>1, <4>2, <4>3, <4>4
    <3>3. /\ <<"frame", NormalisePath(line.path), line.fn>> \in LinesOf(trace)
          /\ <<"source", NormaliseLine(line.text)>> \in LinesOf(trace)
          /\ <<"other", NormaliseLine(line.text)>> \in LinesOf(trace)
      BY <2>2 DEF LinesOf
    <3>4. /\ <<"frame", NormalisePath(line.path), line.fn>>[1] # "raised"
          /\ <<"source", NormaliseLine(line.text)>>[1] # "raised"
          /\ <<"other", NormaliseLine(line.text)>>[1] # "raised"
      OBVIOUS
    <3> HIDE DEF line
    <3> QED
      BY <2>2, <2>4, <2>5, <3>1, <3>2, <3>3, <3>4
  <2> QED
    BY <2>6, <2>7
<1>5. S \in SUBSET Nat
  OBVIOUS
<1>6. S = Nat
  <2> HIDE DEF S
  <2> QED
    BY <1>3, <1>4, <1>5, AllNaturals
<1>7. MessageOf(NormaliseTrace(trace)) = MessageUpTo(trace, Len(trace))
  BY <1>1, <1>2, <1>6
<1>8. ToldUpTo(trace, Len(trace)) = Told(trace)
  BY <1>1 DEF ToldUpTo, Told, Raised
<1> QED
  BY <1>7, <1>8 DEF MessageUpTo, ExceptionMessage

-----------------------------------------------------------------------------
(* The matcher                                                             *)

\* The lines of a in a span.
Size(s) == IF s.alo <= s.ahi THEN s.ahi - s.alo + 1 ELSE 0

\* Where there are common blocks, one of them is the longest, the first of these in a,
\* and of these the first in b.
LEMMA LongestIsThere ==
  ASSUME NEW a, NEW b, NEW s \in Spans, Blocks(a, b, s) # {}
  PROVE  Longest(Blocks(a, b, s)) \in Blocks(a, b, s)
<1> DEFINE B == Blocks(a, b, s)
           most == s.ahi - s.alo + 1
<1>1. /\ s.alo \in Nat /\ s.ahi \in Nat /\ s.blo \in Nat /\ most \in Int
      /\ \A m \in B : m[1] \in Nat /\ m[2] \in Nat /\ m[3] \in Nat /\ most - m[3] \in Nat
  BY DEF Spans, Blocks
<1> HIDE DEF B, most
<1> DEFINE Short == {most - m[3] : m \in B}
<1>2. PICK n \in Short : \A k \in Short : n <= k
  <2>1. Short \in SUBSET Nat /\ Short # {}
    BY <1>1 DEF B
  <2> HIDE DEF Short
  <2> QED
    BY <2>1, SmallestOf
<1>3. PICK x \in B : most - x[3] = n
  BY <1>2
<1>4. \A m \in B : m[3] <= x[3]
  <2>1. TAKE m \in B
  <2>2. most - m[3] \in Short
    OBVIOUS
  <2>3. n <= most - m[3]
    BY <1>2, <2>2
  <2> QED
    BY <1>1, <1>3, <2>3
<1> DEFINE First == {m[1] : m \in {y \in B : y[3] = x[3]}}
<1>5. PICK i \in First : \A k \in First : i <= k
  <2>1. First \in SUBSET Nat /\ First # {}
    BY <1>1
  <2> HIDE DEF First
  <2> QED
    BY <2>1, SmallestOf
<1> DEFINE Second == {m[2] : m \in {y \in B : y[3] = x[3] /\ y[1] = i}}
<1>6. PICK j \in Second : \A k \in Second : j <= k
  <2>1. Second \in SUBSET Nat /\ Second # {}
    BY <1>1, <1>5
  <2> HIDE DEF Second
  <2> QED
    BY <2>1, SmallestOf
<1>7. PICK m \in B : m[3] = x[3] /\ m[1] = i /\ m[2] = j
  BY <1>6
<1>8. ASSUME NEW o \in B
      PROVE  \/ m[3] > o[3]
             \/ m[3] = o[3] /\ m[1] < o[1]
             \/ m[3] = o[3] /\ m[1] = o[1] /\ m[2] <= o[2]
  <2>1. m[1] \in Nat /\ m[2] \in Nat /\ m[3] \in Nat /\ o[1] \in Nat /\ o[2] \in Nat /\ o[3] \in Nat
    BY <1>1
  <2>2. o[3] <= m[3]
    BY <1>4, <1>7
  <2>3. o[3] = m[3] => m[1] <= o[1]
    <3>1. o[3] = x[3] => o[1] \in First
      OBVIOUS
    <3> QED
      BY <1>5, <1>7, <3>1
  <2>4. o[3] = m[3] /\ o[1] = m[1] => m[2] <= o[2]
    <3>1. o[3] = x[3] /\ o[1] = i => o[2] \in Second
      OBVIOUS
    <3> QED
      BY <1>6, <1>7, <3>1
  <2> QED
    BY <2>1, <2>2, <2>3, <2>4
<1>9. \E z \in B : \A o \in B :
        \/ z[3] > o[3]
        \/ z[3] = o[3] /\ z[1] < o[1]
        \/ z[3] = o[3] /\ z[1] = o[1] /\ z[2] <= o[2]
  BY <1>8
<1>10. Longest(B) \in B
  BY <1>9 DEF Longest
<1> QED
  BY <1>10 DEF B

\* What one call of the matcher adds to what it finds on either side.
Step(a, b, g, s) ==
  IF Blocks(a, b, s) = {} THEN 0
  ELSE Longest(Blocks(a, b, s))[3] + g[Before(s, Longest(Blocks(a, b, s)))]
         + g[Behind(s, Longest(Blocks(a, b, s)))]

\* A block splits its span into smaller ones.
LEMMA SpansShrink ==
  ASSUME NEW a, NEW b, NEW s \in Spans, NEW m \in Blocks(a, b, s)
  PROVE  /\ Before(s, m) \in Spans /\ Behind(s, m) \in Spans
         /\ Size(Before(s, m)) < Size(s) /\ Size(Behind(s, m)) < Size(s)
         /\ m[1] \in Nat /\ m[2] \in Nat /\ m[3] \in Nat \ {0}
         /\ s.alo <= m[1] /\ s.blo <= m[2]
         /\ m[1] + m[3] <= s.ahi + 1 /\ m[2] + m[3] <= s.bhi + 1
         /\ \A n \in 0 .. m[3] - 1 : a[m[1] + n] = b[m[2] + n]
<1>1. /\ s.alo \in Nat /\ s.ahi \in Nat /\ s.blo \in Nat /\ s.bhi \in Nat
      /\ s.alo > 0 /\ s.blo > 0
      /\ s = [alo |-> s.alo, ahi |-> s.ahi, blo |-> s.blo, bhi |-> s.bhi]
  BY DEF Spans
<1>2. /\ m[1] \in Nat /\ m[2] \in Nat /\ m[3] \in Nat /\ m[3] > 0
      /\ s.alo <= m[1] /\ s.blo <= m[2] /\ m[1] <= s.ahi
      /\ m[1] + m[3] <= s.ahi + 1 /\ m[2] + m[3] <= s.bhi + 1
      /\ \A n \in 0 .. m[3] - 1 : a[m[1] + n] = b[m[2] + n]
  BY <1>1 DEF Blocks
<1>3. /\ Before(s, m) = [alo |-> s.alo, ahi |-> m[1] - 1, blo |-> s.blo, bhi |-> m[2] - 1]
      /\ Behind(s, m) = [alo |-> m[1] + m[3], ahi |-> s.ahi, blo |-> m[2] + m[3], bhi |-> s.bhi]
  BY <1>1 DEF Before, Behind
<1>4. Before(s, m) \in Spans /\ Behind(s, m) \in Spans
  BY <1>1, <1>2, <1>3 DEF Spans
<1>5. Size(Before(s, m)) < Size(s) /\ Size(Behind(s, m)) < Size(s)
  BY <1>1, <1>2, <1>3 DEF Size
<1> QED
  BY <1>2, <1>4, <1>5

\* The matcher counts lines.
LEMMA StepType ==
  ASSUME NEW a, NEW b, NEW g \in [Spans -> Nat], NEW s \in Spans
  PROVE  Step(a, b, g, s) \in Nat
<1>1. CASE Blocks(a, b, s) = {}
  BY <1>1 DEF Step
<1>2. CASE Blocks(a, b, s) # {}
  <2>1. PICK m \in Blocks(a, b, s) : m = Longest(Blocks(a, b, s))
    BY <1>2, LongestIsThere
  <2>2. Before(s, m) \in Spans /\ Behind(s, m) \in Spans /\ m[3] \in Nat
    BY SpansShrink
  <2> QED
    BY <1>2, <2>1, <2>2 DEF Step
<1> QED
  BY <1>1, <1>2

\* A call depends on calls for smaller spans.
LEMMA StepLooksInside ==
  ASSUME NEW a, NEW b, NEW s \in Spans, NEW f, NEW g,
         \A r \in Spans : Size(r) < Size(s) => f[r] = g[r]
  PROVE  Step(a, b, f, s) = Step(a, b, g, s)
<1>1. CASE Blocks(a, b, s) = {}
  BY <1>1 DEF Step
<1>2. CASE Blocks(a, b, s) # {}
  <2>1. PICK m \in Blocks(a, b, s) : m = Longest(Blocks(a, b, s))
    BY <1>2, LongestIsThere
  <2>2. f[Before(s, m)] = g[Before(s, m)] /\ f[Behind(s, m)] = g[Behind(s, m)]
    BY SpansShrink
  <2> QED
    BY <1>2, <2>1, <2>2 DEF Step
<1> QED
  BY <1>1, <1>2

\* The matcher, one call deeper.
Approx(a, b) == [p \in Nat \X [Spans -> Nat] |-> [s \in Spans |-> Step(a, b, p[2], s)]]

\* The recursion of Matching has a solution.
LEMMA MatchExists ==
  ASSUME NEW a, NEW b
  PROVE  \E g \in [Spans -> Nat] : g = [s \in Spans |-> Step(a, b, g, s)]
<1> DEFINE T == [Spans -> Nat]
           t == [s \in Spans |-> 0]
<1>1. t \in T /\ Approx(a, b) \in [Nat \X T -> T]
  <2>1. \A p \in Nat \X T : [s \in Spans |-> Step(a, b, p[2], s)] \in T
    BY StepType
  <2> QED
    BY <2>1 DEF Approx
<1>2. PICK run : /\ run \in [Nat -> T]
                 /\ \A n \in Nat : run[n + 1] = [s \in Spans |-> Step(a, b, run[n], s)]
  <2>1. \E run : IsRun(run, T, t, Approx(a, b))
    <3> HIDE DEF T, t
    <3> QED
      BY <1>1, Iteration
  <2>2. PICK run : IsRun(run, T, t, Approx(a, b))
    BY <2>1
  <2>3. /\ run \in [Nat -> T]
        /\ \A n \in Nat : run[n] \in T /\ run[n + 1] = Approx(a, b)[<<n, run[n]>>]
    <3> HIDE DEF T, t
    <3> QED
      BY <2>2 DEF IsRun
  <2>4. ASSUME NEW n \in Nat
        PROVE  run[n + 1] = [s \in Spans |-> Step(a, b, run[n], s)]
    <3>1. Approx(a, b)[<<n, run[n]>>] = [s \in Spans |-> Step(a, b, run[n], s)]
      <4>1. <<n, run[n]>> \in Nat \X T
        BY <2>3
      <4> HIDE DEF T
      <4> QED
        BY <4>1 DEF Approx, T
    <3> QED
      BY <2>3, <3>1
  <2> QED
    BY <2>3, <2>4
<1>3. \A s \in Spans : Size(s) \in Nat
  BY DEF Spans, Size
<1>4. \A n \in Nat : \A s \in Spans : run[n + 1][s] = Step(a, b, run[n], s)
  BY <1>2
<1> DEFINE S == {n \in Nat : \A s \in Spans : Size(s) < n => run[n + 1][s] = run[n][s]}
<1>5. S = Nat
  <2>1. 0 \in S
    BY <1>3
  <2>2. ASSUME NEW n \in S
        PROVE  n + 1 \in S
    <3>1. ASSUME NEW s \in Spans, Size(s) < n + 1
          PROVE  run[(n + 1) + 1][s] = run[n + 1][s]
      <4>1. \A r \in Spans : Size(r) < Size(s) => run[n + 1][r] = run[n][r]
        BY <1>3, <3>1
      <4>2. Step(a, b, run[n + 1], s) = Step(a, b, run[n], s)
        BY <4>1, StepLooksInside
      <4> QED
        BY <1>4, <4>2
    <3> QED
      BY <3>1
  <2>3. S \in SUBSET Nat
    OBVIOUS
  <2> HIDE DEF S
  <2> QED
    BY <2>1, <2>2, <2>3, AllNaturals
<1> DEFINE g == [s \in Spans |-> run[Size(s) + 1][s]]
           R == {n \in Nat : \A s \in Spans : Size(s) < n => run[n][s] = g[s]}
<1>6. R = Nat
  <2>1. 0 \in R
    BY <1>3
  <2>2. ASSUME NEW n \in R
        PROVE  n + 1 \in R
    <3>1. ASSUME NEW s \in Spans, Size(s) < n + 1
          PROVE  run[n + 1][s] = g[s]
      <4>1. CASE Size(s) = n
        BY <4>1
      <4>2. CASE Size(s) # n
        <5>1. Size(s) < n
          BY <1>3, <3>1, <4>2
        <5>2. run[n + 1][s] = run[n][s]
          BY <1>5, <5>1
        <5> QED
          BY <5>1, <5>2
      <4> QED
        BY <4>1, <4>2
    <3> QED
      BY <3>1
  <2>3. R \in SUBSET Nat
    OBVIOUS
  <2> HIDE DEF R, S
  <2> QED
    BY <2>1, <2>2, <2>3, AllNaturals
<1>7. ASSUME NEW s \in Spans
      PROVE  g[s] = Step(a, b, g, s) /\ g[s] \in Nat
  <2>1. Size(s) \in Nat /\ g[s] = Step(a, b, run[Size(s)], s)
    BY <1>3, <1>4
  <2>2. \A r \in Spans : Size(r) < Size(s) => run[Size(s)][r] = g[r]
    BY <1>6, <2>1
  <2> HIDE DEF g, S, R
  <2>3. Step(a, b, run[Size(s)], s) = Step(a, b, g, s)
    BY <2>2, StepLooksInside
  <2>4. run[Size(s)] \in [Spans -> Nat]
    BY <1>2, <2>1
  <2> QED
    BY <2>1, <2>3, <2>4, StepType
<1>8. DOMAIN g = Spans /\ g = [s \in Spans |-> g[s]]
  OBVIOUS
<1> HIDE DEF g
<1>9. g \in [Spans -> Nat] /\ g = [s \in Spans |-> Step(a, b, g, s)]
  BY <1>7, <1>8
<1> QED
  BY <1>9

\* So that Matching is its value for the two whole traces.
LEMMA MatchingIs ==
  ASSUME NEW a, NEW b
  PROVE  \E g : /\ \A s \in Spans : g[s] = Step(a, b, g, s)
               /\ Matching(a, b) = g[[alo |-> 1, ahi |-> Len(a), blo |-> 1, bhi |-> Len(b)]]
<1> DEFINE g == CHOOSE match : match = [s \in Spans |->
                  IF Blocks(a, b, s) = {} THEN 0
                  ELSE Longest(Blocks(a, b, s))[3] + match[Before(s, Longest(Blocks(a, b, s)))]
                         + match[Behind(s, Longest(Blocks(a, b, s)))]]
<1>1. g = [s \in Spans |-> Step(a, b, g, s)]
  BY MatchExists DEF Step
<1>2. Matching(a, b) = g[[alo |-> 1, ahi |-> Len(a), blo |-> 1, bhi |-> Len(b)]]
  BY DEF Matching
<1> HIDE DEF g
<1> QED
  BY <1>1, <1>2

\* Pairs of equal lines within a span.
Within(a, b, s) == {p \in (s.alo .. s.ahi) \X (s.blo .. s.bhi) : a[p[1]] = b[p[2]]}

\* So many pairs of equal lines in order.
Paired(a, b, s, n) ==
  \E pairs \in SUBSET Within(a, b, s) :
    InOrder(pairs) /\ IsFiniteSet(pairs) /\ Cardinality(pairs) = n

\* The pairs of a block are as many as its lines, and in order.
LEMMA BlockPairs ==
  ASSUME NEW i \in Nat, NEW j \in Nat, NEW n \in Nat
  PROVE  LET P == {<<i + k, j + k>> : k \in 0 .. n - 1}
         IN  IsFiniteSet(P) /\ Cardinality(P) = n /\ InOrder(P)
<1> DEFINE P == {<<i + k, j + k>> : k \in 0 .. n - 1}
           f == [k \in 0 .. n - 1 |-> <<i + k, j + k>>]
<1>1. f \in Bijection(0 .. n - 1, P)
  <2>1. f \in [0 .. n - 1 -> P]
    OBVIOUS
  <2>2. \A k, l \in 0 .. n - 1 : f[k] = f[l] => k = l
    OBVIOUS
  <2>3. \A p \in P : \E k \in 0 .. n - 1 : f[k] = p
    OBVIOUS
  <2> HIDE DEF f, P
  <2> QED
    BY <2>1, <2>2, <2>3 DEF Bijection, Injection, Surjection, IsInjective
<1>2. IsFiniteSet(0 .. n - 1) /\ Cardinality(0 .. n - 1) = n
  BY FS_Interval
<1>3. IsFiniteSet(P) /\ Cardinality(P) = n
  <2>1. ExistsBijection(0 .. n - 1, P)
    BY <1>1 DEF ExistsBijection
  <2> HIDE DEF P
  <2> QED
    BY <1>2, <2>1, FS_Bijection
<1>4. InOrder(P)
  BY DEF InOrder
<1> QED
  BY <1>3, <1>4

\* Pairs before and pairs behind are in order together.
LEMMA PairsBeside ==
  ASSUME NEW P, NEW Q, IsFiniteSet(P), IsFiniteSet(Q), InOrder(P), InOrder(Q),
         \A p \in P, q \in Q : /\ p[1] \in Nat /\ q[1] \in Nat /\ p[2] \in Nat /\ q[2] \in Nat
                              /\ p[1] < q[1] /\ p[2] < q[2]
  PROVE  /\ InOrder(P \cup Q) /\ IsFiniteSet(P \cup Q)
         /\ Cardinality(P \cup Q) = Cardinality(P) + Cardinality(Q)
<1>1. InOrder(P \cup Q)
  BY DEF InOrder
<1>2. P \cap Q = {}
  <2>1. \A p \in P : p \notin Q
    <3>1. TAKE p \in P
    <3> QED
      OBVIOUS
  <2> QED
    BY <2>1
<1>3. Cardinality(P) \in Nat /\ Cardinality(Q) \in Nat
  BY FS_CardinalityType
<1> QED
  BY <1>1, <1>2, <1>3, FS_Union, FS_EmptySet

\* A block and the pairs on either side of it are pairs of the span.
LEMMA StepPairs ==
  ASSUME NEW a, NEW b, NEW s \in Spans, NEW m \in Blocks(a, b, s), NEW l, NEW r,
         Paired(a, b, Before(s, m), l), Paired(a, b, Behind(s, m), r)
  PROVE  Paired(a, b, s, m[3] + l + r)
<1>1. PICK P \in SUBSET Within(a, b, Before(s, m)) :
        InOrder(P) /\ IsFiniteSet(P) /\ Cardinality(P) = l
  BY DEF Paired
<1>2. PICK R \in SUBSET Within(a, b, Behind(s, m)) :
        InOrder(R) /\ IsFiniteSet(R) /\ Cardinality(R) = r
  BY DEF Paired
<1> DEFINE Q == {<<m[1] + k, m[2] + k>> : k \in 0 .. m[3] - 1}
<1>3. /\ m[1] \in Nat /\ m[2] \in Nat /\ m[3] \in Nat
      /\ s.alo <= m[1] /\ s.blo <= m[2]
      /\ m[1] + m[3] <= s.ahi + 1 /\ m[2] + m[3] <= s.bhi + 1
      /\ \A n \in 0 .. m[3] - 1 : a[m[1] + n] = b[m[2] + n]
      /\ s.alo \in Nat /\ s.ahi \in Nat /\ s.blo \in Nat /\ s.bhi \in Nat
  BY SpansShrink DEF Spans
<1>4. IsFiniteSet(Q) /\ Cardinality(Q) = m[3] /\ InOrder(Q)
  BY <1>3, BlockPairs
<1>5. Q \subseteq Within(a, b, s)
  BY <1>3 DEF Within
<1>6. \A p \in P : /\ p \in Within(a, b, s) /\ p[1] \in Nat /\ p[2] \in Nat
                   /\ p[1] < m[1] /\ p[2] < m[2]
  BY <1>1, <1>3 DEF Within, Before
<1>7. \A p \in R : /\ p \in Within(a, b, s) /\ p[1] \in Nat /\ p[2] \in Nat
                   /\ p[1] >= m[1] + m[3] /\ p[2] >= m[2] + m[3]
  BY <1>2, <1>3 DEF Within, Behind
<1>8. \A q \in Q : /\ q[1] \in Nat /\ q[2] \in Nat /\ q[1] >= m[1] /\ q[2] >= m[2]
                   /\ q[1] < m[1] + m[3] /\ q[2] < m[2] + m[3]
  BY <1>3
<1> HIDE DEF Q
<1>9. /\ InOrder(P \cup Q) /\ IsFiniteSet(P \cup Q) /\ Cardinality(P \cup Q) = l + m[3]
  <2>1. \A p \in P, q \in Q : /\ p[1] \in Nat /\ q[1] \in Nat /\ p[2] \in Nat /\ q[2] \in Nat
                              /\ p[1] < q[1] /\ p[2] < q[2]
    BY <1>3, <1>6, <1>8
  <2> QED
    BY <1>1, <1>4, <2>1, PairsBeside
<1>10. /\ InOrder((P \cup Q) \cup R) /\ IsFiniteSet((P \cup Q) \cup R)
       /\ Cardinality((P \cup Q) \cup R) = (l + m[3]) + r
  <2>1. \A p \in P \cup Q, q \in R :
          /\ p[1] \in Nat /\ q[1] \in Nat /\ p[2] \in Nat /\ q[2] \in Nat
          /\ p[1] < q[1] /\ p[2] < q[2]
    BY <1>3, <1>6, <1>7, <1>8
  <2> QED
    BY <1>2, <1>9, <2>1, PairsBeside
<1>11. (P \cup Q) \cup R \in SUBSET Within(a, b, s)
  BY <1>5, <1>6, <1>7
<1>12. l \in Nat /\ r \in Nat
  BY <1>1, <1>2, FS_CardinalityType
<1>13. (l + m[3]) + r = m[3] + l + r
  BY <1>3, <1>12
<1> QED
  BY <1>10, <1>11, <1>13 DEF Paired

\* The matcher matches lines that are equal, in their order.
LEMMA MatchingIsSound ==
  ASSUME NEW L, NEW a \in Seq(L), NEW b \in Seq(L)
  PROVE  \E pairs \in SUBSET Common(a, b) :
           InOrder(pairs) /\ IsFiniteSet(pairs) /\ Cardinality(pairs) = Matching(a, b)
<1>1. PICK g : /\ \A s \in Spans : g[s] = Step(a, b, g, s)
               /\ Matching(a, b) = g[[alo |-> 1, ahi |-> Len(a), blo |-> 1, bhi |-> Len(b)]]
  BY MatchingIs
<1> DEFINE S == {n \in Nat : \A s \in Spans : Size(s) <= n => Paired(a, b, s, g[s])}
<1>2. \A s \in Spans : Size(s) \in Nat
  BY DEF Spans, Size
<1>3. ASSUME NEW s \in Spans, Blocks(a, b, s) = {}
      PROVE  Paired(a, b, s, g[s])
  <2>1. g[s] = 0
    BY <1>1, <1>3 DEF Step
  <2>2. {} \in SUBSET Within(a, b, s) /\ InOrder({}) /\ IsFiniteSet({}) /\ Cardinality({}) = 0
    BY FS_EmptySet DEF InOrder
  <2> QED
    BY <2>1, <2>2 DEF Paired
<1>4. 0 \in S
  <2>1. ASSUME NEW s \in Spans, Size(s) <= 0
        PROVE  Blocks(a, b, s) = {}
    <3>1. s.alo > s.ahi
      BY <2>1 DEF Size, Spans
    <3> QED
      BY <3>1 DEF Blocks, Spans
  <2> QED
    BY <1>3, <2>1
<1>5. ASSUME NEW n \in S
      PROVE  n + 1 \in S
  <2>1. ASSUME NEW s \in Spans, Size(s) <= n + 1, Blocks(a, b, s) # {}
        PROVE  Paired(a, b, s, g[s])
    <3>1. PICK m \in Blocks(a, b, s) : m = Longest(Blocks(a, b, s))
      BY <2>1, LongestIsThere
    <3>2. /\ Before(s, m) \in Spans /\ Behind(s, m) \in Spans
          /\ Size(Before(s, m)) < Size(s) /\ Size(Behind(s, m)) < Size(s)
      BY SpansShrink
    <3>3. Size(Before(s, m)) <= n /\ Size(Behind(s, m)) <= n
      BY <1>2, <2>1, <3>2
    <3>4. Paired(a, b, Before(s, m), g[Before(s, m)]) /\ Paired(a, b, Behind(s, m), g[Behind(s, m)])
      BY <3>2, <3>3
    <3>5. g[s] = m[3] + g[Before(s, m)] + g[Behind(s, m)]
      BY <1>1, <2>1, <3>1 DEF Step
    <3> HIDE DEF S
    <3> QED
      BY <3>4, <3>5, StepPairs
  <2> QED
    BY <1>3, <2>1
<1>6. S = Nat
  <2>1. S \in SUBSET Nat
    OBVIOUS
  <2> HIDE DEF S
  <2> QED
    BY <1>4, <1>5, <2>1, AllNaturals
<1> DEFINE whole == [alo |-> 1, ahi |-> Len(a), blo |-> 1, bhi |-> Len(b)]
<1>7. /\ Len(a) \in Nat /\ DOMAIN a = 1 .. Len(a) /\ Len(b) \in Nat /\ DOMAIN b = 1 .. Len(b)
      /\ whole \in Spans /\ Within(a, b, whole) = Common(a, b)
  BY DEF Spans, Within, Common
<1>8. Paired(a, b, whole, g[whole])
  <2> HIDE DEF whole
  <2>1. Size(whole) \in Nat /\ Size(whole) <= Size(whole)
    BY <1>2, <1>7
  <2> QED
    BY <1>6, <1>7, <2>1
<1> HIDE DEF whole
<1> QED
  BY <1>1, <1>7, <1>8 DEF Paired, whole

\* There are n numbers from 1 to n.
LEMMA NumbersUpTo ==
  ASSUME NEW n \in Nat
  PROVE  IsFiniteSet(1 .. n) /\ Cardinality(1 .. n) = n
<1>1. 1 \in Int /\ n \in Int
  OBVIOUS
<1>2. IsFiniteSet(1 .. n) /\ Cardinality(1 .. n) = IF 1 > n THEN 0 ELSE n - 1 + 1
  BY <1>1, FS_Interval
<1> QED
  BY <1>2

\* A line is paired at most once.
LEMMA PairsApart ==
  ASSUME NEW P, InOrder(P), NEW R, NEW S, P \in SUBSET (R \X S), R \in SUBSET Nat, S \in SUBSET Nat
  PROVE  /\ [p \in P |-> p[1]] \in Injection(P, R)
         /\ [p \in P |-> p[2]] \in Injection(P, S)
<1>1. \A p \in P : /\ p[1] \in R /\ p[2] \in S /\ p = <<p[1], p[2]>>
                   /\ p[1] \in Nat /\ p[2] \in Nat
  <2>1. TAKE p \in P
  <2>2. p \in R \X S
    OBVIOUS
  <2>3. p[1] \in R /\ p[2] \in S /\ p = <<p[1], p[2]>>
    BY <2>2
  <2> QED
    BY <2>3
<1>2. \A p, q \in P : (p[1] = q[1] \/ p[2] = q[2]) => p = q
  BY <1>1 DEF InOrder
<1> DEFINE f == [p \in P |-> p[1]]
           g == [p \in P |-> p[2]]
<1>3. f \in [P -> R] /\ g \in [P -> S]
  BY <1>1
<1>4. \A p, q \in P : (f[p] = f[q] => p = q) /\ (g[p] = g[q] => p = q)
  BY <1>2
<1> HIDE DEF f, g
<1>5. f \in Injection(P, R) /\ g \in Injection(P, S)
  <2>1. DOMAIN f = P /\ DOMAIN g = P
    BY <1>3
  <2> QED
    BY <1>3, <1>4, <2>1 DEF Injection, IsInjective
<1> QED
  BY <1>5 DEF f, g

\* There are no more pairs in order than lines on either side.
LEMMA PairsBounded ==
  ASSUME NEW m \in Nat, NEW n \in Nat, NEW P \in SUBSET ((1 .. m) \X (1 .. n)), InOrder(P)
  PROVE  /\ IsFiniteSet(P) /\ Cardinality(P) \in Nat
         /\ Cardinality(P) <= m /\ Cardinality(P) <= n
<1>1. /\ [p \in P |-> p[1]] \in Injection(P, 1 .. m)
      /\ [p \in P |-> p[2]] \in Injection(P, 1 .. n)
  <2>1. 1 .. m \in SUBSET Nat /\ 1 .. n \in SUBSET Nat
    OBVIOUS
  <2> QED
    BY <2>1, PairsApart
<1>2. /\ IsFiniteSet(1 .. m) /\ Cardinality(1 .. m) = m
      /\ IsFiniteSet(1 .. n) /\ Cardinality(1 .. n) = n
  BY NumbersUpTo
<1>3. IsFiniteSet(P) /\ Cardinality(P) <= m /\ Cardinality(P) <= n
  BY <1>1, <1>2, FS_Injection
<1> QED
  BY <1>3, FS_CardinalityType

\* As many pairs as lines pair each line with the one of its number.
LEMMA FullPairs ==
  ASSUME NEW n \in Nat, NEW P \in SUBSET ((1 .. n) \X (1 .. n)), InOrder(P), Cardinality(P) = n
  PROVE  \A k \in 1 .. n : <<k, k>> \in P
<1>1. /\ [p \in P |-> p[1]] \in Injection(P, 1 .. n)
      /\ [p \in P |-> p[2]] \in Injection(P, 1 .. n)
  <2>1. 1 .. n \in SUBSET Nat
    OBVIOUS
  <2> QED
    BY <2>1, PairsApart
<1>2. IsFiniteSet(P) /\ IsFiniteSet(1 .. n) /\ Cardinality(1 .. n) = n
  <2>1. IsFiniteSet(P)
    BY PairsBounded
  <2>2. IsFiniteSet(1 .. n) /\ Cardinality(1 .. n) = n
    BY NumbersUpTo
  <2> QED
    BY <2>1, <2>2
<1>3. /\ [p \in P |-> p[1]] \in Surjection(P, 1 .. n)
      /\ [p \in P |-> p[2]] \in Surjection(P, 1 .. n)
  BY <1>1, <1>2, FS_Injection
<1>4. /\ \A k \in 1 .. n : \E p \in P : p[1] = k
      /\ \A k \in 1 .. n : \E p \in P : p[2] = k
  BY <1>3 DEF Surjection
<1>5. \A p \in P : p[1] \in 1 .. n /\ p[2] \in 1 .. n /\ p = <<p[1], p[2]>>
  OBVIOUS
<1>6. ASSUME NEW p \in P
      PROVE  p[1] = p[2]
  <2> DEFINE Q == {q \in P : q[1] <= p[1]}
  <2>1. Q = {q \in P : q[2] <= p[2]}
    BY <1>5 DEF InOrder
  <2>2. Q \in SUBSET ((1 .. p[1]) \X (1 .. p[2])) /\ InOrder(Q)
    BY <1>5, <2>1 DEF InOrder
  <2>3. /\ [q \in Q |-> q[1]] \in Injection(Q, 1 .. p[1])
        /\ [q \in Q |-> q[2]] \in Injection(Q, 1 .. p[2])
    <3> HIDE DEF Q
    <3>1. 1 .. p[1] \in SUBSET Nat /\ 1 .. p[2] \in SUBSET Nat
      BY <1>5
    <3> QED
      BY <2>2, <3>1, PairsApart
  <2>4. \A k \in 1 .. p[1] : \E q \in Q : q[1] = k
    BY <1>4, <1>5
  <2>5. \A k \in 1 .. p[2] : \E q \in Q : q[2] = k
    BY <1>4, <1>5, <2>1
  <2> HIDE DEF Q
  <2>6. /\ [q \in Q |-> q[1]] \in Surjection(Q, 1 .. p[1])
        /\ [q \in Q |-> q[2]] \in Surjection(Q, 1 .. p[2])
    BY <2>3, <2>4, <2>5 DEF Surjection, Injection
  <2>7. /\ IsFiniteSet(1 .. p[1]) /\ Cardinality(1 .. p[1]) = p[1]
        /\ IsFiniteSet(1 .. p[2]) /\ Cardinality(1 .. p[2]) = p[2]
    <3>1. p[1] \in Nat /\ p[2] \in Nat
      BY <1>5
    <3> QED
      BY <3>1, NumbersUpTo
  <2> QED
    BY <2>3, <2>6, <2>7, FS_Injection
<1> QED
  BY <1>4, <1>5, <1>6

\* Traces that are not the same match in all their lines only if one is longer.
LEMMA MostThatMatch ==
  ASSUME NEW L, NEW a \in Seq(L), NEW b \in Seq(L)
  PROVE  /\ Matching(a, b) \in Nat
         /\ Matching(a, b) <= Len(a) /\ Matching(a, b) <= Len(b)
         /\ Matching(a, b) = Len(a) /\ Len(a) = Len(b) => a = b
<1>1. /\ Len(a) \in Nat /\ DOMAIN a = 1 .. Len(a) /\ Len(b) \in Nat /\ DOMAIN b = 1 .. Len(b)
  OBVIOUS
<1>2. PICK P \in SUBSET Common(a, b) : InOrder(P) /\ Cardinality(P) = Matching(a, b)
  BY MatchingIsSound
<1>3. P \in SUBSET ((1 .. Len(a)) \X (1 .. Len(b))) /\ \A p \in P : a[p[1]] = b[p[2]]
  BY <1>1, <1>2 DEF Common
<1>4. Cardinality(P) \in Nat /\ Cardinality(P) <= Len(a) /\ Cardinality(P) <= Len(b)
  BY <1>1, <1>2, <1>3, PairsBounded
<1>5. ASSUME Matching(a, b) = Len(a), Len(a) = Len(b)
      PROVE  a = b
  <2>1. \A k \in 1 .. Len(a) : <<k, k>> \in P
    BY <1>1, <1>2, <1>3, <1>5, FullPairs
  <2>2. \A k \in 1 .. Len(a) : a[k] = b[k]
    <3>1. TAKE k \in 1 .. Len(a)
    <3>2. <<k, k>> \in P
      BY <2>1
    <3> QED
      BY <1>3, <3>2
  <2> QED
    BY <1>5, <2>2, SeqEqual
<1> QED
  BY <1>2, <1>4, <1>5

-----------------------------------------------------------------------------
(* What grouping by similarity means                                       *)

\* Whatever line the frames of an occurrence may have.
AllLines ==
  (UNION {LinesOf(o.trace) : o \in Occurrences})
  \cup {<<"message", NormaliseLine(o.message)>> : o \in Occurrences}

\* The frames of an occurrence are a sequence of lines, and their last message
\* is that of the exception that escaped: none for a line of a log.
LEMMA FramesAreLines ==
  ASSUME OccurrenceAssumption, NEW o \in Occurrences
  PROVE  Frames[o] \in Seq(AllLines) /\ MessageOf(Frames[o]) = ExceptionMessage(o.trace)
<1>1. IsTrace(o.trace) /\ Frames[o] = FramesOf(o)
  BY DEF OccurrenceAssumption, IsTrace, Frames
<1>2. CASE o.trace = <<>>
  <2>1. Frames[o] = <<<<"message", NormaliseLine(o.message)>>>>
    BY <1>1, <1>2 DEF FramesOf
  <2>2. <<"message", NormaliseLine(o.message)>> \in AllLines
    BY DEF AllLines
  <2>3. \A l : <<"message", l>>[1] # "raised"
    OBVIOUS
  <2>4. ToldIn(Frames[o]) = {}
    BY <2>1, <2>3 DEF ToldIn
  <2>5. Told(o.trace) = {}
    BY <1>2 DEF Told, Raised
  <2> QED
    BY <2>1, <2>2, <2>4, <2>5 DEF MessageOf, ExceptionMessage
<1>3. CASE o.trace # <<>>
  <2>1. Frames[o] = NormaliseTrace(o.trace)
    BY <1>1, <1>3 DEF FramesOf
  <2>2. NormaliseTrace(o.trace) \in Seq(LinesOf(o.trace))
    <3>1. PICK f \in [0 .. Len(o.trace) -> Sofar(o.trace)] :
            NormaliseTrace(o.trace) = f[Len(o.trace)].kept
      BY <1>1, LoopRuns
    <3>2. Len(o.trace) \in Nat
      BY <1>1 DEF IsTrace
    <3> QED
      BY <3>1, <3>2 DEF Sofar
  <2>3. LinesOf(o.trace) \subseteq AllLines
    BY DEF AllLines
  <2>4. MessageOf(NormaliseTrace(o.trace)) = ExceptionMessage(o.trace)
    BY <1>1, MessageIsKept DEF OccurrenceAssumption
  <2>5. NormaliseTrace(o.trace) \in Seq(AllLines)
    BY <2>2, <2>3
  <2> QED
    BY <2>1, <2>4, <2>5
<1> QED
  BY <1>2, <1>3

\* The table of matches has what the matcher finds.
LEMMA MatchedIs ==
  ASSUME NEW o \in Occurrences, NEW p \in Occurrences
  PROVE  /\ <<Frames[o], Frames[p]>> \in AllFrames \X AllFrames
         /\ Matched[<<Frames[o], Frames[p]>>] = Matching(Frames[o], Frames[p])
<1>1. PICK a \in AllFrames, b \in AllFrames : a = Frames[o] /\ b = Frames[p]
  BY DEF AllFrames
<1>2. Matched[<<a, b>>] = Matching(a, b)
  BY DEF Matched
<1> QED
  BY <1>1, <1>2

\* No trace is less like itself than the threshold.
LEMMA ThresholdIsAShare ==
  ASSUME GroupingAssumption, NEW n \in Nat
  PROVE  20 * n >= Threshold * (n + n)
<1>1. Threshold \in {1, 2, 3, 4, 5, 6, 7, 8, 9, 10}
  BY DEF GroupingAssumption
<1> QED
  BY <1>1

\* Its lines are that many pairs in order.
LEMMA EachWithItself ==
  ASSUME NEW L, NEW a \in Seq(L)
  PROVE  \E P \in SUBSET Common(a, a) : InOrder(P) /\ Cardinality(P) = Len(a)
<1>1. PICK n \in Nat : n = Len(a)
  OBVIOUS
<1>2. PICK i \in Nat : i = 1
  OBVIOUS
<1> DEFINE P == {<<i + k, i + k>> : k \in 0 .. n - 1}
<1>3. Cardinality(P) = n /\ InOrder(P)
  BY BlockPairs
<1>4. P \in SUBSET Common(a, a)
  BY <1>1, <1>2 DEF Common
<1> QED
  BY <1>1, <1>3, <1>4

\* Frames that group share as many lines, in order, as the threshold asks for.
LEMMA GroupedIsNear ==
  ASSUME GroupingAssumption, OccurrenceAssumption, NEW o \in Occurrences, NEW p \in Occurrences,
         ShouldGroup(Frames[o], Frames[p])
  PROVE  <<Frames[o], Frames[p]>> \in NearPairs
<1>1. PICK a \in Seq(AllLines), b \in Seq(AllLines) : a = Frames[o] /\ b = Frames[p]
  BY FramesAreLines
<1>2. <<a, b>> \in AllFrames \X AllFrames /\ Matched[<<a, b>>] = Matching(a, b)
  BY <1>1, MatchedIs
<1>3. SUFFICES \E shared \in SUBSET Common(a, b) :
                 /\ 20 * Cardinality(shared) >= Threshold * (Len(a) + Len(b))
                 /\ InOrder(shared)
  BY <1>1, <1>2 DEF NearPairs
<1>4. CASE a = b
  <2>1. PICK P \in SUBSET Common(a, a) : InOrder(P) /\ Cardinality(P) = Len(a)
    BY EachWithItself
  <2>2. 20 * Len(a) >= Threshold * (Len(a) + Len(a))
    BY LenProperties, ThresholdIsAShare
  <2> QED
    BY <1>4, <2>1, <2>2
<1>5. CASE Alike(a, b, Threshold)
  <2>1. PICK P \in SUBSET Common(a, b) : InOrder(P) /\ Cardinality(P) = Matching(a, b)
    BY MatchingIsSound
  <2> QED
    BY <1>2, <1>5, <2>1 DEF Alike
<1>6. a = b \/ Alike(a, b, Threshold)
  BY <1>1 DEF ShouldGroup
<1> QED
  BY <1>4, <1>5, <1>6

\* Shallow frames group only if they are the same.
LEMMA ShallowGroupsExactly ==
  ASSUME GroupingAssumption, OccurrenceAssumption, NEW o \in Occurrences, NEW p \in Occurrences,
         ShouldGroup(Frames[o], Frames[p]), Shallow(Frames[o], Frames[p])
  PROVE  Frames[o] = Frames[p]
<1>1. PICK a \in Seq(AllLines), b \in Seq(AllLines) : a = Frames[o] /\ b = Frames[p]
  BY FramesAreLines
<1>2. Matched[<<a, b>>] = Matching(a, b)
  BY <1>1, MatchedIs
<1>3. SUFFICES ASSUME a # b
               PROVE  FALSE
  BY <1>1
<1>4. 20 * Matching(a, b) >= Threshold * (Len(a) + Len(b))
  BY <1>1, <1>2, <1>3 DEF ShouldGroup, Alike
<1>5. /\ Matching(a, b) \in Nat
      /\ Matching(a, b) <= Len(a) /\ Matching(a, b) <= Len(b)
      /\ ~ (Matching(a, b) = Len(a) /\ Len(a) = Len(b))
  BY <1>3, MostThatMatch
<1> DEFINE most == IF Len(a) = Len(b) THEN Len(a) - 1
                   ELSE IF Len(a) < Len(b) THEN Len(a) ELSE Len(b)
           needed == Threshold * (Len(a) + Len(b))
<1>6. 20 * most < needed
  BY <1>1 DEF Shallow
<1>7. Matching(a, b) <= most /\ most \in Int
  BY <1>5, LenProperties
<1>8. needed \in Int
  BY LenProperties DEF GroupingAssumption
<1> HIDE DEF most, needed
<1> QED
  BY <1>4, <1>5, <1>6, <1>7, <1>8 DEF needed

-----------------------------------------------------------------------------
(* The issues                                                              *)

\* The row of an issue and what has been filed under it.
Issue == [fingerprint: {Prints[o] : o \in Occurrences},
          service: {o.service : o \in Occurrences},
          class: {ClassOf(o) : o \in Occurrences},
          frames: AllFrames,
          status: {"new", "fixed", "regressed", "muted"},
          seen: Nat,
          filed: Seq(Occurrences)]

\* Occurrence o belongs with occurrence first: it has its fingerprint, or its
\* frames group with the frames of first.
BelongsWith(o, first) ==
  \/ Prints[o] = Prints[first]
  \/ ShouldGroup(Frames[o], Frames[first])

\* An issue is what its first occurrence made it, and whatever was filed there
\* belongs with that one.
FiledWithFirst(issue) ==
  /\ issue.filed # <<>>
  /\ issue.fingerprint = Prints[Head(issue.filed)]
  /\ issue.frames = Frames[Head(issue.filed)]
  /\ \A n \in DOMAIN issue.filed : BelongsWith(issue.filed[n], Head(issue.filed))

\* Every issue is such a row.
IssuesAreRows == issues \in Seq(Issue) /\ arrivals \in Nat

\* What is filed belongs with the first one.
FilesAreKept == \A i \in DOMAIN issues : FiledWithFirst(issues[i])

\* A fingerprint has one issue.
OnePerFingerprint ==
  \A i, j \in DOMAIN issues :
    i # j => issues[i].fingerprint # issues[j].fingerprint

\* The inductive invariant of the tracker.
TrackerInv == IssuesAreRows /\ FilesAreKept /\ OnePerFingerprint

-----------------------------------------------------------------------------
(* One occurrence more                                                     *)

\* The row a first occurrence opens.
Opened(o) ==
  [fingerprint |-> Prints[o], service |-> o.service, class |-> ClassOf(o),
   frames |-> Frames[o], status |-> "new", seen |-> arrivals, filed |-> <<o>>]

\* It is an issue of that one occurrence.
LEMMA OpenedFiled ==
  ASSUME NEW o \in Occurrences, arrivals \in Nat
  PROVE  Opened(o) \in Issue /\ FiledWithFirst(Opened(o))
<1>1. <<o>> \in Seq(Occurrences) /\ <<o>> # <<>> /\ Head(<<o>>) = o
      /\ \A n \in DOMAIN <<o>> : <<o>>[n] = o
  OBVIOUS
<1>2. Frames[o] \in AllFrames
  BY DEF AllFrames
<1>3. Opened(o) \in Issue
  BY <1>1, <1>2 DEF Opened, Issue
<1>4. Opened(o).filed = <<o>> /\ Opened(o).fingerprint = Prints[o] /\ Opened(o).frames = Frames[o]
  BY DEF Opened
<1>5. FiledWithFirst(Opened(o))
  BY <1>1, <1>4 DEF FiledWithFirst, BelongsWith
<1> QED
  BY <1>3, <1>5

\* What is filed under an issue that has its fingerprint or groups with its
\* frames belongs with its first occurrence.
LEMMA FiledMore ==
  ASSUME NEW r \in Issue, FiledWithFirst(r), NEW o \in Occurrences,
         Prints[o] = r.fingerprint \/ ShouldGroup(Frames[o], r.frames),
         NEW s \in Issue, s.filed = Append(r.filed, o),
         s.fingerprint = r.fingerprint, s.frames = r.frames
  PROVE  FiledWithFirst(s)
<1>1. r.filed \in Seq(Occurrences) /\ r.filed # <<>>
  BY DEF Issue, FiledWithFirst
<1>2. /\ Append(r.filed, o) # <<>> /\ Head(Append(r.filed, o)) = Head(r.filed)
      /\ \A n \in DOMAIN Append(r.filed, o) :
           \/ Append(r.filed, o)[n] = o
           \/ n \in DOMAIN r.filed /\ Append(r.filed, o)[n] = r.filed[n]
  BY <1>1
<1>3. BelongsWith(o, Head(r.filed))
  BY DEF FiledWithFirst, BelongsWith
<1>4. \A n \in DOMAIN s.filed : BelongsWith(s.filed[n], Head(s.filed))
  BY <1>2, <1>3 DEF FiledWithFirst
<1> QED
  BY <1>2, <1>4 DEF FiledWithFirst

\* An issue that is opened has a fingerprint no other has.
LEMMA OpenKeeps ==
  ASSUME TrackerInv, NEW o \in Occurrences, Open(o), arrivals' = arrivals + 1
  PROVE  TrackerInv'
<1>1. issues \in Seq(Issue) /\ arrivals \in Nat
  BY DEF TrackerInv, IssuesAreRows
<1>2. issues' = Append(issues, Opened(o)) /\ Exact(o) = {}
  BY DEF Open, Opened, FindIssue
<1>3. Opened(o) \in Issue /\ FiledWithFirst(Opened(o)) /\ Opened(o).fingerprint = Prints[o]
  BY <1>1, OpenedFiled DEF Opened
<1>4. PICK S, T, r : S = issues /\ T = issues' /\ r = Opened(o)
  OBVIOUS
<1>5. /\ S \in Seq(Issue) /\ r \in Issue /\ T = Append(S, r)
      /\ \A i \in DOMAIN S : FiledWithFirst(S[i]) /\ S[i].fingerprint # r.fingerprint
      /\ FiledWithFirst(r)
      /\ \A i, j \in DOMAIN S : i # j => S[i].fingerprint # S[j].fingerprint
  <2>1. \A i \in DOMAIN issues : issues[i].fingerprint # Prints[o]
    BY <1>2 DEF Exact
  <2> QED
    BY <1>1, <1>2, <1>3, <1>4, <2>1 DEF TrackerInv, FilesAreKept, OnePerFingerprint
<1>6. /\ T \in Seq(Issue)
      /\ \A i \in DOMAIN T : (i \in DOMAIN S /\ T[i] = S[i]) \/ (i \notin DOMAIN S /\ T[i] = r)
      /\ \A i, j \in DOMAIN T : i \notin DOMAIN S /\ j \notin DOMAIN S => i = j
  <2>1. /\ T \in Seq(Issue) /\ Len(T) = Len(S) + 1 /\ Len(S) \in Nat
        /\ DOMAIN T = 1 .. Len(S) + 1 /\ DOMAIN S = 1 .. Len(S)
        /\ T[Len(S) + 1] = r /\ \A i \in 1 .. Len(S) : T[i] = S[i]
    BY <1>5, AppendProperties, LenProperties
  <2>2. \A i \in DOMAIN T : i \in DOMAIN S \/ i = Len(S) + 1
    BY <2>1
  <2>3. Len(S) + 1 \notin DOMAIN S
    BY <2>1
  <2>4. ASSUME NEW i \in DOMAIN T
        PROVE  (i \in DOMAIN S /\ T[i] = S[i]) \/ (i \notin DOMAIN S /\ T[i] = r)
    BY <2>1, <2>2, <2>3
  <2>5. ASSUME NEW i \in DOMAIN T, NEW j \in DOMAIN T, i \notin DOMAIN S, j \notin DOMAIN S
        PROVE  i = j
    BY <2>2, <2>5
  <2> QED
    BY <2>1, <2>4, <2>5
<1>7. \A i \in DOMAIN T : FiledWithFirst(T[i])
  BY <1>5, <1>6
<1>8. \A i, j \in DOMAIN T : i # j => T[i].fingerprint # T[j].fingerprint
  BY <1>5, <1>6
<1>9. arrivals' \in Nat
  BY <1>1
<1> QED
  BY <1>4, <1>6, <1>7, <1>8, <1>9
  DEF TrackerInv, IssuesAreRows, FilesAreKept, OnePerFingerprint

\* A row of the tracker replaced by one that keeps its fingerprint.
LEMMA ReplaceKeeps ==
  ASSUME TrackerInv, NEW i \in DOMAIN issues, NEW s \in Issue,
         issues' = [issues EXCEPT ![i] = s], arrivals' \in Nat,
         FiledWithFirst(s), s.fingerprint = issues[i].fingerprint
  PROVE  TrackerInv'
<1>1. PICK S, T : S = issues /\ T = issues'
  OBVIOUS
<1>2. S \in Seq(Issue) /\ i \in DOMAIN S /\ T = [S EXCEPT ![i] = s]
  BY <1>1 DEF TrackerInv, IssuesAreRows
<1>3. /\ T \in Seq(Issue) /\ DOMAIN T = DOMAIN S
      /\ T[i] = s /\ \A j \in DOMAIN S \ {i} : T[j] = S[j]
  BY <1>2, ExceptSeq
<1>4. /\ \A j \in DOMAIN S : FiledWithFirst(S[j])
      /\ \A j, k \in DOMAIN S : j # k => S[j].fingerprint # S[k].fingerprint
      /\ s.fingerprint = S[i].fingerprint
  BY <1>1 DEF TrackerInv, FilesAreKept, OnePerFingerprint
<1>5. \A j \in DOMAIN T : FiledWithFirst(T[j]) /\ T[j].fingerprint = S[j].fingerprint
  BY <1>3, <1>4
<1>6. \A j, k \in DOMAIN T : j # k => T[j].fingerprint # T[k].fingerprint
  BY <1>3, <1>4, <1>5
<1> QED
  BY <1>1, <1>3, <1>5, <1>6 DEF TrackerInv, IssuesAreRows, FilesAreKept, OnePerFingerprint

\* The issue that is found has the fingerprint, or groups with the frames.
LEMMA FoundBelongs ==
  ASSUME NEW o \in Occurrences, NEW i \in FindIssue(o)
  PROVE  /\ i \in DOMAIN issues
         /\ Prints[o] = issues[i].fingerprint \/ ShouldGroup(Frames[o], issues[i].frames)
<1>1. CASE Exact(o) # {}
  BY <1>1 DEF FindIssue, Exact
<1>2. CASE Exact(o) = {}
  <2>1. i \in Similar(o)
    BY <1>2 DEF FindIssue
  <2>2. i \in CandidatesFor(o) /\ ShouldGroup(Frames[o], issues[i].frames)
    BY <2>1, Zenon DEF Similar
  <2> QED
    BY <2>2 DEF CandidatesFor
<1> QED
  BY <1>1, <1>2

\* An occurrence that joins an issue belongs with its first one.
LEMMA JoinKeeps ==
  ASSUME TrackerInv, NEW o \in Occurrences, Join(o), arrivals' = arrivals + 1
  PROVE  TrackerInv'
<1>1. PICK i \in FindIssue(o) :
        issues' = [issues EXCEPT ![i].seen = arrivals,
                                 ![i].status = IF @ = "fixed" THEN "regressed" ELSE @,
                                 ![i].frames = issues[i].frames,
                                 ![i].filed = Append(@, o)]
  BY DEF Join, FramesAfter
<1>2. /\ i \in DOMAIN issues
      /\ Prints[o] = issues[i].fingerprint \/ ShouldGroup(Frames[o], issues[i].frames)
  BY FoundBelongs
<1>3. /\ issues \in Seq(Issue) /\ arrivals \in Nat /\ FiledWithFirst(issues[i])
  BY <1>2 DEF TrackerInv, IssuesAreRows, FilesAreKept
<1>4. PICK r \in Issue : r = issues[i]
  BY <1>2, <1>3, ElementOfSeq
<1>5. PICK s :
        s = [r EXCEPT !.seen = arrivals,
                      !.status = IF @ = "fixed" THEN "regressed" ELSE @,
                      !.frames = r.frames,
                      !.filed = Append(@, o)]
  OBVIOUS
<1>6. issues' = [issues EXCEPT ![i] = s]
  BY <1>1, <1>3, <1>4, <1>5
<1>7. Append(r.filed, o) \in Seq(Occurrences)
  BY DEF Issue
<1>8. /\ s \in Issue /\ s.filed = Append(r.filed, o)
      /\ s.fingerprint = r.fingerprint /\ s.frames = r.frames
  BY <1>3, <1>5, <1>7 DEF Issue
<1>9. FiledWithFirst(s)
  BY <1>2, <1>3, <1>4, <1>8, FiledMore
<1>10. arrivals' \in Nat
  BY <1>3
<1> QED
  BY <1>2, <1>4, <1>6, <1>8, <1>9, <1>10, ReplaceKeeps

\* An edit changes a status.
LEMMA StatusKeeps ==
  ASSUME TrackerInv, NEW i \in DOMAIN issues, NEW status \in {"new", "fixed", "muted"},
         SetStatus(i, status)
  PROVE  TrackerInv'
<1>1. /\ issues \in Seq(Issue) /\ arrivals \in Nat /\ FiledWithFirst(issues[i])
  BY DEF TrackerInv, IssuesAreRows, FilesAreKept
<1>2. PICK r \in Issue : r = issues[i]
  BY <1>1, ElementOfSeq
<1>3. PICK s : s = [r EXCEPT !.status = status]
  OBVIOUS
<1>4. issues' = [issues EXCEPT ![i] = s] /\ arrivals' = arrivals
  BY <1>2, <1>3 DEF SetStatus
<1>5. /\ s \in Issue /\ s.filed = r.filed
      /\ s.fingerprint = r.fingerprint /\ s.frames = r.frames
  BY <1>3 DEF Issue
<1>6. FiledWithFirst(s)
  BY <1>1, <1>2, <1>5 DEF FiledWithFirst
<1> QED
  BY <1>1, <1>2, <1>4, <1>5, <1>6, ReplaceKeeps

\* The tracker keeps its invariant.
LEMMA TrackerStays == Spec => []TrackerInv
<1>1. Init => TrackerInv
  BY DEF Init, TrackerInv, IssuesAreRows, FilesAreKept, OnePerFingerprint
<1>2. TrackerInv /\ [Next]_vars => TrackerInv'
  <2> SUFFICES ASSUME TrackerInv, [Next]_vars
               PROVE  TrackerInv'
    OBVIOUS
  <2>1. CASE \E o \in Occurrences : Record(o)
    <3>1. PICK o \in Occurrences : Record(o)
      BY <2>1
    <3>2. (Open(o) \/ Join(o)) /\ arrivals' = arrivals + 1
      BY <3>1 DEF Record
    <3> QED
      BY <3>2, OpenKeeps, JoinKeeps
  <2>2. CASE \E i \in DOMAIN issues, status \in {"new", "fixed", "muted"} : SetStatus(i, status)
    BY <2>2, StatusKeeps
  <2>3. CASE UNCHANGED vars
    BY <2>3 DEF vars, TrackerInv, IssuesAreRows, FilesAreKept, OnePerFingerprint
  <2> QED
    BY <2>1, <2>2, <2>3 DEF Next
<1> QED
  BY <1>1, <1>2, PTL DEF Spec

-----------------------------------------------------------------------------
(* What find_issue() promises                                              *)

\* A fingerprint opens one issue: an occurrence that carries the fingerprint
\* of an issue never opens another, whatever has become of that issue and
\* however many others are nearer to it (find_issue looks for the fingerprint
\* first, and among issues of every status).
THEOREM FingerprintOpensOnce == Spec => []OnePerFingerprint
BY TrackerStays, PTL DEF TrackerInv

\* No drift along a chain: all that is filed under an issue has the
\* fingerprint of its first occurrence or groups with the frames of that one,
\* never only with those of a later one.
THEOREM FiledBesideFirst == Spec => []FilesAreKept
BY TrackerStays, PTL DEF TrackerInv

\* What is filed under an issue, beside its first occurrence.
LEMMA FiledThere ==
  ASSUME TrackerInv, NEW i \in DOMAIN issues, NEW n \in DOMAIN issues[i].filed
  PROVE  /\ Head(issues[i].filed) \in Occurrences /\ issues[i].filed[n] \in Occurrences
         /\ BelongsWith(issues[i].filed[n], Head(issues[i].filed))
<1>1. issues[i] \in Issue /\ FiledWithFirst(issues[i])
  BY ElementOfSeq DEF TrackerInv, IssuesAreRows, FilesAreKept
<1> QED
  BY <1>1 DEF Issue, FiledWithFirst

\* "Two tracebacks that differ only in a uuid, an id, a timestamp, a memory
\* address or a checkout path are one issue" (README.md), of checkouts with the
\* same anchor: whatever arrives, in whatever order, and whatever is fixed or muted in between, a bug never
\* opens two issues, for normalise_trace gives all that is left of its
\* occurrences one fingerprint.
THEOREM OneIssuePerBug == Spec => []OneBugOpensOneIssue
<1>1. TrackerInv => OneBugOpensOneIssue
  <2> SUFFICES ASSUME TrackerInv, NEW i \in DOMAIN issues, NEW j \in DOMAIN issues, i # j
               PROVE  Head(issues[i].filed).bug # Head(issues[j].filed).bug
    BY DEF OneBugOpensOneIssue
  <2>1. issues \in Seq(Issue)
    BY DEF TrackerInv, IssuesAreRows
  <2>2. \A k \in DOMAIN issues :
          /\ Head(issues[k].filed) \in Occurrences
          /\ issues[k].fingerprint = Prints[Head(issues[k].filed)]
    <3>1. TAKE k \in DOMAIN issues
    <3>2. issues[k] \in Issue /\ FiledWithFirst(issues[k])
      BY <2>1, ElementOfSeq DEF TrackerInv, FilesAreKept
    <3> QED
      BY <3>2 DEF Issue, FiledWithFirst
  <2>3. issues[i].fingerprint # issues[j].fingerprint
    BY DEF TrackerInv, OnePerFingerprint
  <2> QED
    BY <2>2, <2>3, OccurrenceAssumption, SamePrints
<1> QED
  BY <1>1, TrackerStays, PTL

\* "A near-duplicate scoring >= 0.9 over normalised frames joins the existing
\* issue" (CHANGELOG.md): along any chain of near-duplicates, what is filed
\* under an issue shares that many lines, in order, with its first occurrence,
\* or has its fingerprint.
THEOREM DriftsNowhere == Spec => []NoDrift
<1>1. TrackerInv => NoDrift
  <2> SUFFICES ASSUME TrackerInv, NEW i \in DOMAIN issues, NEW n \in DOMAIN issues[i].filed
               PROVE  \/ Prints[issues[i].filed[n]] = Prints[Head(issues[i].filed)]
                      \/ <<Frames[issues[i].filed[n]], Frames[Head(issues[i].filed)]>> \in NearPairs
    BY DEF NoDrift
  <2> QED
    BY FiledThere, GroupedIsNear, GroupingAssumption, OccurrenceAssumption DEF BelongsWith
<1> QED
  BY <1>1, TrackerStays, PTL

\* "The case that must not group - a different constraint on the same table,
\* from the same frames" (README.md): where one line that differs is more than the
\* threshold lets pass, an occurrence whose exception has another message than
\* the one the issue was opened by is never filed there.
THEOREM OtherMessageStaysApart == Spec => []OtherMessageOtherIssue
<1>1. TrackerInv => OtherMessageOtherIssue
  <2> SUFFICES ASSUME TrackerInv, NEW i \in DOMAIN issues, NEW n \in DOMAIN issues[i].filed,
                      Shallow(Frames[issues[i].filed[n]], Frames[Head(issues[i].filed)]),
                      SubjectOf(Head(issues[i].filed)) # SubjectOf(issues[i].filed[n]),
                      ExceptionMessage(Head(issues[i].filed).trace)
                        # ExceptionMessage(issues[i].filed[n].trace)
               PROVE  FALSE
    BY Zenon DEF OtherMessageOtherIssue
  <2>1. PICK o \in Occurrences, first \in Occurrences :
          /\ o = issues[i].filed[n] /\ first = Head(issues[i].filed)
          /\ BelongsWith(o, first)
    BY FiledThere
  <2>2. CASE Prints[o] = Prints[first]
    <3>1. Fingerprint(o) = Fingerprint(first)
      BY <2>2 DEF Prints
    <3>2. SubjectOf(o) = SubjectOf(first)
      BY <3>1 DEF Fingerprint
    <3> QED
      BY <2>1, <3>2
  <2>3. CASE ShouldGroup(Frames[o], Frames[first])
    <3>1. Frames[o] = Frames[first]
      BY <2>1, <2>3, ShallowGroupsExactly, GroupingAssumption, OccurrenceAssumption
    <3>2. ExceptionMessage(o.trace) = ExceptionMessage(first.trace)
      BY <3>1, FramesAreLines, OccurrenceAssumption
    <3> QED
      BY <2>1, <3>2
  <2> QED
    BY <2>1, <2>2, <2>3 DEF BelongsWith
<1> QED
  BY <1>1, TrackerStays, PTL

=============================================================================
