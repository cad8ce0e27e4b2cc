---------------------------- MODULE Capture_proofs ----------------------------
(***************************************************************************)
(* Theorems about capture() and its rate limiter for every set of threads, *)
(* every limit, every window and every bound.                              *)
(***************************************************************************)
EXTENDS Capture, FiniteSetTheorems, TLAPS

-----------------------------------------------------------------------------
(* Types                                                                   *)

Checking == [at: {"check"}, of: Fingerprints, read: Nat]
Sending == [at: {"send"}, of: Fingerprints, n: Nat \ {0}]
Tally == [captured: Nat, told: Nat, lost: Nat, sent: Nat]

\* A thread in check() or in send() has an occurrence in hand.
LEMMA ThreadTyped ==
  ASSUME TypeOK, NEW t \in Threads
  PROVE  /\ thread[t].at = "check" => thread[t] \in Checking
         /\ thread[t].at = "send" => thread[t] \in Sending
         /\ thread[t] = Idle \/ thread[t] \in Checking \/ thread[t] \in Sending
         /\ thread[t] # Idle => thread[t].at \in {"check", "send"}
<1>1. thread[t] \in {Idle} \cup Checking \cup Sending
  BY DEF TypeOK, Checking, Sending
<1>2. CASE thread[t] = Idle
  BY <1>2 DEF Idle
<1>3. CASE thread[t] \in Checking
  BY <1>3 DEF Checking, Idle
<1>4. CASE thread[t] \in Sending
  BY <1>4 DEF Sending, Idle
<1> QED
  BY <1>1, <1>2, <1>3, <1>4

\* What is held back is a count.
LEMMA CarriedTyped ==
  ASSUME TypeOK, NEW f \in Fingerprints
  PROVE  Carried(f) \in Nat
BY DEF TypeOK, Carried, Windows

\* What a thread has in hand is a count.
LEMMA InHandTyped ==
  ASSUME TypeOK, NEW t \in Threads, NEW f
  PROVE  InHand(t, f) \in Nat
BY ThreadTyped DEF InHand, Checking, Sending

-----------------------------------------------------------------------------
(* Counting what threads have in hand                                      *)

\* Two sets with nothing in common hold what each of them holds.
LEMMA Disjoint ==
  ASSUME NEW S, NEW T, IsFiniteSet(S), IsFiniteSet(T), S \cap T = {}
  PROVE  Cardinality(S \cup T) = Cardinality(S) + Cardinality(T)
<1>1. Cardinality(S \cup T) = Cardinality(S) + Cardinality(T) - Cardinality(S \cap T)
  BY FS_Union
<1>2. Cardinality(S) \in Nat /\ Cardinality(T) \in Nat
  BY FS_CardinalityType
<1>3. Cardinality(S \cap T) = 0
  BY FS_EmptySet
<1> QED
  BY <1>1, <1>2, <1>3

\* One element for each of g[s] occurrences of every s: Carrying, for any g.
Units(g, S) == UNION {{s} \X (1 .. g[s]) : s \in S}

\* There are as many units of one s as g[s].
LEMMA UnitsOfOne ==
  ASSUME NEW g, NEW s, g[s] \in Nat
  PROVE  /\ IsFiniteSet({s} \X (1 .. g[s]))
         /\ Cardinality({s} \X (1 .. g[s])) = g[s]
<1>1. IsFiniteSet(1 .. g[s]) /\ Cardinality(1 .. g[s]) = g[s]
  BY FS_Interval
<1>2. IsFiniteSet({s}) /\ Cardinality({s}) = 1
  BY FS_Singleton
<1>3. /\ IsFiniteSet({s} \X (1 .. g[s]))
      /\ Cardinality({s} \X (1 .. g[s])) = Cardinality({s}) * Cardinality(1 .. g[s])
  BY <1>1, <1>2, FS_Product
<1> QED
  BY <1>1, <1>2, <1>3

\* The units of a finite set can be counted.
LEMMA UnitsFinite ==
  ASSUME NEW S, IsFiniteSet(S), NEW g, \A s \in S : g[s] \in Nat
  PROVE  IsFiniteSet(Units(g, S)) /\ Cardinality(Units(g, S)) \in Nat
<1> DEFINE T == {{s} \X (1 .. g[s]) : s \in S}
<1>1. IsFiniteSet(T)
  <2> DEFINE h == [s \in S |-> {s} \X (1 .. g[s])]
  <2>1. h \in Surjection(S, T)
    BY DEF Surjection
  <2> QED
    BY <2>1, FS_Surjection
<1>2. \A H \in T : IsFiniteSet(H)
  BY UnitsOfOne
<1> HIDE DEF T
<1>3. IsFiniteSet(UNION T)
  BY <1>1, <1>2, FS_UNION
<1> QED
  BY <1>3, FS_CardinalityType DEF Units, T

\* The units are those of one element and those of the others.
LEMMA OneAndTheOthers ==
  ASSUME NEW S, IsFiniteSet(S), NEW g, \A s \in S : g[s] \in Nat, NEW t \in S
  PROVE  /\ Cardinality(Units(g, S)) = g[t] + Cardinality(Units(g, S \ {t}))
         /\ Cardinality(Units(g, S \ {t})) \in Nat
<1> DEFINE mine == {t} \X (1 .. g[t])
           theirs == Units(g, S \ {t})
<1>1. Units(g, S) = mine \cup theirs
  BY DEF Units
<1>2. mine \cap theirs = {}
  BY DEF Units
<1>3. IsFiniteSet(theirs) /\ Cardinality(theirs) \in Nat
  <2>1. IsFiniteSet(S \ {t})
    BY FS_RemoveElement
  <2> QED
    BY <2>1, UnitsFinite
<1>4. IsFiniteSet(mine) /\ Cardinality(mine) = g[t]
  BY UnitsOfOne
<1>5. Cardinality(mine \cup theirs) = Cardinality(mine) + Cardinality(theirs)
  BY <1>2, <1>3, <1>4, Disjoint
<1> QED
  BY <1>1, <1>3, <1>4, <1>5

\* When one count changes, the units change by as much.
LEMMA OneCountChanges ==
  ASSUME NEW S, IsFiniteSet(S), NEW g, \A s \in S : g[s] \in Nat,
         NEW h, \A s \in S : h[s] \in Nat,
         NEW t \in S, \A s \in S \ {t} : h[s] = g[s]
  PROVE  /\ Cardinality(Units(h, S)) + g[t] = Cardinality(Units(g, S)) + h[t]
         /\ Cardinality(Units(g, S)) \in Nat
         /\ Cardinality(Units(h, S)) \in Nat
<1>1. Units(h, S \ {t}) = Units(g, S \ {t})
  BY DEF Units
<1>2. /\ Cardinality(Units(g, S)) = g[t] + Cardinality(Units(g, S \ {t}))
      /\ Cardinality(Units(g, S \ {t})) \in Nat
  BY OneAndTheOthers
<1>3. Cardinality(Units(h, S)) = h[t] + Cardinality(Units(h, S \ {t}))
  BY OneAndTheOthers
<1> QED
  BY <1>1, <1>2, <1>3

\* What threads have in hand, as units.
Hands(f) == [t \in Threads |-> InHand(t, f)]

\* What is in flight is the units threads have in hand.
LEMMA InFlightUnits ==
  ASSUME NEW f
  PROVE  InFlight(f) = Cardinality(Units(Hands(f), Threads))
<1>1. Carrying(f, Threads) = Units(Hands(f), Threads)
  BY DEF Carrying, Units, Hands
<1> QED
  BY <1>1 DEF InFlight

\* A thread goes on, and only it: what is in flight changes by what it has.
LEMMA ThreadMoves ==
  ASSUME TypeOK, NEW t \in Threads, NEW v, thread' = [thread EXCEPT ![t] = v],
         NEW f, InHand(t, f)' \in Nat
  PROVE  /\ InFlight(f)' + InHand(t, f) = InFlight(f) + InHand(t, f)'
         /\ InFlight(f) \in Nat /\ InFlight(f)' \in Nat
         /\ InHand(t, f) \in Nat
<1>1. \A s \in Threads : Hands(f)[s] \in Nat
  BY InHandTyped DEF Hands
<1>2. \A s \in Threads \ {t} : Hands(f)'[s] = Hands(f)[s]
  BY DEF TypeOK, Hands, InHand
<1>3. Hands(f)'[t] = InHand(t, f)' /\ Hands(f)[t] = InHand(t, f)
  BY DEF Hands
<1>4. \A s \in Threads : Hands(f)'[s] \in Nat
  BY <1>1, <1>2, <1>3
<1>5. /\ Cardinality(Units(Hands(f)', Threads)) + Hands(f)[t]
         = Cardinality(Units(Hands(f), Threads)) + Hands(f)'[t]
      /\ Cardinality(Units(Hands(f), Threads)) \in Nat
      /\ Cardinality(Units(Hands(f)', Threads)) \in Nat
  BY <1>1, <1>2, <1>4, CaptureAssumption, OneCountChanges
<1>6. InFlight(f) = Cardinality(Units(Hands(f), Threads))
  BY InFlightUnits
<1>7. Carrying(f, Threads)' = Units(Hands(f)', Threads)
  BY DEF Carrying, Units, Hands
<1>8. InFlight(f)' = Cardinality(Units(Hands(f)', Threads))
  BY <1>7 DEF InFlight
<1> QED
  BY <1>1, <1>3, <1>5, <1>6, <1>8

\* What is in flight is a count.
LEMMA InFlightTyped ==
  ASSUME TypeOK, NEW f
  PROVE  InFlight(f) \in Nat
<1>1. \A s \in Threads : Hands(f)[s] \in Nat
  BY InHandTyped DEF Hands
<1> QED
  BY <1>1, CaptureAssumption, UnitsFinite, InFlightUnits

\* When no thread has anything in hand, nothing is in flight.
LEMMA NoneInFlight ==
  ASSUME thread = [t \in Threads |-> Idle], NEW f
  PROVE  InFlight(f) = 0
<1>1. \A t \in Threads : InHand(t, f) = 0
  BY DEF InHand
<1>2. Carrying(f, Threads) = {}
  BY <1>1 DEF Carrying
<1> QED
  BY <1>2, FS_EmptySet DEF InFlight

-----------------------------------------------------------------------------
(* Type correctness                                                        *)

\* Every count of a tally that goes up leaves a tally.
LEMMA Tallied ==
  ASSUME NEW r \in Tally, NEW n \in Nat
  PROVE  /\ [r EXCEPT !.captured = @ + n] \in Tally
         /\ [r EXCEPT !.told = @ + n] \in Tally
         /\ [r EXCEPT !.lost = @ + n] \in Tally
         /\ [r EXCEPT !.sent = @ + n] \in Tally
<1>1. /\ r.captured + n \in Nat /\ r.told + n \in Nat
      /\ r.lost + n \in Nat /\ r.sent + n \in Nat
  BY DEF Tally
<1>2. [r EXCEPT !.captured = @ + n] \in Tally
  BY <1>1, Zenon DEF Tally
<1>3. [r EXCEPT !.told = @ + n] \in Tally
  BY <1>1, Zenon DEF Tally
<1>4. [r EXCEPT !.lost = @ + n] \in Tally
  BY <1>1, Zenon DEF Tally
<1>5. [r EXCEPT !.sent = @ + n] \in Tally
  BY <1>1, Zenon DEF Tally
<1> QED
  BY <1>2, <1>3, <1>4, <1>5

\* The parts of a well-typed state, each with its name.
LEMMA Parts ==
  TypeOK <=>
    /\ now \in 0 .. MaxTime
    /\ state \in [Fingerprints -> Windows \cup {Unseen}]
    /\ thread \in [Threads -> {Idle} \cup Checking \cup Sending]
    /\ tally \in [Fingerprints -> Tally]
    /\ restarts \in 0 .. MaxRestarts
BY DEF TypeOK, Checking, Sending, Tally

\* A process that has just started is well typed.
LEMMA InitTyped == Init => TypeOK
<1> SUFFICES ASSUME Init PROVE TypeOK
  OBVIOUS
<1>1. [captured |-> 0, told |-> 0, lost |-> 0, sent |-> 0] \in Tally
  BY DEF Tally
<1>2. tally \in [Fingerprints -> Tally]
  BY <1>1 DEF Init
<1> QED
  BY <1>2, CaptureAssumption, Parts DEF Init

\* Capturing an occurrence leaves everything well typed.
LEMMA CapturedTyped ==
  ASSUME TypeOK, NEW t \in Threads, NEW f \in Fingerprints, Captured(t, f)
  PROVE  TypeOK'
<1>1. [at |-> "check", of |-> f, read |-> now] \in Checking
  BY Parts DEF Checking
<1>2. thread' \in [Threads -> {Idle} \cup Checking \cup Sending]
  BY <1>1, Parts DEF Captured
<1>3. tally[f] \in Tally
  BY Parts
<1>4. [tally[f] EXCEPT !.captured = @ + 1] \in Tally
  BY <1>3, Tallied
<1>5. tally' = [tally EXCEPT ![f] = [tally[f] EXCEPT !.captured = @ + 1]]
  BY DEF Captured
<1>6. tally' \in [Fingerprints -> Tally]
  BY <1>4, <1>5, Parts
<1> QED
  BY <1>2, <1>6 DEF TypeOK, Captured, Checking, Sending, Tally

\* Letting an event through leaves everything well typed.
LEMMA AllowTyped ==
  ASSUME TypeOK, NEW t \in Threads, NEW f \in Fingerprints, NEW window \in Windows,
         Allow(t, f, window)
  PROVE  TypeOK'
<1>1. StandsFor(f) \in Nat \ {0}
  BY CarriedTyped DEF StandsFor
<1>2. [at |-> "send", of |-> f, n |-> StandsFor(f)] \in Sending
  BY <1>1 DEF Sending
<1>3. thread' \in [Threads -> {Idle} \cup Checking \cup Sending]
  BY <1>2, Parts DEF Allow
<1>4. tally[f] \in Tally
  BY Parts
<1>5. [tally[f] EXCEPT !.sent = @ + 1] \in Tally
  BY <1>4, Tallied
<1>6. tally' = [tally EXCEPT ![f] = [tally[f] EXCEPT !.sent = @ + 1]]
  BY DEF Allow
<1>7. tally' \in [Fingerprints -> Tally]
  BY <1>5, <1>6, Parts
<1>8. state' \in [Fingerprints -> Windows \cup {Unseen}]
  BY Parts DEF Allow
<1> QED
  BY <1>3, <1>7, <1>8 DEF TypeOK, Allow, Checking, Sending, Tally

\* A thread that has judged its window or ended its send leaves everything
\* well typed.
LEMMA CapturingTyped ==
  ASSUME TypeOK, NEW t \in Threads, Capturing(t)
  PROVE  TypeOK'
<1> DEFINE f == thread[t].of
<1>1. CASE OpenWindow(t)
  <2>1. f \in Fingerprints /\ thread[t].read \in Nat
    BY <1>1, ThreadTyped DEF OpenWindow, Checking
  <2>2. [start |-> thread[t].read, accepted |-> 1, held |-> 0] \in Windows
    BY <2>1 DEF Windows
  <2> QED
    BY <1>1, <2>1, <2>2, AllowTyped DEF OpenWindow
<1>2. CASE Accept(t)
  <2>1. f \in Fingerprints
    BY <1>2, ThreadTyped DEF Accept, Checking
  <2>2. state[f] \in Windows
    BY <1>2, <2>1, Parts DEF Accept, Over
  <2>3. state[f].accepted + 1 \in Nat
    BY <2>2 DEF Windows
  <2>4. [state[f] EXCEPT !.accepted = @ + 1, !.held = 0] \in Windows
    BY <2>2, <2>3, Zenon DEF Windows
  <2> QED
    BY <1>2, <2>1, <2>4, AllowTyped DEF Accept
<1>3. CASE Suppress(t)
  <2>1. f \in Fingerprints
    BY <1>3, ThreadTyped DEF Suppress, Checking
  <2>2. state[f] \in Windows
    BY <1>3, <2>1, Parts DEF Suppress, Over
  <2>3. [state[f] EXCEPT !.held = @ + 1] \in Windows
    BY <2>2 DEF Windows
  <2>4. state' = [state EXCEPT ![f] = [state[f] EXCEPT !.held = @ + 1]]
    BY <1>3 DEF Suppress
  <2>5. state' \in [Fingerprints -> Windows \cup {Unseen}]
    BY <2>3, <2>4, Parts
  <2>6. thread' \in [Threads -> {Idle} \cup Checking \cup Sending]
    BY <1>3, Parts DEF Suppress
  <2> QED
    BY <1>3, <2>5, <2>6 DEF TypeOK, Suppress, Checking, Sending
<1>4. ASSUME Sent(t) \/ Lost(t)
      PROVE  TypeOK'
  <2>1. thread[t] \in Sending
    BY <1>4, ThreadTyped DEF Sent, Lost
  <2>2. f \in Fingerprints /\ thread[t].n \in Nat
    BY <2>1 DEF Sending
  <2>3. tally[f] \in Tally
    BY <2>2, Parts
  <2>4. /\ [tally[f] EXCEPT !.told = @ + thread[t].n] \in Tally
        /\ [tally[f] EXCEPT !.lost = @ + thread[t].n] \in Tally
    BY <2>2, <2>3, Tallied
  <2>5. \/ tally' = [tally EXCEPT ![f] = [tally[f] EXCEPT !.told = @ + thread[t].n]]
        \/ tally' = [tally EXCEPT ![f] = [tally[f] EXCEPT !.lost = @ + thread[t].n]]
    BY <1>4 DEF Sent, Lost
  <2>6. tally' \in [Fingerprints -> Tally]
    BY <2>4, <2>5, Parts
  <2>7. thread' \in [Threads -> {Idle} \cup Checking \cup Sending]
    BY <1>4, Parts DEF Sent, Lost
  <2> QED
    BY <1>4, <2>6, <2>7 DEF TypeOK, Sent, Lost, Checking, Sending, Tally
<1> QED
  BY <1>1, <1>2, <1>3, <1>4 DEF Capturing

\* A restarted process is well typed.
LEMMA RestartTyped ==
  ASSUME TypeOK, Restart
  PROVE  TypeOK'
<1>1. ASSUME NEW f \in Fingerprints
      PROVE  [tally[f] EXCEPT !.lost = @ + Carried(f) + InFlight(f)] \in Tally
  <2>1. tally[f] \in Tally
    BY Parts
  <2>2. tally[f].lost + Carried(f) + InFlight(f) \in Nat
    BY <2>1, CarriedTyped, InFlightTyped DEF Tally
  <2> QED
    BY <2>1, <2>2, Zenon DEF Tally
<1>2. tally' \in [Fingerprints -> Tally]
  BY <1>1 DEF Restart
<1>3. thread' \in [Threads -> {Idle} \cup Checking \cup Sending]
  BY DEF Restart
<1>4. restarts' \in 0 .. MaxRestarts
  BY CaptureAssumption, Parts DEF Restart
<1> QED
  BY <1>2, <1>3, <1>4 DEF TypeOK, Restart, Checking, Sending, Tally

\* Every step leaves everything well typed.
LEMMA NextTyped == TypeOK /\ [Next]_vars => TypeOK'
<1> SUFFICES ASSUME TypeOK, [Next]_vars PROVE TypeOK'
  OBVIOUS
<1>1. ASSUME Tick PROVE TypeOK'
  BY <1>1, CaptureAssumption DEF TypeOK, Tick
<1>2. CASE UNCHANGED vars
  BY <1>2 DEF TypeOK, vars
<1> QED
  BY <1>1, <1>2, CapturedTyped, CapturingTyped, RestartTyped DEF Next

\* Typing: whatever the threads of a process do, every variable holds what its
\* attribute in _RateLimiter may hold.
THEOREM Typing == Spec => []TypeOK
BY InitTyped, NextTyped, PTL DEF Spec

-----------------------------------------------------------------------------
(* What the limiter drops is counted and carried                           *)

\* What a captured occurrence of f adds, and to whom.
LEMMA CapturedForgetsNothing ==
  ASSUME TypeOK, NothingForgotten, NEW t \in Threads, NEW f \in Fingerprints,
         Captured(t, f)
  PROVE  NothingForgotten'
<1> SUFFICES ASSUME NEW g \in Fingerprints
             PROVE  tally'[g].captured
                      = tally'[g].told + tally'[g].lost + Carried(g)' + InFlight(g)'
  BY DEF NothingForgotten
<1>1. InHand(t, g) = 0
  BY DEF Captured, InHand
<1>2. InHand(t, g)' = IF g = f THEN 1 ELSE 0
  BY DEF Captured, InHand, Idle, TypeOK
<1>3. /\ InFlight(g)' = InFlight(g) + InHand(t, g)' /\ InFlight(g) \in Nat
  <2>1. InHand(t, g)' \in Nat
    BY <1>2
  <2>2. /\ InFlight(g)' + InHand(t, g) = InFlight(g) + InHand(t, g)'
        /\ InFlight(g) \in Nat /\ InFlight(g)' \in Nat
    BY <2>1, ThreadMoves DEF Captured
  <2> QED
    BY <1>1, <2>1, <2>2
<1>4. /\ tally'[g].captured = tally[g].captured + (IF g = f THEN 1 ELSE 0)
      /\ tally'[g].told = tally[g].told
      /\ tally'[g].lost = tally[g].lost
      /\ tally[g] \in Tally
  BY Parts DEF Captured, Tally
<1>5. Carried(g)' = Carried(g) /\ Carried(g) \in Nat
  BY CarriedTyped DEF Captured, Carried
<1> QED
  BY <1>2, <1>3, <1>4, <1>5 DEF NothingForgotten, Tally

\* An event let through takes with it what was held back, and leaves nothing.
LEMMA AllowForgetsNothing ==
  ASSUME TypeOK, NothingForgotten, NEW t \in Threads, NEW f, NEW window,
         thread[t].at = "check", f = thread[t].of, window.held = 0,
         Allow(t, f, window)
  PROVE  NothingForgotten'
<1> SUFFICES ASSUME NEW g \in Fingerprints
             PROVE  tally'[g].captured
                      = tally'[g].told + tally'[g].lost + Carried(g)' + InFlight(g)'
  BY DEF NothingForgotten
<1>1. f \in Fingerprints /\ thread[t] # Idle
  BY ThreadTyped DEF Checking, Idle
<1>2. InHand(t, g) = IF g = f THEN 1 ELSE 0
  BY <1>1 DEF InHand
<1>3. InHand(t, g)' = IF g = f THEN 1 + Carried(f) ELSE 0
  BY <1>1 DEF Allow, StandsFor, InHand, Idle, TypeOK
<1>4. /\ InFlight(g)' + InHand(t, g) = InFlight(g) + InHand(t, g)'
      /\ InFlight(g) \in Nat /\ InFlight(g)' \in Nat
  <2>1. InHand(t, g)' \in Nat
    BY <1>1, <1>3, CarriedTyped
  <2> QED
    BY <2>1, ThreadMoves DEF Allow
<1>5. /\ tally'[g].captured = tally[g].captured
      /\ tally'[g].told = tally[g].told
      /\ tally'[g].lost = tally[g].lost
      /\ tally[g] \in Tally
  BY Parts DEF Allow, Tally
<1>6. /\ Carried(g)' = IF g = f THEN 0 ELSE Carried(g)
      /\ Carried(g) \in Nat
  <2>1. CASE g = f
    BY <1>1, <2>1, CarriedTyped DEF Allow, Carried, TypeOK
  <2>2. CASE g # f
    BY <2>2, CarriedTyped DEF Allow, Carried, TypeOK
  <2> QED
    BY <2>1, <2>2
<1> QED
  BY <1>2, <1>3, <1>4, <1>5, <1>6 DEF NothingForgotten, Tally

\* A suppressed occurrence goes from the thread's hand to the window.
LEMMA SuppressForgetsNothing ==
  ASSUME TypeOK, NothingForgotten, NEW t \in Threads, Suppress(t)
  PROVE  NothingForgotten'
<1> DEFINE f == thread[t].of
<1> SUFFICES ASSUME NEW g \in Fingerprints
             PROVE  tally'[g].captured
                      = tally'[g].told + tally'[g].lost + Carried(g)' + InFlight(g)'
  BY DEF NothingForgotten
<1>1. f \in Fingerprints /\ thread[t] # Idle /\ thread[t].at = "check"
  BY ThreadTyped DEF Suppress, Checking, Idle
<1>2. InHand(t, g) = IF g = f THEN 1 ELSE 0
  BY <1>1 DEF InHand
<1>3. InHand(t, g)' = 0
  BY DEF Suppress, InHand, TypeOK
<1>4. InFlight(g)' + InHand(t, g) = InFlight(g) /\ InFlight(g)' \in Nat /\ InFlight(g) \in Nat
  <2>1. InHand(t, g)' \in Nat /\ thread' = [thread EXCEPT ![t] = Idle]
    BY <1>3 DEF Suppress
  <2>2. /\ InFlight(g)' + InHand(t, g) = InFlight(g) + InHand(t, g)'
        /\ InFlight(g) \in Nat /\ InFlight(g)' \in Nat
    BY <2>1, ThreadMoves
  <2> QED
    BY <1>3, <2>2
<1>5. tally' = tally /\ tally[g] \in Tally
  BY Parts DEF Suppress
<1>6. /\ Carried(g)' = Carried(g) + (IF g = f THEN 1 ELSE 0)
      /\ Carried(g) \in Nat
  <2>1. CASE g = f
    <3>1. state[f] \in Windows
      BY <1>1, Parts DEF Suppress, Over
    <3>2. [state[f] EXCEPT !.held = @ + 1] \in Windows
      BY <3>1 DEF Windows
    <3>3. state'[f] = [state[f] EXCEPT !.held = @ + 1]
      BY <1>1, Parts DEF Suppress
    <3> QED
      BY <2>1, <3>1, <3>2, <3>3, CaptureAssumption DEF Carried, Windows
  <2>2. CASE g # f
    BY <2>2, CarriedTyped DEF Suppress, Carried, TypeOK
  <2> QED
    BY <2>1, <2>2
<1> QED
  BY <1>2, <1>4, <1>5, <1>6 DEF NothingForgotten, Tally

\* What was sent is told, or lost.
LEMMA SendForgetsNothing ==
  ASSUME TypeOK, NothingForgotten, NEW t \in Threads, Sent(t) \/ Lost(t)
  PROVE  NothingForgotten'
<1> DEFINE f == thread[t].of
<1> SUFFICES ASSUME NEW g \in Fingerprints
             PROVE  tally'[g].captured
                      = tally'[g].told + tally'[g].lost + Carried(g)' + InFlight(g)'
  BY DEF NothingForgotten
<1>1. thread[t] \in Sending /\ thread[t] # Idle /\ thread[t].at = "send"
  BY ThreadTyped DEF Sent, Lost, Sending, Idle
<1>2. InHand(t, g) = IF g = f THEN thread[t].n ELSE 0
  BY <1>1 DEF InHand
<1>3. InHand(t, g)' = 0
  BY DEF Sent, Lost, InHand, TypeOK
<1>4. InFlight(g)' + InHand(t, g) = InFlight(g) /\ InFlight(g)' \in Nat /\ InFlight(g) \in Nat
  <2>1. InHand(t, g)' \in Nat /\ thread' = [thread EXCEPT ![t] = Idle]
    BY <1>3 DEF Sent, Lost
  <2>2. /\ InFlight(g)' + InHand(t, g) = InFlight(g) + InHand(t, g)'
        /\ InFlight(g) \in Nat /\ InFlight(g)' \in Nat
    BY <2>1, ThreadMoves
  <2> QED
    BY <1>3, <2>2
<1>5. /\ tally'[g].captured = tally[g].captured
      /\ tally'[g].told + tally'[g].lost
           = tally[g].told + tally[g].lost + (IF g = f THEN thread[t].n ELSE 0)
      /\ tally[g] \in Tally
  <2>1. tally[g] \in Tally /\ thread[t].n \in Nat /\ f \in Fingerprints
    BY <1>1, Parts DEF Sending
  <2>2. CASE Sent(t)
    BY <2>1, <2>2, Parts DEF Sent, Tally
  <2>3. CASE Lost(t)
    BY <2>1, <2>3, Parts DEF Lost, Tally
  <2> QED
    BY <2>1, <2>2, <2>3
<1>6. Carried(g)' = Carried(g) /\ Carried(g) \in Nat
  BY CarriedTyped DEF Sent, Lost, Carried
<1>7. tally'[g].told \in Nat /\ tally'[g].lost \in Nat /\ thread[t].n \in Nat
  <2>1. TypeOK'
    BY CapturingTyped DEF Capturing
  <2>2. tally' \in [Fingerprints -> Tally]
    BY <2>1 DEF TypeOK, Tally
  <2> QED
    BY <1>1, <2>2 DEF Tally, Sending
<1> QED
  BY <1>2, <1>4, <1>5, <1>6, <1>7 DEF NothingForgotten, Tally

\* A restart loses what memory held, and says so.
LEMMA RestartForgetsNothing ==
  ASSUME TypeOK, NothingForgotten, Restart
  PROVE  NothingForgotten'
<1> SUFFICES ASSUME NEW g \in Fingerprints
             PROVE  tally'[g].captured
                      = tally'[g].told + tally'[g].lost + Carried(g)' + InFlight(g)'
  BY DEF NothingForgotten
<1>1. InFlight(g)' = 0
  <2>1. \A t \in Threads : InHand(t, g)' = 0
    BY DEF Restart, InHand
  <2>2. Carrying(g, Threads)' = {}
    BY <2>1 DEF Carrying
  <2> QED
    BY <2>2, FS_EmptySet DEF InFlight
<1>2. Carried(g)' = 0
  BY DEF Restart, Carried
<1>3. /\ tally'[g].captured = tally[g].captured
      /\ tally'[g].told = tally[g].told
      /\ tally'[g].lost = tally[g].lost + Carried(g) + InFlight(g)
      /\ tally[g] \in Tally
  BY Parts DEF Restart, Tally
<1>4. Carried(g) \in Nat /\ InFlight(g) \in Nat
  BY CarriedTyped, InFlightTyped
<1> QED
  BY <1>1, <1>2, <1>3, <1>4 DEF NothingForgotten, Tally

\* Every step forgets nothing.
LEMMA NextForgetsNothing == TypeOK /\ NothingForgotten /\ [Next]_vars => NothingForgotten'
<1> SUFFICES ASSUME TypeOK, NothingForgotten, [Next]_vars PROVE NothingForgotten'
  OBVIOUS
<1>1. ASSUME NEW t \in Threads, OpenWindow(t) PROVE NothingForgotten'
  BY <1>1, AllowForgetsNothing DEF OpenWindow
<1>2. ASSUME NEW t \in Threads, Accept(t) PROVE NothingForgotten'
  <2> DEFINE f == thread[t].of
  <2>1. f \in Fingerprints
    BY <1>2, ThreadTyped DEF Accept, Checking
  <2>2. state[f] \in Windows
    BY <1>2, <2>1, Parts DEF Accept, Over
  <2>3. [state[f] EXCEPT !.accepted = @ + 1, !.held = 0].held = 0
    BY <2>2 DEF Windows
  <2> QED
    BY <1>2, <2>3, AllowForgetsNothing DEF Accept
<1>3. ASSUME Tick \/ UNCHANGED vars PROVE NothingForgotten'
  BY <1>3 DEF NothingForgotten, Tick, vars, Carried, InFlight, Carrying, InHand
<1> QED
  BY <1>1, <1>2, <1>3, CapturedForgetsNothing, SuppressForgetsNothing, SendForgetsNothing,
     RestartForgetsNothing DEF Next, Capturing

\* "What the limiter drops is counted and carried" (_capture.py): for any
\* number of threads meeting in check() and any restarts, every occurrence
\* captured was told, is held by the limiter or a thread, or was lost outside.
THEOREM Conservation == Spec => []NothingForgotten
<1>1. Init => NothingForgotten
  <2> SUFFICES ASSUME Init, NEW f \in Fingerprints
               PROVE  tally[f].captured
                        = tally[f].told + tally[f].lost + Carried(f) + InFlight(f)
    BY DEF NothingForgotten
  <2>1. InFlight(f) = 0
    BY NoneInFlight DEF Init
  <2> QED
    BY <2>1 DEF Init, Carried
<1> QED
  BY <1>1, Typing, NextForgetsNothing, PTL DEF Spec

-----------------------------------------------------------------------------
(* A flood sends no more than its windows allow                            *)

\* How many windows' length have passed at a time.
LEMMA Quotient ==
  ASSUME NEW a \in Nat, NEW w \in Nat \ {0}
  PROVE  /\ a \div w \in Nat
         /\ w * (a \div w) <= a
         /\ a < w * (a \div w) + w
OBVIOUS

\* Products keep the order of their factors.
LEMMA TimesMonotone ==
  ASSUME NEW a \in Nat, NEW b \in Nat, NEW w \in Nat, a <= b
  PROVE  /\ w * a <= w * b
         /\ w * (b + 1) = w * b + w
         /\ w * a \in Nat /\ w * b \in Nat
OBVIOUS

\* Time does not take windows back.
LEMMA QuotientMonotone ==
  ASSUME NEW a \in Nat, NEW b \in Nat, NEW w \in Nat \ {0}, a <= b
  PROVE  a \div w <= b \div w
<1> DEFINE p == a \div w
           q == b \div w
<1>1. p \in Nat /\ w * p <= a
  BY Quotient
<1>2. q \in Nat /\ b < w * q + w
  BY Quotient
<1> HIDE DEF p, q
<1>3. SUFFICES ASSUME q + 1 <= p PROVE FALSE
  BY <1>1, <1>2 DEF p, q
<1>4. w * (q + 1) <= w * p /\ w * (q + 1) = w * q + w
  BY <1>1, <1>2, <1>3, TimesMonotone
<1>5. w * p \in Nat /\ w * q \in Nat
  BY <1>1, <1>2
<1> QED
  BY <1>1, <1>2, <1>4, <1>5

\* A window's length later is one more of them.
LEMMA QuotientNext ==
  ASSUME NEW a \in Nat, NEW b \in Nat, NEW w \in Nat \ {0}, b - a >= w
  PROVE  (a \div w) + 1 <= b \div w
<1> DEFINE p == a \div w
           q == b \div w
<1>1. p \in Nat /\ w * p <= a
  BY Quotient
<1>2. q \in Nat /\ b < w * q + w
  BY Quotient
<1> HIDE DEF p, q
<1>3. SUFFICES ASSUME q <= p PROVE FALSE
  BY <1>1, <1>2 DEF p, q
<1>4. w * q <= w * p /\ w * p \in Nat /\ w * q \in Nat
  BY <1>1, <1>2, <1>3, TimesMonotone
<1> QED
  BY <1>1, <1>2, <1>4

\* The most events of a fingerprint one window sends.
Burst == IF Limit > 1 THEN Limit ELSE 1

\* The most that windows before one that begins at a time have sent.
Budget(time, n) == Burst * ((time \div Window) + n)

\* A budget is a count, grows with time, by a window's worth in a window, and
\* by as much in a restart.
LEMMA BudgetGrows ==
  ASSUME NEW a \in Nat, NEW b \in Nat, NEW n \in Nat, a <= b
  PROVE  /\ Budget(a, n) \in Nat /\ Budget(b, n) \in Nat /\ Burst \in Nat \ {0}
         /\ Budget(a, n) <= Budget(b, n)
         /\ b - a >= Window => Budget(a, n) + Burst <= Budget(b, n)
         /\ Budget(a, n + 1) = Budget(a, n) + Burst
         /\ Burst * ((a \div Window) + 1 + n) = Budget(a, n) + Burst
<1> DEFINE p == a \div Window
           q == b \div Window
<1>1. Burst \in Nat \ {0} /\ Window \in Nat \ {0}
  BY CaptureAssumption DEF Burst
<1>2. p \in Nat /\ q \in Nat /\ p <= q
  BY <1>1, Quotient, QuotientMonotone
<1>3. b - a >= Window => p + 1 <= q
  BY <1>1, QuotientNext
<1> HIDE DEF p, q
<1>4. /\ Burst * (p + n) <= Burst * (q + n)
      /\ Burst * (p + n) \in Nat /\ Burst * (q + n) \in Nat
      /\ Burst * ((p + n) + 1) = Burst * (p + n) + Burst
  BY <1>1, <1>2, TimesMonotone
<1>5. b - a >= Window => Burst * ((p + n) + 1) <= Burst * (q + n)
  BY <1>1, <1>2, <1>3, TimesMonotone
<1>6. (p + n) + 1 = p + (n + 1) /\ (p + n) + 1 = p + 1 + n
  BY <1>2
<1> QED
  BY <1>1, <1>4, <1>5, <1>6 DEF Budget, p, q

\* What a burst more comes to, at one time.
LEMMA BudgetTyped ==
  ASSUME NEW a \in Nat, NEW n \in Nat
  PROVE  /\ Budget(a, n) \in Nat /\ Burst \in Nat \ {0}
         /\ Budget(a, n + 1) = Budget(a, n) + Burst
         /\ Burst * ((a \div Window) + 1 + n) = Budget(a, n) + Burst
<1>1. a <= a
  OBVIOUS
<1> QED
  BY <1>1, BudgetGrows

\* The window of f has sent no more than accepted, those before it no more than
\* a burst each.
Begun(f) ==
  /\ state[f].start <= now
  /\ state[f].accepted <= Burst
  /\ tally[f].sent <= Budget(state[f].start, restarts) + state[f].accepted

\* f has no window: what was sent before the restart fits the time that passed,
\* and the time of any thread about to begin one.
NotBegun(f) ==
  /\ tally[f].sent <= Budget(now, restarts)
  /\ \A t \in Threads : thread[t].at = "check" /\ thread[t].of = f =>
       tally[f].sent <= Budget(thread[t].read, restarts)

\* Nobody reads a time that has not come.
ReadsThePast == \A t \in Threads : thread[t].at = "check" => thread[t].read <= now

\* The inductive invariant behind FloodIsBounded: the start of a window pays for
\* the windows before it, whatever time the thread that began it had read.
FloodInv ==
  /\ \A f \in Fingerprints : IF state[f] = Unseen THEN NotBegun(f) ELSE Begun(f)
  /\ ReadsThePast

\* The invariant bounds what is sent.
LEMMA FloodInvBounds == TypeOK /\ FloodInv => FloodIsBounded
<1> SUFFICES ASSUME TypeOK, FloodInv, NEW f \in Fingerprints
             PROVE  tally[f].sent <= Burst * ((now \div Window) + 1 + restarts)
  BY DEF FloodIsBounded, Burst
<1>1. now \in Nat /\ restarts \in Nat /\ tally[f].sent \in Nat
  BY CaptureAssumption, Parts DEF Tally
<1>2. /\ Burst * ((now \div Window) + 1 + restarts) = Budget(now, restarts) + Burst
      /\ Budget(now, restarts) \in Nat /\ Burst \in Nat
  BY <1>1, BudgetTyped
<1>3. CASE state[f] = Unseen
  BY <1>1, <1>2, <1>3 DEF FloodInv, NotBegun
<1>4. CASE state[f] # Unseen
  <2>1. state[f].start \in Nat /\ state[f].accepted \in Nat
    BY <1>4, Parts DEF Windows
  <2>2. Begun(f)
    BY <1>4 DEF FloodInv
  <2>3. /\ Budget(state[f].start, restarts) <= Budget(now, restarts)
        /\ Budget(state[f].start, restarts) \in Nat
    BY <1>1, <2>1, <2>2, BudgetGrows DEF Begun
  <2> QED
    BY <1>1, <1>2, <2>1, <2>2, <2>3 DEF Begun
<1> QED
  BY <1>3, <1>4

\* A thread that captures reads the present, which pays for what was sent.
LEMMA CapturedFlood ==
  ASSUME TypeOK, FloodInv, NEW t \in Threads, NEW f \in Fingerprints, Captured(t, f)
  PROVE  FloodInv'
<1>1. now \in Nat /\ restarts \in Nat /\ now' = now /\ restarts' = restarts /\ state' = state
  BY CaptureAssumption, Parts DEF Captured
<1>2. \A g \in Fingerprints : tally'[g].sent = tally[g].sent
  BY Parts DEF Captured, Tally
<1>3. \A s \in Threads \ {t} : thread'[s] = thread[s]
  BY DEF Captured, TypeOK
<1>4. thread'[t] = [at |-> "check", of |-> f, read |-> now]
  BY DEF Captured, TypeOK
<1>5. ASSUME NEW g \in Fingerprints, state[g] = Unseen
      PROVE  NotBegun(g)'
  <2>1. NotBegun(g)
    BY <1>5 DEF FloodInv
  <2> QED
    BY <1>1, <1>2, <1>3, <1>4, <2>1 DEF NotBegun
<1>6. ASSUME NEW g \in Fingerprints, state[g] # Unseen
      PROVE  Begun(g)'
  BY <1>1, <1>2, <1>6 DEF FloodInv, Begun
<1>7. ReadsThePast'
  BY <1>1, <1>3, <1>4 DEF FloodInv, ReadsThePast
<1> QED
  BY <1>1, <1>5, <1>6, <1>7 DEF FloodInv

\* A thread that leaves check() leaves the accounts of other fingerprints alone.
LEMMA OtherAccounts ==
  ASSUME TypeOK, FloodInv, NEW t \in Threads, NEW v, thread' = [thread EXCEPT ![t] = v],
         v.at # "check", now' = now, restarts' = restarts
  PROVE  /\ ReadsThePast'
         /\ \A g \in Fingerprints :
              state'[g] = state[g] /\ tally'[g].sent = tally[g].sent =>
                IF state'[g] = Unseen THEN NotBegun(g)' ELSE Begun(g)'
<1>1. thread'[t] = v /\ \A s \in Threads \ {t} : thread'[s] = thread[s]
  BY DEF TypeOK
<1>2. ReadsThePast'
  BY <1>1 DEF FloodInv, ReadsThePast
<1>3. ASSUME NEW g \in Fingerprints, state'[g] = state[g], tally'[g].sent = tally[g].sent
      PROVE  IF state'[g] = Unseen THEN NotBegun(g)' ELSE Begun(g)'
  <2>1. CASE state[g] = Unseen
    <3>1. NotBegun(g)
      BY <2>1 DEF FloodInv
    <3> QED
      BY <1>1, <1>3, <2>1, <3>1 DEF NotBegun
  <2>2. CASE state[g] # Unseen
    BY <1>3, <2>2 DEF FloodInv, Begun
  <2> QED
    BY <2>1, <2>2
<1> QED
  BY <1>2, <1>3

\* A window begun is paid for by the one before it, or by the time it begins.
LEMMA OpenWindowFlood ==
  ASSUME TypeOK, FloodInv, NEW t \in Threads, OpenWindow(t)
  PROVE  FloodInv'
<1>0. PICK f \in Fingerprints : f = thread[t].of
  BY ThreadTyped DEF OpenWindow, Checking
<1> DEFINE time == thread[t].read
           sends == [at |-> "send", of |-> f, n |-> StandsFor(f)]
           window == [start |-> time, accepted |-> 1, held |-> 0]
<1>1. time \in Nat /\ time <= now /\ thread[t].at = "check"
  BY ThreadTyped DEF OpenWindow, Checking, FloodInv, ReadsThePast
<1>2. now \in Nat /\ restarts \in Nat /\ now' = now /\ restarts' = restarts
  BY CaptureAssumption, Parts DEF OpenWindow, Allow
<1>3. thread' = [thread EXCEPT ![t] = sends] /\ sends.at # "check"
  BY <1>0 DEF OpenWindow, Allow
<1>4. state' = [state EXCEPT ![f] = window]
  BY <1>0 DEF OpenWindow, Allow
<1>5. /\ tally'[f].sent = tally[f].sent + 1
      /\ tally[f].sent \in Nat
      /\ \A g \in Fingerprints \ {f} : tally'[g].sent = tally[g].sent
  BY <1>0, Parts DEF OpenWindow, Allow, Tally
<1>6. /\ ReadsThePast'
      /\ \A g \in Fingerprints \ {f} : IF state'[g] = Unseen THEN NotBegun(g)' ELSE Begun(g)'
  <2>1. \A g \in Fingerprints \ {f} : state'[g] = state[g]
    BY <1>4, Parts
  <2> HIDE DEF sends
  <2> QED
    BY <1>2, <1>3, <1>5, <2>1, OtherAccounts
<1>7. tally[f].sent <= Budget(time, restarts) /\ Budget(time, restarts) \in Nat /\ Burst \in Nat \ {0}
  <2>1. CASE state[f] = Unseen
    BY <1>0, <1>1, <1>2, <1>5, <2>1, BudgetTyped DEF FloodInv, NotBegun
  <2>2. CASE state[f] # Unseen
    <3>1. state[f].start \in Nat /\ state[f].accepted \in Nat
      BY <1>1, <2>2, Parts DEF Windows
    <3>2. time - state[f].start >= Window
      BY <1>0, <2>2 DEF OpenWindow, Over
    <3>3. state[f].start <= time
      BY <1>1, <3>1, <3>2, CaptureAssumption
    <3>4. /\ Budget(state[f].start, restarts) + Burst <= Budget(time, restarts)
          /\ Budget(state[f].start, restarts) \in Nat /\ Budget(time, restarts) \in Nat
          /\ Burst \in Nat \ {0}
      BY <1>1, <1>2, <3>1, <3>2, <3>3, BudgetGrows
    <3>5. Begun(f)
      BY <1>1, <2>2 DEF FloodInv
    <3> QED
      BY <1>5, <3>1, <3>4, <3>5 DEF Begun
  <2> QED
    BY <2>1, <2>2
<1>8. state'[f] = window /\ state'[f] # Unseen
  <2>1. window \in Windows
    BY <1>1 DEF Windows
  <2> QED
    BY <1>1, <1>4, <2>1, CaptureAssumption, Parts
<1>9. Begun(f)'
  <2>1. /\ state'[f].start = time /\ state'[f].accepted = 1
    BY <1>8
  <2> HIDE DEF time, window
  <2> QED
    BY <1>1, <1>2, <1>5, <1>7, <2>1 DEF Begun
<1> QED
  BY <1>1, <1>6, <1>8, <1>9 DEF FloodInv

\* An event accepted is one more of the window's own.
LEMMA AcceptFlood ==
  ASSUME TypeOK, FloodInv, NEW t \in Threads, Accept(t)
  PROVE  FloodInv'
<1>0. PICK f \in Fingerprints : f = thread[t].of
  BY ThreadTyped DEF Accept, Checking
<1> DEFINE sends == [at |-> "send", of |-> f, n |-> StandsFor(f)]
           window == [state[f] EXCEPT !.accepted = @ + 1, !.held = 0]
<1>1. state[f] \in Windows /\ state[f] # Unseen
  BY <1>0, Parts DEF Accept, Over
<1>2. now' = now /\ restarts' = restarts /\ now \in Nat /\ restarts \in Nat
  BY CaptureAssumption, Parts DEF Accept, Allow
<1>3. thread' = [thread EXCEPT ![t] = sends] /\ sends.at # "check"
  BY <1>0 DEF Accept, Allow
<1>4. state' = [state EXCEPT ![f] = window]
  BY <1>0 DEF Accept, Allow
<1>5. /\ tally'[f].sent = tally[f].sent + 1
      /\ tally[f].sent \in Nat
      /\ \A g \in Fingerprints \ {f} : tally'[g].sent = tally[g].sent
  BY <1>0, Parts DEF Accept, Allow, Tally
<1>6. /\ ReadsThePast'
      /\ \A g \in Fingerprints \ {f} : IF state'[g] = Unseen THEN NotBegun(g)' ELSE Begun(g)'
  <2>1. \A g \in Fingerprints \ {f} : state'[g] = state[g]
    BY <1>4, Parts
  <2> HIDE DEF sends
  <2> QED
    BY <1>2, <1>3, <1>5, <2>1, OtherAccounts
<1>7. /\ state[f].start \in Nat /\ state[f].accepted \in Nat
      /\ window \in Windows
      /\ window.start = state[f].start /\ window.accepted = state[f].accepted + 1
  <2>1. state[f].start \in Nat /\ state[f].accepted \in Nat /\ state[f].accepted + 1 \in Nat
    BY <1>1 DEF Windows
  <2>2. window \in Windows
    BY <1>1, <2>1, Zenon DEF Windows
  <2>3. window.start = state[f].start /\ window.accepted = state[f].accepted + 1
    BY <1>1 DEF Windows
  <2> QED
    BY <2>1, <2>2, <2>3
<1>8. state'[f] = window /\ state'[f] # Unseen
  BY <1>1, <1>4, <1>7, CaptureAssumption, Parts
<1>9. Begun(f)'
  <2>1. Begun(f)
    BY <1>1 DEF FloodInv
  <2>2. state[f].accepted + 1 <= Burst
    BY <1>0, <1>7, CaptureAssumption DEF Accept, Burst
  <2>3. Budget(state[f].start, restarts) \in Nat
    BY <1>2, <1>7, BudgetTyped
  <2>4. state'[f].start = state[f].start /\ state'[f].accepted = state[f].accepted + 1
    BY <1>7, <1>8
  <2> HIDE DEF window
  <2> QED
    BY <1>1, <1>2, <1>5, <1>7, <2>1, <2>2, <2>3, <2>4 DEF Begun
<1> QED
  BY <1>1, <1>6, <1>8, <1>9 DEF FloodInv

\* A suppressed occurrence sends nothing.
LEMMA SuppressFlood ==
  ASSUME TypeOK, FloodInv, NEW t \in Threads, Suppress(t)
  PROVE  FloodInv'
<1>0. PICK f \in Fingerprints : f = thread[t].of
  BY ThreadTyped DEF Suppress, Checking
<1> DEFINE window == [state[f] EXCEPT !.held = @ + 1]
<1>1. state[f] \in Windows /\ state[f] # Unseen
  BY <1>0, Parts DEF Suppress, Over
<1>2. now' = now /\ restarts' = restarts /\ tally' = tally
  BY DEF Suppress
<1>3. thread' = [thread EXCEPT ![t] = Idle] /\ Idle.at # "check"
  BY DEF Suppress, Idle
<1>4. state' = [state EXCEPT ![f] = window]
  BY <1>0 DEF Suppress
<1>5. /\ ReadsThePast'
      /\ \A g \in Fingerprints \ {f} : IF state'[g] = Unseen THEN NotBegun(g)' ELSE Begun(g)'
  <2>1. \A g \in Fingerprints \ {f} : state'[g] = state[g]
    BY <1>4, Parts
  <2> QED
    BY <1>2, <1>3, <2>1, OtherAccounts
<1>6. /\ window \in Windows
      /\ window.start = state[f].start /\ window.accepted = state[f].accepted
  BY <1>1 DEF Windows
<1>7. state'[f] = window /\ state'[f] # Unseen
  BY <1>1, <1>4, <1>6, CaptureAssumption, Parts
<1>8. Begun(f)'
  <2>1. Begun(f)
    BY <1>1 DEF FloodInv
  <2>2. state'[f].start = state[f].start /\ state'[f].accepted = state[f].accepted
    BY <1>6, <1>7
  <2> QED
    BY <1>1, <1>2, <2>1, <2>2 DEF Begun
<1> QED
  BY <1>1, <1>5, <1>7, <1>8 DEF FloodInv

\* Nothing is sent by the end of a send.
LEMMA SendFlood ==
  ASSUME TypeOK, FloodInv, NEW t \in Threads, Sent(t) \/ Lost(t)
  PROVE  FloodInv'
<1>1. now' = now /\ restarts' = restarts /\ state' = state
  BY DEF Sent, Lost
<1>2. thread' = [thread EXCEPT ![t] = Idle] /\ Idle.at # "check"
  BY DEF Sent, Lost, Idle
<1>3. \A g \in Fingerprints : tally'[g].sent = tally[g].sent
  BY Parts DEF Sent, Lost, Tally
<1> QED
  BY <1>1, <1>2, <1>3, OtherAccounts DEF FloodInv

\* A restart is a window's worth more, and no thread is left with an old time.
LEMMA RestartFlood ==
  ASSUME TypeOK, FloodInv, Restart
  PROVE  FloodInv'
<1>1. \A t \in Threads : thread'[t].at # "check"
  BY DEF Restart, Idle
<1>2. \A f \in Fingerprints : state'[f] = Unseen /\ tally'[f].sent = tally[f].sent
  BY Parts DEF Restart, Tally
<1>3. now \in Nat /\ restarts \in Nat /\ now' = now /\ restarts' = restarts + 1
  BY CaptureAssumption, Parts DEF Restart
<1>4. ASSUME NEW f \in Fingerprints
      PROVE  tally[f].sent <= Budget(now, restarts + 1)
  <2>1. FloodIsBounded
    BY FloodInvBounds
  <2>2. tally[f].sent <= Burst * ((now \div Window) + 1 + restarts)
    BY <2>1 DEF FloodIsBounded, Burst
  <2> QED
    BY <1>3, <2>2, BudgetTyped
<1> QED
  BY <1>1, <1>2, <1>3, <1>4 DEF FloodInv, NotBegun, ReadsThePast

\* Time that passes pays for more.
LEMMA TickFlood ==
  ASSUME TypeOK, FloodInv, Tick
  PROVE  FloodInv'
<1>1. now \in Nat /\ restarts \in Nat /\ now' = now + 1 /\ restarts' = restarts
  BY CaptureAssumption, Parts DEF Tick
<1>2. thread' = thread /\ state' = state /\ tally' = tally
  BY DEF Tick
<1>3. /\ Budget(now, restarts) <= Budget(now + 1, restarts)
      /\ Budget(now, restarts) \in Nat /\ Budget(now + 1, restarts) \in Nat
  <2>1. now <= now + 1 /\ now + 1 \in Nat
    BY <1>1
  <2> QED
    BY <1>1, <2>1, BudgetGrows
<1>4. ASSUME NEW f \in Fingerprints, state[f] = Unseen
      PROVE  NotBegun(f)'
  <2>1. NotBegun(f) /\ tally[f].sent \in Nat
    BY <1>4, Parts DEF FloodInv, Tally
  <2> QED
    BY <1>1, <1>2, <1>3, <2>1 DEF NotBegun
<1>5. ASSUME NEW f \in Fingerprints, state[f] # Unseen
      PROVE  Begun(f)'
  <2>1. Begun(f) /\ state[f].start \in Nat
    BY <1>5, Parts DEF FloodInv, Windows
  <2> QED
    BY <1>1, <1>2, <2>1 DEF Begun
<1>6. ReadsThePast'
  BY <1>1, <1>2, ThreadTyped DEF FloodInv, ReadsThePast, Checking
<1> QED
  BY <1>2, <1>4, <1>5, <1>6 DEF FloodInv

\* Every step keeps the accounts.
LEMMA NextFlood == TypeOK /\ FloodInv /\ [Next]_vars => FloodInv'
<1> SUFFICES ASSUME TypeOK, FloodInv, [Next]_vars PROVE FloodInv'
  OBVIOUS
<1>1. ASSUME UNCHANGED vars PROVE FloodInv'
  BY <1>1 DEF vars, FloodInv, Begun, NotBegun, ReadsThePast
<1> QED
  BY <1>1, CapturedFlood, OpenWindowFlood, AcceptFlood, SuppressFlood, SendFlood, RestartFlood,
     TickFlood DEF Next, Capturing

\* "A loop that fails ten thousand times a minute" (_capture.py) sends no more
\* than a window's worth of events per window begun, for any number of threads
\* and whatever times they read before they took the lock.
THEOREM Flood == Spec => []FloodIsBounded
<1>1. Init => FloodInv
  <2> SUFFICES ASSUME Init PROVE FloodInv
    OBVIOUS
  <2>1. Budget(0, 0) \in Nat
    BY BudgetTyped
  <2> QED
    BY <2>1 DEF Init, FloodInv, NotBegun, ReadsThePast, Idle
<1> QED
  BY <1>1, Typing, NextFlood, FloodInvBounds, PTL DEF Spec

=============================================================================
