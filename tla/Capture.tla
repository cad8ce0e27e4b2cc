------------------------------- MODULE Capture -------------------------------
(***************************************************************************)
(* capture() and its rate limiter (_capture.py): the threads of a process  *)
(* capture occurrences; the limiter lets some through, counts the others,  *)
(* and has the next one it lets through stand for them.                    *)
(*                                                                         *)
(* check() reads the clock BEFORE it takes the lock, so a thread may judge *)
(* a window by a time that has passed.  What send() does behind is reduced *)
(* to its end: the occurrences reached the store, or they are gone (a      *)
(* record() that raised, a payload dropped from the buffer); Transport and *)
(* AlertStore show how that happens.  An ignored occurrence, and one       *)
(* captured while its thread is inside capture(), never reach the limiter. *)
(*                                                                         *)
(* A definition that stands before its original and differs from it in one *)
(* detail (JustItself, StandsFor) is a plausible bug of that code:         *)
(* nothing in Next uses it, and a property is broken when it is put in the *)
(* place of the original.                                                  *)
(***************************************************************************)
EXTENDS Integers, FiniteSets

CONSTANTS
  Threads,
  Fingerprints,
  Limit,          \* RATE_LIMIT
  Window,         \* RATE_LIMIT_WINDOW_SECONDS, in ticks
  SendMayFail,    \* what is sent may be lost
  MaxTime,        \* bound on the clock
  MaxCaptures,    \* bound on the occurrences of a fingerprint
  MaxRestarts,    \* bound on restarts of the process
  Unseen

Windows == [start: Nat, accepted: Nat, held: Nat]

ASSUME CaptureAssumption ==
  /\ IsFiniteSet(Threads)
  /\ Limit \in Nat /\ Window \in Nat \ {0}
  /\ SendMayFail \in BOOLEAN
  /\ Unseen \notin Windows
  /\ MaxTime \in Nat /\ MaxCaptures \in Nat /\ MaxRestarts \in Nat

VARIABLES
  now,        \* time.monotonic()
  state,      \* _RateLimiter._state: fingerprint -> window, or Unseen
  thread,     \* where each thread is in _capture
  tally,      \* history per fingerprint: captured, told, lost, events sent
  restarts

vars == <<now, state, thread, tally, restarts>>

Idle == [at |-> "idle"]

-----------------------------------------------------------------------------

\* One more occurrence of f; check() reads the clock.
Captured(t, f) ==
  /\ thread[t] = Idle
  /\ tally[f].captured < MaxCaptures
  /\ tally' = [tally EXCEPT ![f].captured = @ + 1]
  /\ thread' = [thread EXCEPT ![t] = [at |-> "check", of |-> f, read |-> now]]
  /\ UNCHANGED <<now, state, restarts>>

OverEarly(f, time) ==
  IF state[f] = Unseen THEN TRUE ELSE time - state[f].start >= Window - 1
\* The window of f is over, or there was none, for a thread that read time.
Over(f, time) ==
  IF state[f] = Unseen THEN TRUE ELSE time - state[f].start >= Window

\* What is held back, and what the next event let through stands for.
Carried(f) == IF state[f] = Unseen THEN 0 ELSE state[f].held
JustItself(f) == 1
StandsFor(f) == 1 + Carried(f)

\* The event goes out, and carries what was held back.
Allow(t, f, window) ==
  /\ state' = [state EXCEPT ![f] = window]
  /\ thread' = [thread EXCEPT ![t] = [at |-> "send", of |-> f, n |-> StandsFor(f)]]
  /\ tally' = [tally EXCEPT ![f].sent = @ + 1]
  /\ UNCHANGED <<now, restarts>>

\* The first event of a window passes whatever the limit is.
OpenWindow(t) ==
  LET f == thread[t].of
      time == thread[t].read
  IN  /\ thread[t].at = "check"
      /\ Over(f, time)
      /\ Allow(t, f, [start |-> time, accepted |-> 1, held |-> 0])

Accept(t) ==
  LET f == thread[t].of
  IN  /\ thread[t].at = "check"
      /\ ~ Over(f, thread[t].read)
      /\ state[f].accepted < Limit
      /\ Allow(t, f, [state[f] EXCEPT !.accepted = @ + 1, !.held = 0])

Suppress(t) ==
  LET f == thread[t].of
  IN  /\ thread[t].at = "check"
      /\ ~ Over(f, thread[t].read)
      /\ state[f].accepted >= Limit
      /\ state' = [state EXCEPT ![f].held = @ + 1]
      /\ thread' = [thread EXCEPT ![t] = Idle]
      /\ UNCHANGED <<now, tally, restarts>>

Sent(t) ==
  /\ thread[t].at = "send"
  /\ tally' = [tally EXCEPT ![thread[t].of].told = @ + thread[t].n]
  /\ thread' = [thread EXCEPT ![t] = Idle]
  /\ UNCHANGED <<now, state, restarts>>

\* capture() swallows the failure; the limiter has already cleared its count.
Lost(t) ==
  /\ SendMayFail
  /\ thread[t].at = "send"
  /\ tally' = [tally EXCEPT ![thread[t].of].lost = @ + thread[t].n]
  /\ thread' = [thread EXCEPT ![t] = Idle]
  /\ UNCHANGED <<now, state, restarts>>

\* What thread t holds of fingerprint f.
InHand(t, f) ==
  IF thread[t] = Idle \/ thread[t].of # f THEN 0
  ELSE IF thread[t].at = "check" THEN 1 ELSE thread[t].n

\* The occurrences of f between the limiter and the store, numbered by thread.
Carrying(f, ts) == UNION {{t} \X (1 .. InHand(t, f)) : t \in ts}
InFlight(f) == Cardinality(Carrying(f, Threads))

\* The process restarts: windows and held counts were in memory.
Restart ==
  /\ restarts < MaxRestarts
  /\ restarts' = restarts + 1
  /\ state' = [f \in Fingerprints |-> Unseen]
  /\ thread' = [t \in Threads |-> Idle]
  /\ tally' = [f \in Fingerprints |->
                 [tally[f] EXCEPT !.lost = @ + Carried(f) + InFlight(f)]]
  /\ UNCHANGED now

Tick ==
  /\ now < MaxTime
  /\ now' = now + 1
  /\ UNCHANGED <<state, thread, tally, restarts>>

-----------------------------------------------------------------------------

Init ==
  /\ now = 0
  /\ state = [f \in Fingerprints |-> Unseen]
  /\ thread = [t \in Threads |-> Idle]
  /\ tally = [f \in Fingerprints |-> [captured |-> 0, told |-> 0, lost |-> 0, sent |-> 0]]
  /\ restarts = 0

\* A thread inside capture() goes on.
Capturing(t) ==
  OpenWindow(t) \/ Accept(t) \/ Suppress(t) \/ Sent(t) \/ Lost(t)

Next ==
  \/ \E t \in Threads : Capturing(t) \/ \E f \in Fingerprints : Captured(t, f)
  \/ Restart \/ Tick

Spec == Init /\ [][Next]_vars

-----------------------------------------------------------------------------
(* Properties                                                              *)

\* Every variable holds what its attribute may hold.
TypeOK ==
  /\ now \in 0 .. MaxTime
  /\ state \in [Fingerprints -> Windows \cup {Unseen}]
  /\ thread \in [Threads -> {Idle} \cup [at: {"check"}, of: Fingerprints, read: Nat]
                            \cup [at: {"send"}, of: Fingerprints, n: Nat \ {0}]]
  /\ tally \in [Fingerprints -> [captured: Nat, told: Nat, lost: Nat, sent: Nat]]
  /\ restarts \in 0 .. MaxRestarts

\* "What the limiter drops is counted and carried": every occurrence captured
\* was told, is held by the limiter or a thread, or was lost outside of it;
\* none is forgotten or carried twice however threads meet in check().
NothingForgotten ==
  \A f \in Fingerprints :
    tally[f].captured = tally[f].told + tally[f].lost + Carried(f) + InFlight(f)

\* "A loop that fails ten thousand times a minute" sends no more than a
\* window's worth of events per window begun, whatever times threads read.
FloodIsBounded ==
  \A f \in Fingerprints :
    tally[f].sent <= (IF Limit > 1 THEN Limit ELSE 1) * (now \div Window + 1 + restarts)

\* conf.py: "the store is told once per window how many occurrences it stands
\* for": a whole window after a window ended, nothing of it is held back.
TailIsTold ==
  (\A t \in Threads : thread[t] = Idle) =>
    \A f \in Fingerprints :
      state[f] # Unseen /\ now - state[f].start >= 2 * Window => state[f].held = 0

\* _capture.py: "so the issue's count stays true": nothing captured is missing
\* from what the store was told and what it is still going to be told.
CountStaysTrue ==
  \A f \in Fingerprints :
    tally[f].captured = tally[f].told + Carried(f) + InFlight(f)

=============================================================================
