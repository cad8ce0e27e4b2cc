------------------------------- MODULE Reporter -------------------------------
(***************************************************************************)
(* A reporter process from the failure to the owner's count: its inputs    *)
(* (Inputs) and the rate limiter behind them (Capture), and behind those   *)
(* the buffer and the POSTs (Transport).  They share the threads, the      *)
(* clock and the process: a thread that captures is in the limiter or in   *)
(* _report and announces nothing meanwhile, and a restart empties windows  *)
(* and buffer at once.                                                     *)
(*                                                                         *)
(* What an event stands for is decided by the limiter, travels with the    *)
(* payload as its `occurrences`, and is what the owner adds to a counter.  *)
(* In reporter mode record() runs in the owner, so that no hooks wait for  *)
(* a commit of this process.                                               *)
(***************************************************************************)
EXTENDS Inputs, Sequences

CONSTANTS
  Payloads,       \* as many as the process hands over, each once
  BufferMax, MaxBatch, Attempts, FallbackAfter,
  Invalid, Ignored, Unstorable, Unencodable,
  Configured, Around, MaxDropped, NoAge,
  NotSent         \* the load of a payload that was not handed over

VARIABLES
  buffer, dropped, downFor, digestAge,
  report,         \* where each thread is in _report
  key, active, up, settings, world, stored, fate,
  load            \* payload["occurrences"], and of which fingerprint

Outbox == INSTANCE Transport WITH
            thread <- report, crashes <- restarts, MaxCrashes <- MaxRestarts

Loads == [of: Fingerprints, n: Nat \ {0}]

ASSUME ReporterAssumption ==
  /\ Outbox!TransportAssumption
  /\ IsFiniteSet(Payloads)
  /\ NotSent \notin Loads

\* What the outbox has beside the restarts, which it shares with the limiter.
sending == <<buffer, dropped, downFor, digestAge, report, key, active, up, settings, world,
             stored, fate>>
reporterVars == <<allVars, sending, load>>

-----------------------------------------------------------------------------

Free(t) == report[t] = Outbox!Idle

Starting ==
  /\ \/ Install \/ ConnectDlq \/ ConnectCelery \/ Wrap \/ Serve \/ SetupLogger
     \/ AfterSetupLogger
  /\ UNCHANGED <<sending, load>>

\* A failure happens, or a thread goes on announcing it.
Announcing(t) ==
  /\ Free(t)
  /\ \/ \E k \in Kinds : Fail(t, k)
     \/ Announce(t) \/ AnnounceUnheard(t) \/ Announced(t)
  /\ UNCHANGED <<sending, load>>

\* check()
Limiting(t) ==
  /\ OpenWindow(t) \/ Accept(t) \/ Suppress(t)
  /\ UNCHANGED <<inputVars, sending, load>>

LoadOfOne(r) == [of |-> r.of, n |-> 1]
\* "occurrences": occurrences
LoadOf(r) == [of |-> r.of, n |-> r.n]

\* send(payload): the limiter is done with it, and _report drains the buffer.
HandOver(t) ==
  /\ Sent(t)
  /\ Outbox!Capture(t)
  /\ \E p \in Payloads :
       /\ load[p] = NotSent
       /\ fate'[p] = "held"
       /\ load' = [load EXCEPT ![p] = LoadOf(thread[t])]
  /\ UNCHANGED inputVars

Reporting(t) == Outbox!Continue(t) /\ UNCHANGED <<allVars, load>>

\* The owner and the channel go, come back, or are changed.
Surroundings ==
  /\ \/ Outbox!OwnerStops \/ Outbox!OwnerRecovers \/ Outbox!RotateKey
     \/ Outbox!SetActive \/ Outbox!WorldChanges
  /\ UNCHANGED <<allVars, load>>

TickReporter == TickAll /\ Outbox!Tick /\ UNCHANGED load

\* Windows, counts held back, buffer and batches were all in memory.
RestartReporter == RestartAll /\ Outbox!Crash /\ UNCHANGED load

-----------------------------------------------------------------------------

InitReporter ==
  /\ InitInputs
  /\ Outbox!Init
  /\ load = [p \in Payloads |-> NotSent]

NextReporter ==
  \/ Starting
  \/ \E t \in Threads : Announcing(t) \/ Limiting(t) \/ HandOver(t) \/ Reporting(t)
  \/ Surroundings \/ TickReporter \/ RestartReporter

SpecReporter == InitReporter /\ [][NextReporter]_reporterVars

-----------------------------------------------------------------------------
(* Properties                                                              *)

\* What payload p stands for, of fingerprint f.
Weight(p, f) == IF load[p] = NotSent THEN 0 ELSE IF load[p].of # f THEN 0 ELSE load[p].n

\* The occurrences of f that payloads of S stand for, numbered by payload.
StandFor(f, S) == UNION {{p} \X (1 .. Weight(p, f)) : p \in S}
Number(f, S) == Cardinality(StandFor(f, S))

\* The owner has recorded it.
Counted == {p \in Payloads : stored[p] > 0}

\* It waits in memory, was cut off the buffer or lost with it, or the owner took
\* it and ignores it or cannot store it.
Excused ==
  {p \in Payloads : \/ fate[p] \in {"held", "dropped", "lost"}
                    \/ fate[p] = "settled" /\ ~ Outbox!Storable(p)}

\* "So the issue's count stays true" (_capture.py), as far as it does: the owner
\* counts, once at least, every occurrence that was captured but for those in
\* payloads that are excused, held back by the limiter, in a thread's hands, or
\* lost at a restart, and none is in two of these places or in none.
CountIsAccountedFor ==
  \A f \in Fingerprints :
    tally[f].captured = Number(f, Counted \cup Excused) + tally[f].lost
                          + Carried(f) + InFlight(f)

\* "Held in a bounded in-memory buffer" (transport.py): with threads that capture
\* what the limiter lets through, the buffer keeps its bound, a payload is in one
\* place, and what the owner took is stored.
OutboxHolds == Outbox!HeldBounded /\ Outbox!HeldExactlyOnce /\ Outbox!SettledIsStored

=============================================================================
