------------------------------ MODULE Transport ------------------------------
(***************************************************************************)
(* A reporter process: the threads that capture payloads, the bounded      *)
(* buffer they share, the POST to the owner with its retries, the outage   *)
(* clock and the fallback digest (transport.py, and fallback.py through    *)
(* the operators of Fallback), against an owner that                       *)
(* answers, refuses, goes away, or records a batch and is not heard, and   *)
(* whose operators rotate the service's key or switch it off.              *)
(*                                                                         *)
(* The buffer's own methods hold a lock; _report, _mark_up, _mark_down and *)
(* _maybe_fallback hold none, so threads interleave between them, and      *)
(* between any two pushes of one batch.                                    *)
(*                                                                         *)
(* Clocks are kept as ages that stop at FallbackAfter: the code compares   *)
(* them with nothing larger.  A payload's identity may be captured anew    *)
(* once its last capture is no longer held, so captures never run out.     *)
(*                                                                         *)
(* A definition that stands before its original and differs from it in one *)
(* detail (OverflowByTwo, Overflow) is a plausible bug of that code:       *)
(* nothing in Next uses it, and a property is broken when it is put in the *)
(* place of the original.                                                  *)
(***************************************************************************)
EXTENDS Integers, Sequences, FiniteSets, Fallback

CONSTANTS
  Threads,        \* threads of the process that may call capture()
  Payloads,       \* identities of captured payloads
  BufferMax,      \* BUFFER_MAX
  MaxBatch,       \* serializers.MAX_BATCH: the most the owner takes at once
  Attempts,       \* 1 + the length of RETRY_BACKOFF
  FallbackAfter,  \* FALLBACK_AFTER_MINUTES, in ticks
  Invalid,        \* payloads the owner's serializer refuses
  Ignored,        \* payloads matching the owner's ignore set
  Unstorable,     \* payloads whose record() raises
  Unencodable,    \* payloads with a context that json.dumps refuses
  Configured,     \* NOTIFY and FALLBACK settings the process may start with
  Around,         \* states of the world the fallback channel may meet
  MaxCrashes,     \* bound on restarts of the process
  MaxDropped,     \* bound: the dropped counter stops here
  NoAge

ASSUME TransportAssumption ==
  /\ BufferMax \in Nat /\ MaxBatch \in Nat
  /\ Attempts \in Nat \ {0} /\ FallbackAfter \in Nat
  /\ MaxDropped \in Nat \ {0} /\ MaxCrashes \in Nat
  /\ IsFiniteSet(Threads)
  /\ Invalid \subseteq Payloads
  /\ Ignored \subseteq Payloads /\ Unstorable \subseteq Payloads
  /\ Unencodable \subseteq Payloads
  /\ Configured \subseteq Settings /\ Around \subseteq Worlds
  /\ NoAge \notin Nat

VARIABLES
  buffer,       \* _Buffer._items
  dropped,      \* _Buffer._dropped
  downFor,      \* the age of down_since, or NoAge
  digestAge,    \* the age of last_fallback, or NoAge
  thread,       \* where each thread is in _report
  key,          \* SERVICE_KEY against the key hash of the reporter's Service row
  active,       \* Service.is_active
  up,           \* the owner answers within the timeout
  settings,     \* NOTIFY and FALLBACK
  world,        \* what the fallback channel meets
  stored,       \* history: how often the owner recorded the payload (0, 1, 2+)
  fate,         \* history: what became of the last capture of each payload
  crashes

owner == <<key, active, up>>
channel == <<settings, world>>
vars == <<buffer, dropped, downFor, digestAge, thread, owner, channel, stored, fate, crashes>>

Ages == 0 .. FallbackAfter \cup {NoAge}
Fates == {"none", "held", "settled", "dropped", "lost"}

\* What the process still has to deliver.
Held == {p \in Payloads : fate[p] = "held"}

Idle == [at |-> "idle", batch |-> << >>, attempt |-> 0]

In(q) == {q[i] : i \in DOMAIN q}
Goto(t, place) == thread' = [thread EXCEPT ![t].at = place]
Return(t) == thread' = [thread EXCEPT ![t] = Idle]

-----------------------------------------------------------------------------
(* The owner's ReportView                                                  *)

\* Service.authenticate: a row with this key's hash that is active.
Admits == key = "issued" /\ active

\* Refused whole: a key that is not admitted, a batch too large, one invalid
\* item, or nothing in it that could be stored.
Refused(batch) ==
  \/ ~ Admits
  \/ Len(batch) > MaxBatch
  \/ In(batch) \cap Invalid # {}
  \/ /\ In(batch) \cap Unstorable # {}
     /\ In(batch) \subseteq Unstorable \cup Ignored

Storable(p) == p \notin Ignored \cup Unstorable

RecordUntilError(items) ==
  stored' = [p \in Payloads |->
    IF /\ \E i \in DOMAIN items : /\ items[i] = p
                                 /\ In(SubSeq(items, 1, i)) \cap Unstorable = {}
       /\ Storable(p) /\ stored[p] < 2
      THEN stored[p] + 1 ELSE stored[p]]

\* Each item is recorded in a transaction of its own, in order, so an owner
\* that stops half way has recorded a prefix of the batch.
Record(items) ==
  stored' = [p \in Payloads |-> IF p \in In(items) /\ Storable(p) /\ stored[p] < 2
                                  THEN stored[p] + 1 ELSE stored[p]]

-----------------------------------------------------------------------------
(* _report                                                                 *)

NewestFirst(p) == <<p>> \o buffer
JustThis(p) == <<p>>
\* buffer.drain() + [payload], and what drain() leaves.
Batch(p) == Append(buffer, p)
Peeked == buffer
Drained == << >>

\* batch = buffer.drain() + [payload]
Capture(t) ==
  /\ thread[t].at = "idle"
  /\ \E p \in Payloads :
       /\ fate[p] # "held"
       /\ thread' = [thread EXCEPT ![t] = [at |-> "post", attempt |-> 1,
                                           batch |-> Batch(p)]]
       /\ fate' = [fate EXCEPT ![p] = "held"]
       /\ stored' = [stored EXCEPT ![p] = 0]
  /\ buffer' = Drained
  /\ UNCHANGED <<channel, dropped, downFor, digestAge, owner, crashes>>

\* The body of the POST can be built.
Encodes(batch) == In(batch) \cap Unencodable = {}

\* It is built before the first attempt and outside of any try: json.dumps raises
\* through _report into capture(), which swallows it, and the batch, the whole
\* buffer with it, is in nobody's hands.
PostRaises(t) ==
  LET batch == thread[t].batch
  IN  /\ thread[t].at = "post"
      /\ key # "none"
      /\ ~ Encodes(batch)
      /\ fate' = [p \in Payloads |-> IF p \in In(batch) THEN "lost" ELSE fate[p]]
      /\ Return(t)
      /\ UNCHANGED <<channel, buffer, dropped, downFor, digestAge, owner, stored, crashes>>

\* 2xx: the batch leaves memory, its ignored and unstorable items with it.
PostAccepted(t) ==
  LET batch == thread[t].batch
  IN  /\ thread[t].at = "post"
      /\ up
      /\ Encodes(batch)
      /\ ~ Refused(batch)
      /\ Record(batch)
      /\ fate' = [p \in Payloads |-> IF p \in In(batch) THEN "settled" ELSE fate[p]]
      /\ thread' = [thread EXCEPT ![t].at = "mark up", ![t].batch = << >>]
      /\ UNCHANGED <<channel, buffer, dropped, downFor, digestAge, owner, crashes>>

\* 4xx, or nowhere to post: not retried.
PostRefused(t) ==
  /\ thread[t].at = "post"
  /\ key = "none" \/ up
  /\ key = "none" \/ Encodes(thread[t].batch)
  /\ Refused(thread[t].batch)
  /\ Goto(t, "mark down")
  /\ UNCHANGED <<channel, buffer, dropped, downFor, digestAge, owner, stored, fate, crashes>>

\* RETRY_BACKOFF has a pause left.
Retried(attempt) == attempt < Attempts

\* Unreachable, a 5xx, or a timeout: some prefix was recorded, possibly all
\* of it, and the reporter is not told.
PostUnanswered(t) ==
  LET batch == thread[t].batch
  IN  /\ thread[t].at = "post"
      /\ ~ up /\ key # "none" /\ Encodes(batch)
      /\ \E k \in 0 .. Len(batch) :
           /\ k > 0 => Admits /\ Len(batch) <= MaxBatch /\ In(batch) \cap Invalid = {}
           /\ Record(SubSeq(batch, 1, k))
      /\ IF Retried(thread[t].attempt)
           THEN thread' = [thread EXCEPT ![t].attempt = @ + 1]
           ELSE Goto(t, "mark down")
      /\ UNCHANGED <<channel, buffer, dropped, downFor, digestAge, owner, fate, crashes>>

MarkUp(t) ==
  /\ thread[t].at = "mark up"
  /\ downFor' = NoAge
  /\ digestAge' = NoAge
  /\ Return(t)
  /\ UNCHANGED <<channel, buffer, dropped, owner, stored, fate, crashes>>

MarkDown(t) ==
  /\ thread[t].at = "mark down"
  /\ downFor' = IF downFor = NoAge THEN 0 ELSE downFor
  /\ Goto(t, "push")
  /\ UNCHANGED <<channel, buffer, dropped, digestAge, owner, stored, fate, crashes>>

OverflowByTwo(q) == IF Len(q) > BufferMax + 1 THEN 1 ELSE 0
\* buffer.push: append, and drop from the left while over the maximum.
Overflow(q) == IF Len(q) > BufferMax THEN Len(q) - BufferMax ELSE 0

Push(t) ==
  LET batch == thread[t].batch
      full == Append(buffer, Head(batch))
      cut == Overflow(full)
      gone == In(SubSeq(full, 1, cut))
  IN  /\ thread[t].at = "push"
      /\ batch # << >>
      /\ buffer' = SubSeq(full, cut + 1, Len(full))
      /\ dropped' = IF dropped + cut > MaxDropped THEN MaxDropped ELSE dropped + cut
      /\ fate' = [p \in Payloads |-> IF p \in gone THEN "dropped" ELSE fate[p]]
      /\ thread' = [thread EXCEPT ![t].batch = Tail(batch)]
      /\ UNCHANGED <<channel, downFor, digestAge, owner, stored, crashes>>

-----------------------------------------------------------------------------
(* _maybe_fallback                                                         *)

FallbackCheck(t) ==
  /\ thread[t].at = "push"
  /\ thread[t].batch = << >>
  /\ IF downFor = NoAge THEN Return(t) ELSE Goto(t, "age")
  /\ UNCHANGED <<channel, buffer, dropped, downFor, digestAge, owner, stored, fate, crashes>>

DueOnce == /\ downFor = FallbackAfter
           /\ digestAge = NoAge
           /\ buffer # << >>

Due == /\ downFor = FallbackAfter
       /\ digestAge \in {NoAge, FallbackAfter}
       /\ buffer # << >>

\* down_since is read again: another thread may have cleared it, and then the
\* subtraction raises and capture() swallows it.
FallbackSkip(t) ==
  /\ thread[t].at = "age"
  /\ ~ Due
  /\ Return(t)
  /\ UNCHANGED <<channel, buffer, dropped, downFor, digestAge, owner, stored, fate, crashes>>

\* last_fallback is set before the digest goes out, whether it arrives or not.
Digest(t) ==
  /\ thread[t].at = "age"
  /\ Due
  /\ digestAge' = 0
  /\ Return(t)
  /\ UNCHANGED <<channel, buffer, dropped, downFor, owner, stored, fate, crashes>>

-----------------------------------------------------------------------------
(* The world around                                                        *)

Older(age) == IF age = NoAge \/ age = FallbackAfter THEN age ELSE age + 1

Tick ==
  /\ downFor' = Older(downFor)
  /\ digestAge' = Older(digestAge)
  /\ UNCHANGED <<channel, buffer, dropped, thread, owner, stored, fate, crashes>>

OwnerStops ==
  /\ up
  /\ up' = FALSE
  /\ UNCHANGED <<channel, buffer, dropped, downFor, digestAge, thread, key, active,
                 stored, fate, crashes>>

\* The Bot API, the library's provider or the host's callable fails or works.
WorldChanges ==
  /\ world' \in Around
  /\ UNCHANGED <<buffer, dropped, downFor, digestAge, thread, owner, settings, stored, fate,
                 crashes>>

OwnerRecovers ==
  /\ ~ up
  /\ up' = TRUE
  /\ UNCHANGED <<channel, buffer, dropped, downFor, digestAge, thread, key, active,
                 stored, fate, crashes>>

\* alerts_service --rotate: the key the reporter was started with is no longer
\* the one on record.
RotateKey ==
  /\ key = "issued"
  /\ key' = "stale"
  /\ UNCHANGED <<channel, buffer, dropped, downFor, digestAge, thread, active, up,
                 stored, fate, crashes>>

\* ServiceAdmin: is_active, either way.
SetActive ==
  /\ active' = ~ active
  /\ UNCHANGED <<channel, buffer, dropped, downFor, digestAge, thread, key, up, stored, fate,
                 crashes>>

\* A restart may bring a redeploy: settings are read from a fresh environment,
\* which may hold the key alerts_service printed last.
RestartedKey == key' \in {key, "issued"}

\* The reporter restarts: everything it held was in memory.
Crash ==
  /\ RestartedKey
  /\ crashes < MaxCrashes
  /\ crashes' = crashes + 1
  /\ buffer' = << >>
  /\ dropped' = 0
  /\ downFor' = NoAge
  /\ digestAge' = NoAge
  /\ thread' = [t \in Threads |-> Idle]
  /\ fate' = [p \in Payloads |-> IF fate[p] \in {"held", "dropped"} THEN "lost"
                                                                    ELSE fate[p]]
  /\ UNCHANGED <<channel, active, up, stored>>

-----------------------------------------------------------------------------

Init ==
  /\ buffer = << >>
  /\ dropped = 0
  /\ downFor = NoAge
  /\ digestAge = NoAge
  /\ thread = [t \in Threads |-> Idle]
  /\ key \in {"none", "issued"} /\ active = TRUE
  /\ up \in BOOLEAN
  /\ settings \in Configured /\ world \in Around
  /\ stored = [p \in Payloads |-> 0]
  /\ fate = [p \in Payloads |-> "none"]
  /\ crashes = 0

\* A thread inside _report goes on.
Continue(t) ==
  \/ PostRaises(t) \/ PostAccepted(t) \/ PostRefused(t) \/ PostUnanswered(t)
  \/ MarkUp(t) \/ MarkDown(t) \/ Push(t)
  \/ FallbackCheck(t) \/ FallbackSkip(t) \/ Digest(t)

Next ==
  \/ \E t \in Threads : Capture(t) \/ Continue(t)
  \/ Tick \/ OwnerStops \/ OwnerRecovers \/ RotateKey \/ SetActive \/ WorldChanges \/ Crash

Spec == Init /\ [][Next]_vars

\* Nothing blocks a thread for ever (every POST has a timeout), and time passes.
FairSpec == Spec /\ WF_vars(Tick) /\ \A t \in Threads : WF_vars(Continue(t))

\* The service also keeps failing, and so keeps capturing.
BusySpec == FairSpec /\ \A t \in Threads : SF_vars(Capture(t))

-----------------------------------------------------------------------------
(* Types and safety                                                        *)

Places == {"idle", "post", "mark up", "mark down", "push", "age"}

\* Every variable holds what its attribute may hold.
TypeOK ==
  /\ buffer \in Seq(Payloads)
  /\ dropped \in 0 .. MaxDropped
  /\ downFor \in Ages /\ digestAge \in Ages
  /\ thread \in [Threads -> [at: Places, batch: Seq(Payloads), attempt: 0 .. Attempts]]
  /\ key \in {"none", "stale", "issued"} /\ active \in BOOLEAN /\ up \in BOOLEAN
  /\ settings \in Configured /\ world \in Around
  /\ stored \in [Payloads -> 0 .. 2]
  /\ fate \in [Payloads -> Fates]
  /\ crashes \in 0 .. MaxCrashes

\* "A reporter that ran out of memory would be a second outage": the buffer
\* keeps its bound however threads push, and no batch in flight exceeds it by
\* more than the payload being captured.
HeldBounded ==
  /\ Len(buffer) <= BufferMax
  /\ \A t \in Threads : Len(thread[t].batch) <= BufferMax + 1

Copies(p, q) == Cardinality({i \in DOMAIN q : q[i] = p})

\* A payload neither delivered nor counted as dropped is in memory exactly
\* once, in the buffer or in one thread's batch: drain, failed POST and push
\* back neither lose nor double it.
HeldExactlyOnce ==
  \A p \in Payloads :
    LET places == {t \in Threads : Copies(p, thread[t].batch) = 1}
    IN  /\ \A t \in Threads : Copies(p, thread[t].batch) <= 1
        /\ Copies(p, buffer) + Cardinality(places) = IF fate[p] = "held" THEN 1 ELSE 0
        /\ fate[p] = "dropped" => dropped > 0

\* What left memory on a 2xx is in the store, unless the owner ignores it or
\* cannot store it.
SettledIsStored ==
  \A p \in Payloads : fate[p] = "settled" /\ Storable(p) => stored[p] > 0

\* With one thread, buffer and batch are one mailbox.
Box == INSTANCE Mailbox WITH
         Bound <- BufferMax,
         queue <- buffer \o thread[CHOOSE t \in Threads : TRUE].batch

IsMailbox == Box!Spec

\* "The payload is held in a bounded in-memory buffer and retried on the next
\* capture", which "drops OLDEST first": while the process lives, what it holds
\* it holds until it is delivered, or dropped and counted.
HeldUntilDelivered ==
  [][crashes' = crashes =>
       \A p \in Held : fate'[p] \in {"held", "settled", "dropped"}]_vars

\* "So the issue's count stays true": no payload is recorded twice.
StoredOnce == \A p \in Payloads : stored[p] <= 1

-----------------------------------------------------------------------------
(* Liveness                                                                *)

\* Once the owner is back for good, admits the key, and is sent nothing it
\* refuses, a service that goes on capturing gets rid of everything it held,
\* again and again: a capture takes the whole buffer along, not its own payload.
BacklogIsTold ==
  <>[](/\ up /\ Admits
       /\ \A t \in Threads : thread[t].at = "post" =>
            Encodes(thread[t].batch) /\ ~ Refused(thread[t].batch))
    => []<>(Held = {})

\* "Held in a bounded in-memory buffer and retried on the next capture": once
\* the owner is back for good and admits its key, a service that goes on
\* capturing gets rid of everything it held, again and again.
RecoveredOwnerIsTold == <>[](up /\ Admits) => []<>(Held = {})

\* The digest goes out now, and lands.
Heard == \E t \in Threads : Digest(t) /\ GoesOut(settings, world)

\* "A dead alert store is loud instead of silent", and so is a rejected key:
\* while payloads are held, the owner stays down or admits nobody, and the
\* fallback channel can reach somebody, a digest is heard again and again,
\* whatever digests were lost before.
DeadStoreIsHeard ==
  <>[](/\ Held # {} /\ (~ up \/ ~ Admits)
       /\ Reachable(settings, world))
    => []<><<Heard>>_vars

\* "A configured destination that is silently ignored is a send that SUCCEEDED
\* and went to the wrong place": no digest lands outside the topic configured.
TopicIsHonoured ==
  [][\A t \in Threads : Digest(t) /\ settings.topic => Lands(settings, world) # "general"]_vars

=============================================================================
