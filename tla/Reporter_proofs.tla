--------------------------- MODULE Reporter_proofs ---------------------------
(***************************************************************************)
(* Theorems about the inputs of a process, and about a reporter from the   *)
(* failure to the owner's count, for every set of threads, every setting   *)
(* of the switches and every bound: what capture() and its limiter promise *)
(* holds behind any inputs, a failure is captured once, and what an event  *)
(* stands for is accounted for until the owner has counted it.             *)
(***************************************************************************)
EXTENDS Reporter, Capture_proofs

-----------------------------------------------------------------------------
(* The inputs only drive capture()                                         *)

\* Whatever the inputs do is, for the limiter behind them, a step of its own
\* or none.
LEMMA InputsStep == [NextInputs]_allVars => [Next]_vars
<1> SUFFICES ASSUME [NextInputs]_allVars PROVE [Next]_vars
  OBVIOUS
<1>1. ASSUME NEW t \in Threads, Announce(t) PROVE [Next]_vars
  <2>1. PICK f \in Fingerprints : Captured(t, f)
    BY <1>1 DEF Announce
  <2> QED
    BY <2>1 DEF Next
<1>2. ASSUME NEW t \in Threads, Going(t) \/ SentInCaller(t) PROVE [Next]_vars
  BY <1>2 DEF Going, SentInCaller, Capturing, Next
<1>3. ASSUME RestartAll \/ TickAll PROVE [Next]_vars
  BY <1>3 DEF RestartAll, TickAll, Next
<1>4. ASSUME NEW t \in Threads,
             \/ \E k \in Kinds : Fail(t, k)
             \/ HooksRun(t) \/ AnnounceUnheard(t) \/ Announced(t)
      PROVE  UNCHANGED vars
  BY <1>4 DEF Fail, HooksRun, AnnounceUnheard, Announced
<1>5. ASSUME Install \/ ConnectDlq \/ ConnectCelery \/ Wrap \/ Serve \/ SetupLogger
             \/ AfterSetupLogger
      PROVE  UNCHANGED vars
  BY <1>5 DEF Install, ConnectDlq, ConnectCelery, Wrap, Serve, SetupLogger, AfterSetupLogger
<1>6. ASSUME UNCHANGED allVars PROVE UNCHANGED vars
  BY <1>6 DEF allVars
<1> QED
  BY <1>1, <1>2, <1>3, <1>4, <1>5, <1>6 DEF NextInputs

\* A process with inputs behaves, for its limiter, as Capture says.
THEOREM InputsDriveCapture == SpecInputs => Spec
<1>1. InitInputs => Init
  BY DEF InitInputs
<1> QED
  BY <1>1, InputsStep, PTL DEF SpecInputs, Spec

\* Nothing is forgotten behind any inputs: what Capture's Conservation says of
\* threads that capture at will, of threads that announce failures.
THEOREM InputsConservation == SpecInputs => []NothingForgotten
BY InputsDriveCapture, Conservation, PTL

\* No inputs make the limiter send more than its windows allow.
THEOREM InputsFlood == SpecInputs => []FloodIsBounded
BY InputsDriveCapture, Flood, PTL

-----------------------------------------------------------------------------
(* The tables                                                              *)

\* What each kind of failure is logged by and given to.
LEMMA Tables ==
  /\ LoggerOf["log"] = "host" /\ InputOf["log"] = "none"
  /\ LoggerOf["5xx"] = "django.request" /\ InputOf["5xx"] = "exception handler"
  /\ LoggerOf["task"] = "celery.app.trace" /\ InputOf["task"] = "task_failure"
  /\ LoggerOf["park"] = "stapel_core.bus.dlq" /\ InputOf["park"] = "bus_event_parked"
  /\ LoggerOf["handler"] = "stapel_core.comm.actions" /\ InputOf["handler"] = "deliver"
  /\ LoggerOf["hook"] = "stapel_alerts" /\ InputOf["hook"] = "none"
BY DEF LoggerOf, InputOf, Kinds

\* A handler's failure, a line and a hook's have no switch.
LEMMA NoSwitch == Enabled("log") /\ Enabled("handler") /\ Enabled("hook")
BY DEF Enabled

-----------------------------------------------------------------------------
(* How far a process has started                                           *)

\* What is wired at each stage of the start, and nothing else: the reports of a
\* failure are counted in a state of the last stage.
Wired ==
  /\ handlers \in {{}, {"log handler"}}
  /\ boot \in {"started", "handler", "dlq", "celery", "ready", "logger set up", "serving"}
  /\ connected \subseteq {"bus_event_parked", "task_failure", "after_setup_logger", "deliver",
                          "exception handler"}
  /\ boot \in {"started", "handler"} => connected = {} /\ superseded = {}
  /\ boot = "started" => handlers = {}
  /\ boot \notin {"started", "logger set up"} => handlers = {"log handler"}
  /\ boot \notin {"started", "handler"} => "bus_event_parked" \in connected
  /\ boot \in {"dlq", "celery"} => superseded = {"stapel_core.bus.dlq"}
  /\ boot \in {"ready", "logger set up", "serving"} =>
       /\ {"deliver", "exception handler"} \subseteq connected
       /\ superseded = {"stapel_core.bus.dlq", "stapel_core.comm.actions"}

\* A process that has just started has nothing wired.
LEMMA InitWired == InitInputs => Wired
BY DEF InitInputs, Wired

\* Each step of the start wires what its stage says; no other step wires.
LEMMA NextWired == Wired /\ [NextInputs]_allVars => Wired'
<1> SUFFICES ASSUME Wired, [NextInputs]_allVars PROVE Wired'
  OBVIOUS
<1>1. ASSUME Install PROVE Wired'
  BY <1>1 DEF Wired, Install, Stage, Added
<1>2. ASSUME ConnectDlq PROVE Wired'
  BY <1>2 DEF Wired, ConnectDlq, Stage, SupersededByPark
<1>3. ASSUME ConnectCelery PROVE Wired'
  BY <1>3 DEF Wired, ConnectCelery, Stage
<1>4. ASSUME Wrap PROVE Wired'
  BY <1>4 DEF Wired, Wrap, Stage
<1>5. ASSUME Serve PROVE Wired'
  BY <1>5 DEF Wired, Serve, Stage
<1>6. ASSUME SetupLogger PROVE Wired'
  BY <1>6 DEF Wired, SetupLogger, Stage
<1>7. ASSUME AfterSetupLogger PROVE Wired'
  BY <1>7 DEF Wired, AfterSetupLogger, Stage, Reinstalled, Added
<1>8. ASSUME RestartAll PROVE Wired'
  BY <1>8 DEF Wired, RestartAll
<1>9. ASSUME UNCHANGED wiring PROVE Wired'
  BY <1>9 DEF Wired, wiring
<1>10. ASSUME NEW t \in Threads,
              \/ \E k \in Kinds : Fail(t, k)
              \/ HooksRun(t) \/ Announce(t) \/ AnnounceUnheard(t) \/ Announced(t)
              \/ Going(t) \/ SentInCaller(t)
       PROVE  UNCHANGED wiring
  BY <1>10 DEF Fail, HooksRun, Announce, AnnounceUnheard, Announced, Going, SentInCaller,
     inputVars
<1>11. ASSUME TickAll \/ UNCHANGED allVars PROVE UNCHANGED wiring
  BY <1>11 DEF TickAll, inputVars, allVars
<1> QED
  BY <1>1, <1>2, <1>3, <1>4, <1>5, <1>6, <1>7, <1>8, <1>9, <1>10, <1>11 DEF NextInputs

-----------------------------------------------------------------------------
(* A failure owes what it comes to                                         *)

\* The announcements among some that a failure of kind k is captured by.
HeardOf(k, announcements) == {a \in announcements : Heard(k, a)}

\* A finite set with an element more.
LEMMA OneMore ==
  ASSUME NEW S, NEW x, IsFiniteSet(S), x \notin S, Cardinality(S) = 1
  PROVE  IsFiniteSet(S \cup {x}) /\ Cardinality(S \cup {x}) = 2
<1>1. IsFiniteSet(S \cup {x}) /\ Cardinality(S \cup {x}) = Cardinality(S) + 1
  BY FS_AddElement, Zenon
<1>2. 1 + 1 = 2
  OBVIOUS
<1> QED
  BY <1>1, <1>2, Zenon

\* A finite set with an element less.
LEMMA OneLess ==
  ASSUME NEW S, NEW x \in S, IsFiniteSet(S), NEW n \in Nat, NEW m \in Nat,
         n + Cardinality(S) = m
  PROVE  IsFiniteSet(S \ {x}) /\ n + 1 + Cardinality(S \ {x}) = m
<1>1. IsFiniteSet(S \ {x}) /\ Cardinality(S \ {x}) = Cardinality(S) - 1
  BY FS_RemoveElement, Zenon
<1>2. PICK c \in Nat : c = Cardinality(S)
  BY FS_CardinalityType
<1>3. n + c = m /\ Cardinality(S \ {x}) = c - 1
  BY <1>1, <1>2
<1>4. n + 1 + (c - 1) = m
  BY <1>3
<1> QED
  BY <1>1, <1>3, <1>4, Zenon

\* A process that serves hears each kind of failure in as many ways as Reports
\* says: the settings and the superseded loggers leave no kind but a task's with two.
LEMMA HeardAsReported ==
  ASSUME Wired, boot = "serving", NEW k \in Kinds,
         k = "task" => "task_failure" \in connected
  PROVE  /\ IsFiniteSet(HeardOf(k, Announcements(k)))
         /\ Cardinality(HeardOf(k, Announcements(k))) = Reports(k)
<1>0. /\ handlers = {"log handler"} /\ "log handler" \notin connected
      /\ {"bus_event_parked", "deliver", "exception handler"} \subseteq connected
      /\ "none" \notin connected
      /\ superseded = {"stapel_core.bus.dlq", "stapel_core.comm.actions"}
  BY DEF Wired
<1>1. CASE k = "log" \/ k = "hook"
  <2>1. Announcements(k) = {"log handler"}
    BY <1>0, <1>1, Tables DEF Announcements
  <2>2. Heard(k, "log handler") <=> k = "log"
    BY <1>0, <1>1, Tables DEF Heard, Excluded, LOG_EXCLUDE
  <2>3. HeardOf(k, Announcements(k)) = IF k = "log" THEN {"log handler"} ELSE {}
    BY <2>1, <2>2 DEF HeardOf
  <2>4. Reports(k) = IF k = "log" THEN 1 ELSE 0
    BY <1>1, NoSwitch DEF Reports
  <2> QED
    BY <2>3, <2>4, FS_EmptySet, FS_Singleton
<1>2. CASE k = "task"
  <2>1. Announcements(k) = {"log handler", "task_failure"}
    BY <1>0, <1>2, Tables DEF Announcements
  <2>2. Heard(k, "log handler") /\ (Heard(k, "task_failure") <=> Enabled(k))
    BY <1>0, <1>2, Tables DEF Heard, Excluded, LOG_EXCLUDE
  <2>3. HeardOf(k, Announcements(k)) =
          {"log handler"} \cup (IF Enabled(k) THEN {"task_failure"} ELSE {})
    BY <2>1, <2>2 DEF HeardOf
  <2>4. Reports(k) = IF Enabled(k) THEN 2 ELSE 1
    BY <1>2 DEF Reports
  <2>5. IsFiniteSet({"log handler"}) /\ Cardinality({"log handler"}) = 1
    BY FS_Singleton
  <2>6. /\ IsFiniteSet({"log handler"} \cup {"task_failure"})
        /\ Cardinality({"log handler"} \cup {"task_failure"}) = 2
    <3>1. "task_failure" \notin {"log handler"}
      OBVIOUS
    <3> QED
      BY <2>5, <3>1, OneMore
  <2> QED
    BY <2>3, <2>4, <2>5, <2>6
<1>3. CASE k \in {"5xx", "park", "handler"}
  <2>1. InputOf[k] \in connected /\ InputOf[k] # "log handler"
    BY <1>0, <1>3, Tables
  <2>2. LoggerOf[k] \in {"django.request", "stapel_core.bus.dlq", "stapel_core.comm.actions"}
    BY <1>3, Tables
  <2>3. Announcements(k) = {"log handler", InputOf[k]}
    BY <1>0, <2>1 DEF Announcements
  <2>4. ~ Heard(k, "log handler") /\ (Heard(k, InputOf[k]) <=> Enabled(k))
    BY <1>0, <2>1, <2>2 DEF Heard, Excluded, LOG_EXCLUDE
  <2>5. HeardOf(k, Announcements(k)) = IF Enabled(k) THEN {InputOf[k]} ELSE {}
    BY <2>3, <2>4 DEF HeardOf
  <2>6. Reports(k) = IF Enabled(k) THEN 1 ELSE 0
    BY <1>3 DEF Reports
  <2> QED
    BY <2>5, <2>6, FS_EmptySet, FS_Singleton
<1> QED
  BY <1>1, <1>2, <1>3 DEF Kinds

\* What is still to be announced makes up for what has been captured.
Owed(t) ==
  LET k == failure[t].kind
  IN  /\ boot = "serving"
      /\ failure[t] \in [kind: Kinds, left: SUBSET (handlers \cup connected), heard: Nat]
      /\ IsFiniteSet(HeardOf(k, failure[t].left))
      /\ failure[t].heard + Cardinality(HeardOf(k, failure[t].left)) = Reports(k)

\* The inductive invariant behind InputsTypeOK and OnceButForTasks.
InputsInv ==
  /\ failure = [t \in Threads |-> failure[t]]
  /\ \A t \in Threads : failure[t] # NothingLeft => Owed(t)

\* A failure is captured as often as it is reported, and no more on the way.
LEMMA OwedOnce == InputsInv => OnceButForTasks
<1> SUFFICES ASSUME InputsInv, NEW t \in Threads, failure[t] # NothingLeft
             PROVE  /\ failure[t].heard <= Reports(failure[t].kind)
                    /\ failure[t].left = {} => failure[t].heard = Reports(failure[t].kind)
  BY DEF OnceButForTasks
<1> DEFINE rest == HeardOf(failure[t].kind, failure[t].left)
<1>1. /\ failure[t].heard \in Nat /\ IsFiniteSet(rest)
      /\ failure[t].heard + Cardinality(rest) = Reports(failure[t].kind)
  BY DEF InputsInv, Owed
<1>2. Cardinality(rest) \in Nat
  BY <1>1, FS_CardinalityType
<1>3. failure[t].left = {} => Cardinality(rest) = 0
  BY FS_EmptySet DEF HeardOf
<1> HIDE DEF rest
<1> QED
  BY <1>1, <1>2, <1>3

\* Nothing is owed before anything fails.
LEMMA InitOwed == InitInputs => InputsInv
BY DEF InitInputs, InputsInv

\* What the tables and the wiring say does not change while a process serves.
LEMMA SameTables ==
  ASSUME UNCHANGED wiring, NEW k, NEW S
  PROVE  /\ Announcements(k)' = Announcements(k)
         /\ Reports(k)' = Reports(k)
         /\ HeardOf(k, S)' = HeardOf(k, S)
         /\ Heard(k, S)' <=> Heard(k, S)
BY DEF wiring, Announcements, Reports, HeardOf, Heard, Excluded, Enabled

\* One thread's failure changes: if it owes what it should, all do.
LEMMA OneOwes ==
  ASSUME InputsInv, UNCHANGED wiring, NEW t \in Threads, NEW v,
         failure' = [failure EXCEPT ![t] = v],
         failure'[t] = v => v = NothingLeft \/ Owed(t)'
  PROVE  InputsInv'
<1>1. failure'[t] = v /\ failure' = [s \in Threads |-> failure'[s]]
  BY DEF InputsInv
<1>2. ASSUME NEW s \in Threads \ {t}, failure'[s] # NothingLeft PROVE Owed(s)'
  <2>1. failure'[s] = failure[s]
    BY DEF InputsInv
  <2>2. Owed(s)
    BY <1>2, <2>1 DEF InputsInv
  <2> QED
    BY <2>1, <2>2 DEF Owed, wiring, Announcements, Reports, HeardOf, Heard, Excluded, Enabled
<1> QED
  BY <1>1, <1>2 DEF InputsInv

\* A failure owes what its kind comes to.
LEMMA FailOwed ==
  ASSUME Wired, InputsInv, NEW t \in Threads, NEW k \in Kinds, Fail(t, k)
  PROVE  InputsInv'
<1> DEFINE v == [kind |-> k, left |-> Announcements(k), heard |-> 0]
<1>1. boot = "serving" /\ UNCHANGED wiring
  BY DEF Fail
<1>2. failure' = [failure EXCEPT ![t] = v] /\ (k = "task" => "task_failure" \in connected)
  BY DEF Fail
<1>3. ASSUME failure'[t] = v PROVE Owed(t)'
  <2>1. /\ Announcements(k)' = Announcements(k) /\ Reports(k)' = Reports(k)
        /\ HeardOf(k, Announcements(k))' = HeardOf(k, Announcements(k))
    BY <1>1 DEF wiring, Announcements, Reports, HeardOf, Heard, Excluded, Enabled
  <2>2. v \in [kind: Kinds, left: SUBSET (handlers \cup connected), heard: Nat]
    BY DEF Announcements
  <2> QED
    <3>1. /\ IsFiniteSet(HeardOf(k, Announcements(k)))
          /\ Cardinality(HeardOf(k, Announcements(k))) = Reports(k)
      BY <1>1, <1>2, HeardAsReported
    <3>2. Reports(k) \in Nat
      BY DEF Reports
    <3>3. /\ failure'[t].kind = k /\ failure'[t].left = Announcements(k)
          /\ failure'[t].heard = 0 /\ boot' = "serving"
          /\ failure'[t] \in [kind: Kinds, left: SUBSET (handlers \cup connected)', heard: Nat]
      BY <1>1, <1>3, <2>2 DEF wiring
    <3> HIDE DEF v
    <3> QED
      BY <2>1, <3>1, <3>2, <3>3 DEF Owed
<1> HIDE DEF v
<1> QED
  BY <1>1, <1>2, <1>3, OneOwes

\* A failure whose announcement is captured has come to what it comes to.
LEMMA AnnounceOwed ==
  ASSUME InputsInv, NEW t \in Threads, Announce(t)
  PROVE  InputsInv'
<1>1. PICK a \in failure[t].left :
        /\ Heard(failure[t].kind, a)
        /\ failure' = [failure EXCEPT ![t].left = @ \ {a}, ![t].heard = @ + 1]
  BY DEF Announce
<1>2. UNCHANGED wiring /\ Owed(t) /\ failure[t] # NothingLeft
  BY DEF Announce, InputsInv
<1>3. PICK k \in Kinds : k = failure[t].kind
  BY <1>2 DEF Owed
<1>4. PICK left, n : left = failure[t].left /\ n = failure[t].heard
  OBVIOUS
<1>5. /\ a \in HeardOf(k, left) /\ n \in Nat
      /\ IsFiniteSet(HeardOf(k, left)) /\ n + Cardinality(HeardOf(k, left)) = Reports(k)
  BY <1>1, <1>2, <1>3, <1>4 DEF Owed, HeardOf
<1>6. HeardOf(k, left \ {a}) = HeardOf(k, left) \ {a}
  BY DEF HeardOf
<1>7. /\ IsFiniteSet(HeardOf(k, left \ {a}))
      /\ n + 1 + Cardinality(HeardOf(k, left \ {a})) = Reports(k)
  <2>1. PICK m \in Nat : m = Reports(k)
    BY DEF Reports
  <2>2. PICK S : S = HeardOf(k, left)
    OBVIOUS
  <2>3. a \in S /\ IsFiniteSet(S) /\ n \in Nat /\ n + Cardinality(S) = m
    BY <1>5, <2>1, <2>2
  <2>4. IsFiniteSet(S \ {a}) /\ n + 1 + Cardinality(S \ {a}) = m
    BY <2>3, OneLess
  <2> QED
    BY <1>6, <2>1, <2>2, <2>4
<1> DEFINE v == [failure[t] EXCEPT !.left = @ \ {a}, !.heard = @ + 1]
<1>8. failure' = [failure EXCEPT ![t] = v]
  BY <1>1 DEF InputsInv
<1>9. ASSUME failure'[t] = v PROVE Owed(t)'
  <2>1. /\ v.kind = k /\ v.left = left \ {a} /\ v.heard = n + 1
        /\ v \in [kind: Kinds, left: SUBSET (handlers \cup connected), heard: Nat]
    <3>1. failure[t] \in [kind: Kinds, left: SUBSET (handlers \cup connected), heard: Nat]
      BY <1>2 DEF Owed
    <3>2. v = [failure[t] EXCEPT !.left = left \ {a}, !.heard = n + 1]
      BY <1>4
    <3>3. left \ {a} \in SUBSET (handlers \cup connected) /\ n + 1 \in Nat
      BY <1>4, <1>5, <3>1
    <3> HIDE DEF v
    <3> QED
      BY <1>3, <3>1, <3>2, <3>3
  <2>2. Reports(k)' = Reports(k) /\ HeardOf(k, left \ {a})' = HeardOf(k, left \ {a})
    BY <1>2 DEF wiring, Reports, HeardOf, Heard, Excluded, Enabled
  <2> HIDE DEF v
  <2> QED
    BY <1>2, <1>7, <1>9, <2>1, <2>2 DEF Owed, wiring
<1> HIDE DEF v
<1> QED
  BY <1>2, <1>8, <1>9, OneOwes

\* An announcement nobody listens to changes nothing of what is owed.
LEMMA UnheardOwed ==
  ASSUME InputsInv, NEW t \in Threads, AnnounceUnheard(t)
  PROVE  InputsInv'
<1>1. PICK a \in failure[t].left :
        /\ ~ Heard(failure[t].kind, a)
        /\ failure' = [failure EXCEPT ![t].left = @ \ {a}]
  BY DEF AnnounceUnheard
<1>2. UNCHANGED wiring /\ Owed(t) /\ failure[t] # NothingLeft
  BY DEF AnnounceUnheard, InputsInv
<1>3. PICK k \in Kinds : k = failure[t].kind
  BY <1>2 DEF Owed
<1>4. PICK left, n : left = failure[t].left /\ n = failure[t].heard
  OBVIOUS
<1>5. HeardOf(k, left \ {a}) = HeardOf(k, left)
  BY <1>1, <1>2, <1>3, <1>4 DEF HeardOf
<1> DEFINE v == [failure[t] EXCEPT !.left = @ \ {a}]
<1>6. failure' = [failure EXCEPT ![t] = v]
  BY <1>1 DEF InputsInv
<1>7. ASSUME failure'[t] = v PROVE Owed(t)'
  <2>1. /\ v.kind = k /\ v.left = left \ {a} /\ v.heard = n
        /\ v \in [kind: Kinds, left: SUBSET (handlers \cup connected), heard: Nat]
    <3>1. failure[t] \in [kind: Kinds, left: SUBSET (handlers \cup connected), heard: Nat]
      BY <1>2 DEF Owed
    <3> QED
      BY <1>3, <1>4, <3>1
  <2>2. Reports(k)' = Reports(k) /\ HeardOf(k, left \ {a})' = HeardOf(k, left \ {a})
    BY <1>2 DEF wiring, Reports, HeardOf, Heard, Excluded, Enabled
  <2>3. /\ IsFiniteSet(HeardOf(k, left \ {a}))
        /\ n + Cardinality(HeardOf(k, left \ {a})) = Reports(k)
    BY <1>2, <1>3, <1>4, <1>5 DEF Owed
  <2> HIDE DEF v
  <2> QED
    BY <1>2, <1>7, <2>1, <2>2, <2>3 DEF Owed, wiring
<1> HIDE DEF v
<1> QED
  BY <1>2, <1>6, <1>7, OneOwes

\* A failure announced in every way owes nothing any more.
LEMMA AnnouncedOwed ==
  ASSUME InputsInv, NEW t \in Threads, Announced(t)
  PROVE  InputsInv'
BY OneOwes DEF Announced

\* While a process starts nothing has failed yet.
LEMMA StartOwed ==
  ASSUME InputsInv, boot # "serving", UNCHANGED failure
  PROVE  InputsInv'
BY DEF InputsInv, Owed

\* Every step leaves every failure owing what it should.
LEMMA NextOwed == Wired /\ InputsInv /\ [NextInputs]_allVars => InputsInv'
<1> SUFFICES ASSUME Wired, InputsInv, [NextInputs]_allVars PROVE InputsInv'
  OBVIOUS
<1>1. ASSUME Install \/ ConnectDlq \/ ConnectCelery \/ Wrap \/ Serve \/ SetupLogger
             \/ AfterSetupLogger
      PROVE  InputsInv'
  BY <1>1, StartOwed DEF Install, ConnectDlq, ConnectCelery, Wrap, Serve, SetupLogger,
     AfterSetupLogger, Stage
<1>2. ASSUME UNCHANGED <<wiring, failure>> PROVE InputsInv'
  BY <1>2 DEF InputsInv, Owed, wiring, Announcements, Reports, HeardOf, Heard, Excluded,
     Enabled
<1>3. ASSUME NEW t \in Threads, HooksRun(t) \/ Going(t) \/ SentInCaller(t) PROVE InputsInv'
  BY <1>2, <1>3 DEF HooksRun, Going, SentInCaller, inputVars
<1>4. ASSUME TickAll \/ UNCHANGED allVars PROVE InputsInv'
  BY <1>2, <1>4 DEF TickAll, inputVars, allVars
<1>5. ASSUME RestartAll PROVE InputsInv'
  BY <1>5 DEF RestartAll, InputsInv
<1> QED
  BY <1>1, <1>3, <1>4, <1>5, FailOwed, AnnounceOwed, UnheardOwed, AnnouncedOwed DEF NextInputs

\* "Without it a park opens two issues with two fingerprints" (inputs.py): for
\* any switches, any number of threads and restarts, a failure other than a
\* task's is captured once, by its line or by its structured input, and one of
\* the alert path never; a task's is captured by Celery's line and, where it is
\* switched on, by the signal too.
THEOREM FailureOnce == SpecInputs => []OnceButForTasks
BY InitWired, NextWired, InitOwed, NextOwed, OwedOnce, PTL DEF SpecInputs

-----------------------------------------------------------------------------
(* Type correctness                                                        *)

\* The rest of a well-typed state of the inputs.
RestTyped == gates \in Gates /\ hooks \subseteq Threads /\ failures \in 0 .. MaxFailures

\* Every step keeps the switches, and counts hooks and failures.
LEMMA NextRest == RestTyped /\ [NextInputs]_allVars => RestTyped'
<1> SUFFICES ASSUME RestTyped, [NextInputs]_allVars PROVE RestTyped'
  OBVIOUS
<1>1. ASSUME Install \/ ConnectDlq \/ ConnectCelery \/ Wrap \/ Serve \/ SetupLogger
             \/ AfterSetupLogger \/ RestartAll \/ TickAll \/ UNCHANGED allVars
      PROVE  RestTyped'
  BY <1>1 DEF Install, ConnectDlq, ConnectCelery, Wrap, Serve, SetupLogger, AfterSetupLogger,
     RestartAll, TickAll, allVars, inputVars, wiring, RestTyped
<1>2. ASSUME NEW t \in Threads, NEW k \in Kinds, Fail(t, k) PROVE RestTyped'
  BY <1>2, InputsAssumption DEF Fail, wiring, RestTyped
<1>3. ASSUME NEW t \in Threads,
             HooksRun(t) \/ Announce(t) \/ AnnounceUnheard(t) \/ Announced(t) \/ Going(t)
             \/ SentInCaller(t)
      PROVE  RestTyped'
  BY <1>3 DEF HooksRun, Announce, AnnounceUnheard, Announced, Going, SentInCaller, inputVars,
     wiring, RestTyped
<1> QED
  BY <1>1, <1>2, <1>3 DEF NextInputs

\* Wired and Owed say what the inputs' variables hold.
LEMMA PartsOfInputs == TypeOK /\ Wired /\ InputsInv /\ RestTyped => InputsTypeOK
<1> SUFFICES ASSUME TypeOK, Wired, InputsInv, RestTyped PROVE InputsTypeOK
  OBVIOUS
<1>1. connected \subseteq {InputOf[k] : k \in Kinds} \cup {"after_setup_logger"}
  BY Tables DEF Wired, Kinds
<1>2. superseded \subseteq {LoggerOf[k] : k \in Kinds}
  BY Tables DEF Wired, Kinds
<1>3. ASSUME NEW t \in Threads
      PROVE  failure[t] \in {NothingLeft} \cup
               [kind: Kinds, left: SUBSET (handlers \cup connected), heard: Nat]
  BY DEF InputsInv, Owed
<1> QED
  <2>1. failure \in [Threads -> {NothingLeft} \cup
                        [kind: Kinds, left: SUBSET (handlers \cup connected), heard: Nat]]
    BY <1>3 DEF InputsInv
  <2>2. handlers \subseteq {"log handler"}
    BY DEF Wired
  <2> QED
    BY <1>1, <1>2, <2>1, <2>2 DEF InputsTypeOK, Wired, RestTyped

\* Typing: at every stage of a start and whatever threads meet, each variable
\* holds what its attribute may hold, and there is one log handler at most.
THEOREM InputsTyping == SpecInputs => []InputsTypeOK
<1>1. InitInputs => RestTyped
  BY InputsAssumption DEF InitInputs, RestTyped
<1>2. SpecInputs => []TypeOK
  BY InputsDriveCapture, Typing, PTL
<1> QED
  BY <1>1, <1>2, InitWired, NextWired, InitOwed, NextOwed, NextRest, PartsOfInputs, PTL
     DEF SpecInputs

-----------------------------------------------------------------------------
(* A reporter is its inputs, and its outbox                                *)

\* Whatever a reporter does is, for its inputs, a step of theirs or none.
LEMMA InputsOfReporter == [NextReporter]_reporterVars => [NextInputs]_allVars
<1> SUFFICES ASSUME [NextReporter]_reporterVars PROVE [NextInputs]_allVars
  OBVIOUS
<1>1. ASSUME Starting PROVE NextInputs
  BY <1>1 DEF Starting, NextInputs
<1>2. ASSUME NEW t \in Threads, Announcing(t) PROVE NextInputs
  BY <1>2 DEF Announcing, NextInputs
<1>3. ASSUME NEW t \in Threads, Limiting(t) \/ HandOver(t) PROVE NextInputs
  <2>1. Going(t)
    BY <1>3 DEF Limiting, HandOver, Going, Capturing
  <2> QED
    BY <2>1 DEF NextInputs
<1>4. ASSUME TickReporter \/ RestartReporter PROVE NextInputs
  BY <1>4 DEF TickReporter, RestartReporter, NextInputs
<1>5. ASSUME NEW t \in Threads, Reporting(t) PROVE UNCHANGED allVars
  BY <1>5 DEF Reporting
<1>6. ASSUME Surroundings \/ UNCHANGED reporterVars PROVE UNCHANGED allVars
  BY <1>6 DEF Surroundings, reporterVars
<1> QED
  BY <1>1, <1>2, <1>3, <1>4, <1>5, <1>6 DEF NextReporter

\* A reporter's inputs and its limiter behave as Inputs says, whatever becomes
\* of what they send: its failures are captured once, and its limiter forgets
\* nothing.
THEOREM ReporterIsInputs == SpecReporter => SpecInputs
<1>1. InitReporter => InitInputs
  BY DEF InitReporter
<1> QED
  BY <1>1, InputsOfReporter, PTL DEF SpecReporter, SpecInputs

\* Whatever a reporter does is, for its outbox, a step of Transport or none.
LEMMA OutboxOfReporter == [NextReporter]_reporterVars => [Outbox!Next]_(Outbox!vars)
<1> SUFFICES ASSUME [NextReporter]_reporterVars PROVE [Outbox!Next]_(Outbox!vars)
  OBVIOUS
<1>1. ASSUME NEW t \in Threads, HandOver(t) \/ Reporting(t) PROVE Outbox!Next
  BY <1>1 DEF HandOver, Reporting, Outbox!Next
<1>2. ASSUME Surroundings \/ TickReporter \/ RestartReporter PROVE Outbox!Next
  BY <1>2 DEF Surroundings, TickReporter, RestartReporter, Outbox!Next
<1>3. ASSUME UNCHANGED <<sending, restarts>> PROVE UNCHANGED Outbox!vars
  BY <1>3 DEF sending, Outbox!vars, Outbox!owner, Outbox!channel
<1>4. ASSUME Starting PROVE UNCHANGED <<sending, restarts>>
  BY <1>4 DEF Starting, Install, ConnectDlq, ConnectCelery, Wrap, Serve, SetupLogger,
     AfterSetupLogger, vars
<1>5. ASSUME NEW t \in Threads, Announcing(t) \/ Limiting(t)
      PROVE  UNCHANGED <<sending, restarts>>
  BY <1>5 DEF Announcing, Limiting, Fail, Announce, AnnounceUnheard, Announced, Captured,
     OpenWindow, Accept, Suppress, Allow, vars
<1>6. ASSUME UNCHANGED reporterVars PROVE UNCHANGED <<sending, restarts>>
  BY <1>6 DEF reporterVars, allVars, vars
<1> QED
  BY <1>1, <1>2, <1>3, <1>4, <1>5, <1>6 DEF NextReporter

\* Behind the limiter, buffer and POSTs behave as Transport says: what is proved
\* of a process whose threads capture at will holds of threads that capture
\* what the limiter lets through.
THEOREM ReporterIsOutbox == SpecReporter => Outbox!Spec
<1>1. InitReporter => Outbox!Init
  BY DEF InitReporter
<1> QED
  BY <1>1, OutboxOfReporter, PTL DEF SpecReporter, Outbox!Spec

-----------------------------------------------------------------------------
(* What an event stands for                                                *)

\* What payloads stand for, by payload.
Weights(f) == [p \in Payloads |-> Weight(p, f)]

\* The invariant behind CountIsAccountedFor: a payload has a load once it was
\* handed over, the owner has recorded what it took and could store, and the
\* payloads handed over stand for all that the limiter told.
LoadInv ==
  /\ load \in [Payloads -> {NotSent} \cup Loads]
  /\ fate \in [Payloads -> Outbox!Fates]
  /\ stored \in [Payloads -> 0 .. 2]
  /\ \A p \in Payloads : load[p] = NotSent => fate[p] # "held"
  /\ \A p \in Payloads : load[p] # NotSent => fate[p] # "none"
  /\ \A p \in Payloads : fate[p] = "settled" /\ Outbox!Storable(p) => stored[p] > 0
  /\ \A f \in Fingerprints : tally[f].told = Number(f, Payloads)

\* What payloads stand for is the units of their weights.
LEMMA NumberUnits ==
  ASSUME NEW f
  PROVE  Number(f, Payloads) = Cardinality(Units(Weights(f), Payloads))
<1>1. StandFor(f, Payloads) = Units(Weights(f), Payloads)
  BY DEF StandFor, Units, Weights
<1> QED
  BY <1>1 DEF Number

\* What a payload stands for is a count.
LEMMA WeightTyped ==
  ASSUME LoadInv, NEW f
  PROVE  \A p \in Payloads : Weights(f)[p] \in Nat
BY DEF LoadInv, Weights, Weight, Loads

\* A payload that is not excused is counted or stands for nothing.
LEMMA WholeNumber ==
  ASSUME LoadInv, NEW f
  PROVE  Number(f, Counted \cup Excused) = Number(f, Payloads)
<1>1. ASSUME NEW p \in Payloads, p \notin Counted \cup Excused
      PROVE  Weight(p, f) = 0
  <2>1. fate[p] \in {"none", "settled"}
    BY <1>1 DEF LoadInv, Outbox!Fates, Excused
  <2>2. fate[p] # "settled"
    BY <1>1 DEF LoadInv, Excused, Counted
  <2>3. load[p] = NotSent
    BY <2>1, <2>2 DEF LoadInv
  <2> QED
    BY <2>3 DEF Weight
<1>2. ASSUME NEW p \in Payloads, p \notin Counted \cup Excused
      PROVE  {p} \X (1 .. Weight(p, f)) = {}
  BY <1>1, <1>2
<1>3. Counted \cup Excused \subseteq Payloads
  BY DEF Counted, Excused
<1>4. StandFor(f, Counted \cup Excused) = StandFor(f, Payloads)
  BY <1>2, <1>3 DEF StandFor
<1> QED
  BY <1>4 DEF Number

\* What the limiter does not forget, and what payloads stand for, come to the
\* count.
LEMMA AccountedFor == NothingForgotten /\ LoadInv => CountIsAccountedFor
BY WholeNumber DEF NothingForgotten, LoadInv, CountIsAccountedFor

\* A process that has just started has handed nothing over.
LEMMA InitLoads == InitReporter => LoadInv
<1> SUFFICES ASSUME InitReporter PROVE LoadInv
  OBVIOUS
<1>1. /\ load = [p \in Payloads |-> NotSent]
      /\ fate = [p \in Payloads |-> "none"]
      /\ stored = [p \in Payloads |-> 0]
  BY DEF InitReporter, Outbox!Init
<1>2. ASSUME NEW f \in Fingerprints PROVE tally[f].told = Number(f, Payloads)
  <2>1. \A p \in Payloads : {p} \X (1 .. Weight(p, f)) = {}
    BY <1>1 DEF Weight
  <2>2. StandFor(f, Payloads) = {}
    BY <2>1 DEF StandFor
  <2>3. Number(f, Payloads) = 0
    BY <2>2, FS_EmptySet DEF Number
  <2>4. tally[f].told = 0
    BY DEF InitReporter, InitInputs, Init
  <2> QED
    BY <2>3, <2>4
<1> QED
  BY <1>1, <1>2 DEF LoadInv, Outbox!Fates

\* What no step of the outbox but a capture does: hold a payload anew, or forget
\* that it was one; and what the owner took and can store, it has stored.
Onward ==
  /\ fate' \in [Payloads -> Outbox!Fates]
  /\ stored' \in [Payloads -> 0 .. 2]
  /\ \A p \in Payloads : fate'[p] = "held" => fate[p] = "held"
  /\ \A p \in Payloads : fate'[p] = "none" => fate[p] = "none"
  /\ \A p \in Payloads : fate'[p] = "settled" /\ Outbox!Storable(p) => stored'[p] > 0

\* A step that changes no more than the place of payloads in memory, or loses
\* them, goes onward.
LEMMA OnwardByLoss ==
  ASSUME LoadInv, stored' = stored, NEW S, NEW end \in {"dropped", "lost"},
         fate' = [p \in Payloads |-> IF p \in S THEN end ELSE fate[p]]
  PROVE  Onward
BY DEF LoadInv, Onward, Outbox!Fates

\* Recording a batch, or some of it, keeps what was recorded.
LEMMA RecordOnward ==
  ASSUME LoadInv, NEW items, Outbox!Record(items)
  PROVE  /\ stored' \in [Payloads -> 0 .. 2]
         /\ \A p \in Payloads : stored'[p] >= stored[p]
         /\ \A p \in Payloads : p \in Outbox!In(items) /\ Outbox!Storable(p) => stored'[p] > 0
<1>1. stored' = [p \in Payloads |->
                   IF p \in Outbox!In(items) /\ Outbox!Storable(p) /\ stored[p] < 2
                     THEN stored[p] + 1 ELSE stored[p]]
  BY DEF Outbox!Record
<1>2. \A p \in Payloads : stored[p] \in 0 .. 2
  BY DEF LoadInv
<1> QED
  BY <1>1, <1>2

\* A thread in _report goes onward.
LEMMA ContinueOnward ==
  ASSUME LoadInv, NEW t \in Threads, Outbox!Continue(t)
  PROVE  Onward
<1>0. ASSUME UNCHANGED <<fate, stored>> PROVE Onward
  BY <1>0 DEF LoadInv, Onward
<1>1. CASE Outbox!PostRaises(t)
  BY <1>1, OnwardByLoss DEF Outbox!PostRaises
<1>2. CASE Outbox!PostAccepted(t)
  <2> DEFINE batch == report[t].batch
  <2>1. /\ Outbox!Record(batch)
        /\ fate' = [p \in Payloads |-> IF p \in Outbox!In(batch) THEN "settled" ELSE fate[p]]
    BY <1>2 DEF Outbox!PostAccepted
  <2> HIDE DEF batch
  <2>2. /\ stored' \in [Payloads -> 0 .. 2]
        /\ \A p \in Payloads : stored'[p] >= stored[p]
        /\ \A p \in Payloads : p \in Outbox!In(batch) /\ Outbox!Storable(p) => stored'[p] > 0
    BY <2>1, RecordOnward
  <2>3. fate' \in [Payloads -> Outbox!Fates]
    BY <2>1 DEF LoadInv, Outbox!Fates
  <2>4. ASSUME NEW p \in Payloads, fate'[p] = "settled", Outbox!Storable(p)
        PROVE  stored'[p] > 0
    <3>1. CASE p \in Outbox!In(batch)
      BY <2>2, <2>4, <3>1
    <3>2. CASE p \notin Outbox!In(batch)
      <4>1. fate[p] = "settled"
        BY <2>1, <2>4, <3>2
      <4>2. stored[p] > 0 /\ stored[p] \in 0 .. 2 /\ stored'[p] \in 0 .. 2
        BY <2>2, <2>4, <4>1 DEF LoadInv
      <4> QED
        BY <2>2, <4>2
    <3> QED
      BY <3>1, <3>2
  <2> QED
    BY <2>1, <2>2, <2>3, <2>4 DEF Onward
<1>3. CASE Outbox!PostUnanswered(t)
  <2>1. PICK k \in 0 .. Len(report[t].batch) : Outbox!Record(SubSeq(report[t].batch, 1, k))
    BY <1>3 DEF Outbox!PostUnanswered
  <2>2. /\ stored' \in [Payloads -> 0 .. 2]
        /\ \A p \in Payloads : stored'[p] >= stored[p]
    BY <2>1, RecordOnward
  <2>3. fate' = fate
    BY <1>3 DEF Outbox!PostUnanswered
  <2> QED
    BY <2>2, <2>3 DEF LoadInv, Onward
<1>4. CASE Outbox!Push(t)
  <2>1. stored' = stored
    BY <1>4 DEF Outbox!Push
  <2>2. \E S : fate' = [p \in Payloads |-> IF p \in S THEN "dropped" ELSE fate[p]]
    BY <1>4 DEF Outbox!Push
  <2> QED
    BY <2>1, <2>2, OnwardByLoss
<1>5. CASE \/ Outbox!PostRefused(t) \/ Outbox!MarkUp(t) \/ Outbox!MarkDown(t)
           \/ Outbox!FallbackCheck(t) \/ Outbox!FallbackSkip(t) \/ Outbox!Digest(t)
  BY <1>0, <1>5 DEF Outbox!PostRefused, Outbox!MarkUp, Outbox!MarkDown, Outbox!FallbackCheck,
     Outbox!FallbackSkip, Outbox!Digest
<1> QED
  BY <1>1, <1>2, <1>3, <1>4, <1>5 DEF Outbox!Continue

\* What goes onward, and tells the limiter nothing, keeps the invariant.
LEMMA OnwardLoads ==
  ASSUME LoadInv, Onward, load' = load,
         \A f \in Fingerprints : tally'[f].told = tally[f].told
  PROVE  LoadInv'
<1>1. \A f \in Fingerprints : Number(f, Payloads)' = Number(f, Payloads)
  BY DEF Number, StandFor, Weight
<1> QED
  BY <1>1 DEF LoadInv, Onward, Outbox!Storable

\* What the limiter and the inputs do before a send tells nothing.
LEMMA UntoldLoads ==
  ASSUME TypeOK, LoadInv, UNCHANGED <<fate, stored, load>>,
         \/ UNCHANGED vars
         \/ \E t \in Threads : Limiting(t) \/ \E f \in Fingerprints : Captured(t, f)
         \/ Tick
  PROVE  LoadInv'
<1>1. Onward
  BY DEF LoadInv, Onward
<1>2. \A f \in Fingerprints : tally'[f].told = tally[f].told
  <2> SUFFICES ASSUME NEW f \in Fingerprints PROVE tally'[f].told = tally[f].told
    OBVIOUS
  <2>1. tally \in [Fingerprints -> Tally]
    BY Parts
  <2>2. ASSUME NEW t \in Threads, Limiting(t) PROVE tally'[f].told = tally[f].told
    <3>1. CASE Suppress(t)
      BY <3>1 DEF Suppress
    <3>2. CASE OpenWindow(t)
      BY <2>1, <3>2 DEF OpenWindow, Allow, Tally
    <3>3. CASE Accept(t)
      BY <2>1, <3>3 DEF Accept, Allow, Tally
    <3> QED
      BY <2>2, <3>1, <3>2, <3>3 DEF Limiting
  <2>3. ASSUME NEW t \in Threads, NEW g \in Fingerprints, Captured(t, g)
        PROVE  tally'[f].told = tally[f].told
    BY <2>1, <2>3 DEF Captured, Tally
  <2>4. ASSUME UNCHANGED vars \/ Tick PROVE tally'[f].told = tally[f].told
    BY <2>4 DEF vars, Tick
  <2> QED
    BY <2>2, <2>3, <2>4
<1> QED
  BY <1>1, <1>2, OnwardLoads

\* What is told is what the payload handed over stands for, and it was in no
\* payload before.
LEMMA HandOverLoads ==
  ASSUME TypeOK, LoadInv, NEW t \in Threads, HandOver(t)
  PROVE  LoadInv'
<1>1. PICK p \in Payloads :
        /\ load[p] = NotSent
        /\ fate'[p] = "held"
        /\ load' = [load EXCEPT ![p] = LoadOf(thread[t])]
  BY DEF HandOver
<1>2. PICK q \in Payloads :
        /\ fate' = [fate EXCEPT ![q] = "held"]
        /\ stored' = [stored EXCEPT ![q] = 0]
  BY DEF HandOver, Outbox!Capture
<1>3. p = q
  BY <1>1, <1>2 DEF LoadInv
<1>4. thread[t] \in Sending
  BY ThreadTyped DEF HandOver, Sent
<1>5. PICK f \in Fingerprints, n \in Nat \ {0} : f = thread[t].of /\ n = thread[t].n
  BY <1>4 DEF Sending
<1>6. LoadOf(thread[t]) = [of |-> f, n |-> n] /\ LoadOf(thread[t]) \in Loads
  BY <1>5 DEF LoadOf, Loads
<1>7. load'[p] = [of |-> f, n |-> n] /\ load'[p] # NotSent
  BY <1>1, <1>6, ReporterAssumption DEF LoadInv
<1>8. load' \in [Payloads -> {NotSent} \cup Loads]
  BY <1>1, <1>6 DEF LoadInv
<1>9. /\ fate' \in [Payloads -> Outbox!Fates]
      /\ stored' \in [Payloads -> 0 .. 2]
      /\ \A r \in Payloads \ {p} :
           fate'[r] = fate[r] /\ stored'[r] = stored[r] /\ load'[r] = load[r]
  BY <1>1, <1>2, <1>3 DEF LoadInv, Outbox!Fates
<1>10. ASSUME NEW g \in Fingerprints
       PROVE  tally'[g].told = Number(g, Payloads)'
  <2>1. tally'[g].told = tally[g].told + (IF g = f THEN n ELSE 0)
    BY <1>5, Parts DEF HandOver, Sent, Tally
  <2>2. Weights(g)[p] = 0 /\ Weights(g)'[p] = IF g = f THEN n ELSE 0
    BY <1>1, <1>7 DEF Weights, Weight
  <2>3. \A r \in Payloads \ {p} : Weights(g)'[r] = Weights(g)[r]
    BY <1>9 DEF Weights, Weight
  <2>4. \A r \in Payloads : Weights(g)[r] \in Nat
    BY WeightTyped
  <2>5. \A r \in Payloads : Weights(g)'[r] \in Nat
    BY <2>2, <2>3, <2>4
  <2>6. /\ Cardinality(Units(Weights(g)', Payloads)) + Weights(g)[p]
           = Cardinality(Units(Weights(g), Payloads)) + Weights(g)'[p]
        /\ Cardinality(Units(Weights(g), Payloads)) \in Nat
        /\ Cardinality(Units(Weights(g)', Payloads)) \in Nat
    BY <2>3, <2>4, <2>5, ReporterAssumption, OneCountChanges
  <2>7. tally[g].told = Cardinality(Units(Weights(g), Payloads))
    BY NumberUnits DEF LoadInv
  <2>8. StandFor(g, Payloads)' = Units(Weights(g)', Payloads)
    BY DEF StandFor, Units, Weights
  <2>9. Number(g, Payloads)' = Cardinality(Units(Weights(g)', Payloads))
    BY <2>8 DEF Number
  <2> QED
    BY <2>1, <2>2, <2>6, <2>7, <2>9
<1>11. /\ \A r \in Payloads : load'[r] = NotSent => fate'[r] # "held"
       /\ \A r \in Payloads : load'[r] # NotSent => fate'[r] # "none"
       /\ \A r \in Payloads : fate'[r] = "settled" /\ Outbox!Storable(r) => stored'[r] > 0
  BY <1>1, <1>7, <1>9 DEF LoadInv
<1> QED
  BY <1>8, <1>9, <1>10, <1>11 DEF LoadInv, Outbox!Storable

\* Every step keeps it.
LEMMA NextLoads == TypeOK /\ LoadInv /\ [NextReporter]_reporterVars => LoadInv'
<1> SUFFICES ASSUME TypeOK, LoadInv, [NextReporter]_reporterVars PROVE LoadInv'
  OBVIOUS
<1>1. ASSUME Starting PROVE LoadInv'
  <2>1. UNCHANGED vars
    BY <1>1 DEF Starting, Install, ConnectDlq, ConnectCelery, Wrap, Serve, SetupLogger,
       AfterSetupLogger
  <2> QED
    BY <1>1, <2>1, UntoldLoads DEF Starting, sending
<1>2. ASSUME NEW t \in Threads, Announcing(t) PROVE LoadInv'
  <2>1. UNCHANGED vars \/ \E f \in Fingerprints : Captured(t, f)
    BY <1>2 DEF Announcing, Fail, Announce, AnnounceUnheard, Announced
  <2> QED
    BY <1>2, <2>1, UntoldLoads DEF Announcing, sending
<1>3. ASSUME NEW t \in Threads, Limiting(t) PROVE LoadInv'
  BY <1>3, UntoldLoads DEF Limiting, sending
<1>4. ASSUME NEW t \in Threads, Reporting(t) PROVE LoadInv'
  BY <1>4, ContinueOnward, OnwardLoads DEF Reporting, allVars, vars
<1>5. ASSUME Surroundings PROVE LoadInv'
  <2>1. UNCHANGED <<fate, stored, load, vars>>
    BY <1>5 DEF Surroundings, Outbox!OwnerStops, Outbox!OwnerRecovers, Outbox!RotateKey,
       Outbox!SetActive, Outbox!WorldChanges, allVars
  <2> QED
    BY <2>1, UntoldLoads
<1>6. ASSUME TickReporter PROVE LoadInv'
  BY <1>6, UntoldLoads DEF TickReporter, TickAll, Outbox!Tick
<1>7. ASSUME RestartReporter PROVE LoadInv'
  <2>1. \A f \in Fingerprints : tally'[f].told = tally[f].told
    BY <1>7, Parts DEF RestartReporter, RestartAll, Restart, Tally
  <2>2. \E S : fate' = [p \in Payloads |-> IF p \in S THEN "lost" ELSE fate[p]]
    <3> DEFINE S == {p \in Payloads : fate[p] \in {"held", "dropped"}}
    <3>1. fate' = [p \in Payloads |-> IF p \in S THEN "lost" ELSE fate[p]]
      BY <1>7 DEF RestartReporter, Outbox!Crash
    <3> QED
      BY <3>1
  <2>3. Onward
    BY <1>7, <2>2, OnwardByLoss DEF RestartReporter, Outbox!Crash
  <2> QED
    BY <1>7, <2>1, <2>3, OnwardLoads DEF RestartReporter
<1>8. ASSUME UNCHANGED reporterVars PROVE LoadInv'
  BY <1>8, UntoldLoads DEF reporterVars, allVars, sending
<1> QED
  BY <1>1, <1>2, <1>3, <1>4, <1>5, <1>6, <1>7, <1>8, HandOverLoads DEF NextReporter

\* "So the issue's count stays true" (_capture.py), as far as it does: for any
\* threads, limits, buffers and batches, every occurrence captured is in a
\* payload the owner has recorded or is excused from recording, with the
\* limiter, in a thread's hands, or was lost at a restart, and in one of them.
THEOREM CountAccounted == SpecReporter => []CountIsAccountedFor
<1>1. SpecReporter => [](TypeOK /\ NothingForgotten)
  BY ReporterIsInputs, InputsDriveCapture, Typing, Conservation, PTL
<1> QED
  BY <1>1, InitLoads, NextLoads, AccountedFor, PTL DEF SpecReporter

=============================================================================
