-------------------------------- MODULE Inputs --------------------------------
(***************************************************************************)
(* The inputs of a process (apps.py, inputs.py) in front of capture()      *)
(* (Capture): what is wired when the process starts, and which of the ways *)
(* a failure announces itself becomes an alert.  The loggers and signals   *)
(* of Django, Celery and stapel_core are external: they are modelled from  *)
(* what inputs.py says of them.                                            *)
(*                                                                         *)
(* A failure may announce itself twice: the code it happens in writes a    *)
(* line to a logger AND gives the failure to a structured input (a signal, *)
(* the exception handler, the errors delivery returns).  One of the two    *)
(* must be heard, and not both: the two would be two issues.  Which one is *)
(* decided by names: the logger of the line is on LOG_EXCLUDE, or a        *)
(* connector has put it among the superseded, or it is heard.  Celery's    *)
(* line about a failed task is on neither list, and is heard beside the    *)
(* signal.                                                                 *)
(*                                                                         *)
(* capture() refuses what its own thread announces while it is in it, so a *)
(* thread announces only when it is idle; the hooks of an occurrence       *)
(* recorded inside a transaction of the caller run at the caller's commit, *)
(* after capture() has returned, and only LOG_EXCLUDE keeps what they log  *)
(* from becoming an alert.                                                 *)
(*                                                                         *)
(* A definition that stands before its original and differs from it in one *)
(* detail (AddedAgain, Added) is a plausible bug of that code: nothing in  *)
(* NextInputs uses it, and a property breaks when it is put in its place.  *)
(***************************************************************************)
EXTENDS Capture

CONSTANTS
  Gates,         \* settings CAPTURE_5XX, CAPTURE_CELERY, CAPTURE_DLQ tried
  MaxFailures    \* bound on the failures a process meets

ASSUME InputsAssumption == MaxFailures \in Nat

VARIABLES
  gates,         \* the three settings
  handlers,      \* AlertsLogHandlers on the root logger
  connected,     \* the structured inputs that are connected
  superseded,    \* _SUPERSEDED_LOGGERS
  boot,          \* how far the process has started
  failure,       \* what each thread is announcing
  hooks,         \* threads with hooks waiting for their caller's commit
  failures       \* failures met so far

wiring == <<gates, handlers, connected, superseded, boot>>
inputVars == <<wiring, failure, hooks, failures>>
allVars == <<vars, inputVars>>

-----------------------------------------------------------------------------
(* Failures                                                                *)

\* A line logged by the host; a 5xx; a failed Celery task; a parked bus event;
\* a comm handler that raised; a failure of the alert path's own hooks.
Kinds == {"log", "5xx", "task", "park", "handler", "hook"}

\* The logger that a failure of each kind is logged by.
LoggerOf == [k \in Kinds |-> CASE k = "log" -> "host"
                               [] k = "5xx" -> "django.request"
                               [] k = "task" -> "celery.app.trace"
                               [] k = "park" -> "stapel_core.bus.dlq"
                               [] k = "handler" -> "stapel_core.comm.actions"
                               [] k = "hook" -> "stapel_alerts"]

\* The structured input it is given to, if any.
InputOf == [k \in Kinds |-> CASE k = "5xx" -> "exception handler"
                              [] k = "task" -> "task_failure"
                              [] k = "park" -> "bus_event_parked"
                              [] k = "handler" -> "deliver"
                              [] OTHER -> "none"]

LOG_EXCLUDE == {"stapel_alerts", "django.db.backends", "django.request"}

\* A comm handler's failure has no switch.
Enabled(k) == CASE k = "5xx" -> gates.CAPTURE_5XX
                [] k = "task" -> gates.CAPTURE_CELERY
                [] k = "park" -> gates.CAPTURE_DLQ
                [] OTHER -> TRUE

NothingLeft == [kind |-> "none"]

ExcludedByTheSetting(logger) == logger \in LOG_EXCLUDE
\* AlertsLogHandler.emit
Excluded(logger) == logger \in LOG_EXCLUDE \/ logger \in superseded

\* Where a failure of kind k goes: to each handler as a line, to the input.
Announcements(k) == handlers \cup ({InputOf[k]} \cap connected)

\* Is this announcement captured?
Heard(k, a) == IF a \in handlers THEN ~ Excluded(LoggerOf[k]) ELSE Enabled(k)

-----------------------------------------------------------------------------
(* AppConfig.ready, and Celery's logging setup after it                    *)

AddedAgain(hs) == IF hs = {} THEN {"log handler"} ELSE hs \cup {"second handler"}
\* install_log_handler: attach once.
Added(hs) == IF hs = {} THEN {"log handler"} ELSE hs

Stage(from, to) == boot = from /\ boot' = to

Install ==
  /\ Stage("started", "handler")
  /\ handlers' = Added(handlers)
  /\ UNCHANGED <<gates, connected, superseded, failure, hooks, failures, vars>>

\* What connecting bus_event_parked makes redundant, whatever CAPTURE_DLQ is.
SupersededByPark == {"stapel_core.bus.dlq"}

ConnectDlq ==
  /\ Stage("handler", "dlq")
  /\ connected' = connected \cup {"bus_event_parked"}
  /\ superseded' = superseded \cup SupersededByPark
  /\ UNCHANGED <<gates, handlers, failure, hooks, failures, vars>>

\* Celery may not be importable.
ConnectCelery ==
  /\ Stage("dlq", "celery")
  /\ connected' \in {connected, connected \cup {"task_failure", "after_setup_logger"}}
  /\ UNCHANGED <<gates, handlers, superseded, failure, hooks, failures, vars>>

\* wrap_deliver_to_subscribers; the host is taken to have wired the exception
\* handler.
Wrap ==
  /\ Stage("celery", "ready")
  /\ connected' = connected \cup {"deliver", "exception handler"}
  /\ superseded' = superseded \cup {"stapel_core.comm.actions"}
  /\ UNCHANGED <<gates, handlers, failure, hooks, failures, vars>>

\* A web process serves; a Celery worker sets up logging first, and drops the
\* root logger's handlers when it hijacks it.
Serve ==
  /\ Stage("ready", "serving")
  /\ UNCHANGED <<gates, handlers, connected, superseded, failure, hooks, failures, vars>>

SetupLogger ==
  /\ Stage("ready", "logger set up")
  /\ "after_setup_logger" \in connected
  /\ handlers' \in {handlers, {}}
  /\ UNCHANGED <<gates, connected, superseded, failure, hooks, failures, vars>>

\* reinstall_log_handler
Reinstalled(hs) == Added(hs)

AfterSetupLogger ==
  /\ Stage("logger set up", "serving")
  /\ handlers' = Reinstalled(handlers)
  /\ UNCHANGED <<gates, connected, superseded, failure, hooks, failures, vars>>

-----------------------------------------------------------------------------
(* Announcing                                                              *)

\* A failure happens in a thread; a hook's when the caller commits, a task's where
\* there is Celery to run it.
Fail(t, k) ==
  /\ boot = "serving"
  /\ failure[t] = NothingLeft
  /\ failures < MaxFailures
  /\ k = "hook" => t \in hooks
  /\ k = "task" => "task_failure" \in connected
  /\ thread[t] = Idle
  /\ failure' = [failure EXCEPT ![t] = [kind |-> k, left |-> Announcements(k), heard |-> 0]]
  /\ hooks' = IF k = "hook" THEN hooks \ {t} ELSE hooks
  /\ failures' = failures + 1
  /\ UNCHANGED <<wiring, vars>>

\* The hooks of a caller's commit ran well, or the caller rolled back.
HooksRun(t) ==
  /\ t \in hooks
  /\ thread[t] = Idle
  /\ hooks' = hooks \ {t}
  /\ UNCHANGED <<wiring, failure, failures, vars>>

\* The text decides the fingerprint, and the text of a line and of a
\* structured input differ: any may come out.
Announce(t) ==
  /\ failure[t] # NothingLeft
  /\ \E a \in failure[t].left :
       /\ Heard(failure[t].kind, a)
       /\ \E f \in Fingerprints : Captured(t, f)
       /\ failure' = [failure EXCEPT ![t].left = @ \ {a}, ![t].heard = @ + 1]
  /\ UNCHANGED <<wiring, hooks, failures>>

AnnounceUnheard(t) ==
  /\ failure[t] # NothingLeft
  /\ thread[t] = Idle
  /\ \E a \in failure[t].left :
       /\ ~ Heard(failure[t].kind, a)
       /\ failure' = [failure EXCEPT ![t].left = @ \ {a}]
  /\ UNCHANGED <<wiring, hooks, failures, vars>>

\* The failure has been announced in every way it is.
Announced(t) ==
  /\ failure[t] # NothingLeft
  /\ failure[t].left = {} /\ thread[t] = Idle
  /\ failure' = [failure EXCEPT ![t] = NothingLeft]
  /\ UNCHANGED <<wiring, hooks, failures, vars>>

\* capture() goes on.
Going(t) == Capturing(t) /\ UNCHANGED inputVars

\* The store was written inside a transaction of the caller: its hooks wait.
SentInCaller(t) ==
  /\ Sent(t)
  /\ hooks' = hooks \cup {t}
  /\ UNCHANGED <<wiring, failure, failures>>

RestartAll ==
  /\ Restart
  /\ boot' = "started"
  /\ handlers' = {} /\ connected' = {} /\ superseded' = {}
  /\ failure' = [t \in Threads |-> NothingLeft]
  /\ hooks' = {}
  /\ UNCHANGED <<gates, failures>>

TickAll == Tick /\ UNCHANGED inputVars

-----------------------------------------------------------------------------

InitInputs ==
  /\ Init
  /\ gates \in Gates
  /\ boot = "started"
  /\ handlers = {} /\ connected = {} /\ superseded = {}
  /\ failure = [t \in Threads |-> NothingLeft]
  /\ hooks = {}
  /\ failures = 0

NextInputs ==
  \/ Install \/ ConnectDlq \/ ConnectCelery \/ Wrap \/ Serve \/ SetupLogger
  \/ AfterSetupLogger
  \/ \E t \in Threads : \/ \E k \in Kinds : Fail(t, k)
                        \/ HooksRun(t) \/ Announce(t) \/ AnnounceUnheard(t) \/ Announced(t)
                        \/ Going(t) \/ SentInCaller(t)
  \/ RestartAll \/ TickAll

SpecInputs == InitInputs /\ [][NextInputs]_allVars

-----------------------------------------------------------------------------

(* Properties                                                              *)

\* Every variable holds what its attribute may hold: one log handler at most,
\* and only wired inputs and their loggers.
InputsTypeOK ==
  /\ TypeOK
  /\ gates \in Gates
  /\ handlers \subseteq {"log handler"}
  /\ connected \subseteq {InputOf[k] : k \in Kinds} \cup {"after_setup_logger"}
  /\ superseded \subseteq {LoggerOf[k] : k \in Kinds}
  /\ boot \in {"started", "handler", "dlq", "celery", "ready", "logger set up", "serving"}
  /\ failure \in [Threads -> {NothingLeft} \cup
                 [kind: Kinds, left: SUBSET (handlers \cup connected), heard: Nat]]
  /\ hooks \subseteq Threads
  /\ failures \in 0 .. MaxFailures

\* What a failure comes to: a switched-off input silences its kind, the line
\* included, but for the line of a failed task, which is heard whatever the
\* switch; the alert path's own failures never become alerts.
Reports(k) == (IF Enabled(k) /\ k # "hook" THEN 1 ELSE 0) + (IF k = "task" THEN 1 ELSE 0)

\* "Without it a park opens two issues with two fingerprints", and "a failure
\* to report an alert logs an error which becomes an alert": however a process
\* started and whatever its threads meet, a failure other than a task's is
\* captured once, by its line or by its structured input, and one of the alert
\* path never; a task's never goes unheard.
OnceButForTasks ==
  \A t \in Threads : failure[t] # NothingLeft =>
    /\ failure[t].heard <= Reports(failure[t].kind)
    /\ failure[t].left = {} => failure[t].heard = Reports(failure[t].kind)

=============================================================================
