---------------------------- MODULE Watchdog_proofs ----------------------------
(***************************************************************************)
(* Theorems about the watchdog for every fleet, every normaliser and every *)
(* sequence of answers, changes of the world, edits and redeploys.         *)
(***************************************************************************)
EXTENDS Watchdog, TLAPS

-----------------------------------------------------------------------------
(* Findings                                                                *)

\* A finding is a check and its subject.
LEMMA FindingParts ==
  ASSUME NEW f \in Findings
  PROVE  f = <<f[1], f[2]>> /\ f[2] \in Subjects
BY DEF Findings, Unreachable, AmUnreachable, Down, Missing, Absent, NoBeat, Silenced,
       Subjects

\* What the settings make the watchdog ask and expect are findings.
LEMMA AskedAreFindings ==
  ASSUME targets \subseteq Targets
  PROVE  Questions \subseteq Findings /\ Expected \subseteq Findings
BY DEF Questions, Expected, Findings

\* A question is about a target, a metric or the heartbeat.
LEMMA QuestionKinds ==
  ASSUME NEW q \in Questions
  PROVE  \/ \E t \in targets : q = Down(t) /\ q[1] = "exporter_down" /\ q[2] = t
         \/ \E m \in Metrics : q = Absent(m) /\ q[1] = "metric_absent"
         \/ \E h \in Heartbeats : q = NoBeat(h) /\ q[1] = "heartbeat_missing"
BY DEF Questions, Down, Absent, NoBeat

\* So are the answer and what it decides.
LEMMA AnswersAreFindings ==
  ASSUME targets \subseteq Targets, NEW q \in Questions
  PROVE  Wrong(q) \subseteq Findings /\ Decides(q) \subseteq Findings /\ q \in Decides(q)
<1>1. q \in Findings
  BY AskedAreFindings
<1>2. CASE \E t \in targets : q = Down(t) /\ q[1] = "exporter_down" /\ q[2] = t
  <2>1. PICK t \in targets : q = Down(t) /\ q[1] = "exporter_down" /\ q[2] = t
    BY <1>2
  <2>2. Down(t) \in Findings /\ Missing(t) \in Findings
    BY DEF Findings
  <2>3. Wrong(q) \subseteq {Down(t), Missing(t)} /\ Decides(q) = {q, Missing(t)}
    BY <2>1 DEF Wrong, Decides
  <2> QED
    BY <1>1, <2>2, <2>3
<1>3. CASE q[1] = "metric_absent" \/ q[1] = "heartbeat_missing"
  <2>1. Wrong(q) \subseteq {q} /\ Decides(q) = {q}
    BY <1>3 DEF Wrong, Decides
  <2> QED
    BY <1>1, <2>1
<1> QED
  BY <1>2, <1>3, QuestionKinds

\* The key of a finding is a key.
LEMMA KeyTyped ==
  ASSUME NEW f \in Findings
  PROVE  KeyOf(f) \in Keys
BY DEF Keys

-----------------------------------------------------------------------------
(* A pass                                                                  *)

\* The answers of the pass still stand: no query of it went unanswered.
Answered == Unreachable \notin run.found

\* What is still to be asked is a question.
AsksQuestions == run.at = "prometheus" => run.todo \subseteq Questions

\* What was asked is decided, and one answer shows that Prometheus is there.
AsksInTurn ==
  run.at = "prometheus" /\ Answered =>
    \A q \in Questions \ run.todo : Decides(q) \cup {Unreachable} \subseteq run.asked

\* After the last answer every question is decided.
AsksAll ==
  run.at = "alertmanager" /\ Answered =>
    \A q \in Questions : Decides(q) \cup {Unreachable} \subseteq run.asked

\* After Alertmanager's too, everything is that the settings expect.
ExpectsWhatWasAsked ==
  run.at \in {"report", "close"} /\ Answered => Expected \subseteq run.asked

\* Only what is expected and did not fire is closed.
ClosesTheExpected ==
  run.at = "close" => /\ run.todo \subseteq Expected \ run.found
                      /\ run.open \subseteq Expected \ run.found

\* No issue is being closed before that.
NothingOpenYet == run.at # "close" => run.open = {}

\* Nothing the pass saw is lost, unless a query went unanswered.
KeepsWhatItSaw == Answered => run.saw \subseteq run.found

\* The inductive invariant of the pass.
PassInv ==
  /\ AsksQuestions
  /\ AsksInTurn
  /\ AsksAll
  /\ ExpectsWhatWasAsked
  /\ ClosesTheExpected
  /\ NothingOpenYet
  /\ KeepsWhatItSaw


\* The fields of a pass.
RunSpace == [at: Phases, todo: SUBSET Findings, open: SUBSET Findings,
             found: SUBSET Findings, asked: SUBSET Findings, saw: SUBSET Findings]

\* What each step of the pass leaves of it.
LEMMA BeginFields ==
  ASSUME TypeOK, Begin
  PROVE  /\ run' \in RunSpace /\ run'.at = "prometheus" /\ run'.todo = Questions
         /\ run'.found = {} /\ run'.saw = {} /\ run'.open = {}
<1>1. Questions \subseteq Findings
  BY AskedAreFindings DEF TypeOK
<1>2. run' = [at |-> "prometheus", todo |-> Questions, open |-> {}, found |-> {},
              asked |-> {}, saw |-> {}]
  BY DEF Begin, Resting
<1> QED
  BY <1>1, <1>2 DEF RunSpace, Phases

\* An answer.
LEMMA AskFields ==
  ASSUME TypeOK, AsksQuestions, Ask
  PROVE  \E q \in Questions :
           /\ run' \in RunSpace /\ run'.at = "prometheus" /\ run'.open = run.open
           /\ q \in run.todo /\ run'.todo = run.todo \ {q}
           /\ run'.found = run.found \cup Wrong(q) /\ run'.saw = run.saw \cup Wrong(q)
           /\ run'.asked = run.asked \cup Decides(q) \cup {Unreachable}
<1>1. PICK q \in run.todo :
        run' = [run EXCEPT !.todo = @ \ {q}, !.found = @ \cup Wrong(q),
                           !.saw = @ \cup Wrong(q),
                           !.asked = @ \cup Decides(q) \cup {Unreachable}]
  BY DEF Ask
<1>2. q \in Questions /\ run.at = "prometheus" /\ run \in RunSpace
  BY <1>1 DEF Ask, AsksQuestions, TypeOK, RunSpace
<1>3. Wrong(q) \subseteq Findings /\ Decides(q) \subseteq Findings /\ Unreachable \in Findings
  BY <1>2, AnswersAreFindings DEF TypeOK, Findings
<1>4. /\ run'.at = "prometheus" /\ run'.open = run.open /\ run'.todo = run.todo \ {q}
      /\ run'.found = run.found \cup Wrong(q) /\ run'.saw = run.saw \cup Wrong(q)
      /\ run'.asked = run.asked \cup Decides(q) \cup {Unreachable}
  BY <1>1, <1>2 DEF RunSpace
<1>5. run' \in RunSpace
  BY <1>1, <1>2, <1>3 DEF RunSpace
<1> QED
  BY <1>1, <1>2, <1>4, <1>5

\* No answer.
LEMMA UnansweredFields ==
  ASSUME TypeOK, AskUnanswered
  PROVE  /\ run' \in RunSpace /\ run'.at = "alertmanager" /\ run'.found = {Unreachable}
         /\ run.at = "prometheus" /\ run'.open = run.open
<1>1. Unreachable \in Findings /\ run \in RunSpace
  BY DEF Findings, TypeOK, RunSpace
<1>2. run' = [run EXCEPT !.at = "alertmanager", !.todo = {}, !.found = {Unreachable},
                        !.saw = @ \cup {Unreachable}, !.asked = @ \cup {Unreachable}]
  BY DEF AskUnanswered
<1>3. run' \in RunSpace
  BY <1>1, <1>2 DEF RunSpace, Phases
<1>4. run'.at = "alertmanager" /\ run'.found = {Unreachable} /\ run'.open = run.open
  BY <1>1, <1>2 DEF RunSpace
<1> QED
  BY <1>3, <1>4 DEF AskUnanswered

\* The end of the questions.
LEMMA AskedAllFields ==
  ASSUME TypeOK, AskedAll
  PROVE  /\ run' \in RunSpace /\ run.at = "prometheus" /\ run.todo = {}
         /\ run'.at = "alertmanager" /\ run'.found = run.found /\ run'.open = run.open
         /\ run'.saw = run.saw /\ run'.asked = run.asked
<1>1. run \in RunSpace
  BY DEF TypeOK, RunSpace
<1> QED
  BY <1>1 DEF AskedAll, RunSpace, Phases

\* Alertmanager's answer, or its silence.
LEMMA AlertmanagerFields ==
  ASSUME TypeOK, AskAlertmanager
  PROVE  \E wrong \in SUBSET (Findings \ {Unreachable}), about \in SUBSET Findings :
           /\ run' \in RunSpace /\ run.at = "alertmanager" /\ run'.at = "report"
           /\ run'.open = run.open
           /\ run'.found = run.found \cup wrong /\ run'.saw = run.saw \cup wrong
           /\ run'.asked = run.asked \cup about
           /\ HasAlertmanager => AmUnreachable \in about
<1>1. run \in RunSpace
  BY DEF TypeOK, RunSpace
<1>2. /\ AmUnreachable \in Findings /\ AmUnreachable # Unreachable
      /\ \A s \in Silences : Silenced(s) \in Findings /\ Silenced(s) # Unreachable
  BY DEF Findings, AmUnreachable, Unreachable, Silenced
<1> DEFINE wrong == IF ~ HasAlertmanager THEN {}
                    ELSE IF world.alertmanager THEN {Silenced(s) : s \in world.silenced}
                    ELSE {AmUnreachable}
           about == IF ~ HasAlertmanager THEN {}
                    ELSE {AmUnreachable} \cup {Silenced(s) : s \in {x \in Silences :
                                                                    world.alertmanager}}
<1>3. wrong \subseteq Findings \ {Unreachable} /\ about \subseteq Findings
  BY <1>2 DEF TypeOK
<1>4. HasAlertmanager => AmUnreachable \in about
  OBVIOUS
<1>5. /\ run.at = "alertmanager"
      /\ run' = [run EXCEPT !.at = "report", !.todo = run.found \cup wrong,
                            !.found = @ \cup wrong, !.saw = @ \cup wrong,
                            !.asked = @ \cup about]
  BY DEF AskAlertmanager
<1>6. PICK W, A : W = wrong /\ A = about
  OBVIOUS
<1> HIDE DEF wrong, about
<1>7. /\ W \subseteq Findings \ {Unreachable} /\ A \subseteq Findings
      /\ HasAlertmanager => AmUnreachable \in A
      /\ run' = [run EXCEPT !.at = "report", !.todo = run.found \cup W,
                            !.found = @ \cup W, !.saw = @ \cup W,
                            !.asked = @ \cup A]
  BY <1>3, <1>4, <1>5, <1>6
<1>8. /\ run'.at = "report" /\ run'.open = run.open
      /\ run'.found = run.found \cup W /\ run'.saw = run.saw \cup W
      /\ run'.asked = run.asked \cup A
  BY <1>1, <1>7 DEF RunSpace
<1>9. run' \in RunSpace
  BY <1>1, <1>7 DEF RunSpace, Phases
<1> QED
  BY <1>5, <1>7, <1>8, <1>9

\* Filing a finding.
LEMMA ReportFields ==
  ASSUME TypeOK, Report
  PROVE  /\ run' \in RunSpace /\ run.at = "report" /\ run'.at = "report"
         /\ run'.open = run.open
         /\ run'.found = run.found /\ run'.saw = run.saw /\ run'.asked = run.asked
         /\ issues' \in [Keys -> Statuses]
<1>1. run \in RunSpace
  BY DEF TypeOK, RunSpace
<1>2. PICK f \in run.todo : /\ issues' = [issues EXCEPT ![KeyOf(f)] = Recorded(@)]
                            /\ run' = [run EXCEPT !.todo = @ \ {f}]
  BY DEF Report
<1>3. \A s \in Statuses : Recorded(s) \in Statuses
  BY DEF Statuses, Recorded
<1>4. issues' \in [Keys -> Statuses]
  BY <1>2, <1>3 DEF TypeOK
<1> QED
  BY <1>1, <1>2, <1>4 DEF Report, RunSpace

\* The end of the filing.
LEMMA ReportedFields ==
  ASSUME TypeOK, Reported
  PROVE  /\ run' \in RunSpace /\ run.at = "report" /\ run'.at = "close"
         /\ run'.found = run.found /\ run'.saw = run.saw /\ run'.asked = run.asked
         /\ run'.todo \subseteq Expected \ run.found /\ run'.open = run.open
<1>1. run \in RunSpace
  BY DEF TypeOK, RunSpace
<1>2. PICK T \in SUBSET (Expected \ run.found) :
        run' = [run EXCEPT !.at = "close", !.todo = T]
  BY DEF Reported
<1>3. Expected \subseteq Findings
  BY AskedAreFindings DEF TypeOK
<1> QED
  BY <1>1, <1>2, <1>3 DEF Reported, RunSpace, Phases

\* Looking up the next issue to close.
LEMMA LookUpFields ==
  ASSUME TypeOK, LookUp
  PROVE  /\ run' \in RunSpace /\ run.at = "close" /\ run'.at = "close"
         /\ run'.found = run.found /\ run'.saw = run.saw /\ run'.asked = run.asked
         /\ run'.todo \subseteq run.todo /\ run'.open \subseteq run.todo
<1>1. run \in RunSpace
  BY DEF TypeOK, RunSpace
<1>2. PICK f \in run.todo, O \in SUBSET run.todo :
        run' = [run EXCEPT !.todo = @ \ {f}, !.open = O]
  BY DEF LookUp
<1> QED
  BY <1>1, <1>2 DEF LookUp, RunSpace

\* Closing it.
LEMMA CloseFields ==
  ASSUME TypeOK, Close
  PROVE  /\ run' \in RunSpace /\ run.at = "close" /\ run'.at = "close"
         /\ run'.found = run.found /\ run'.saw = run.saw /\ run'.asked = run.asked
         /\ run'.todo = run.todo /\ run'.open = {}
         /\ issues' \in [Keys -> Statuses]
         /\ \A k \in Keys : issues'[k] # issues[k] => \E f \in run.open : KeyOf(f) = k
<1>1. run \in RunSpace
  BY DEF TypeOK, RunSpace
<1>2. PICK f \in run.open : issues' = [issues EXCEPT ![KeyOf(f)] = "fixed"]
  BY DEF Close
<1>3. issues' \in [Keys -> Statuses]
  BY <1>2 DEF TypeOK, Statuses
<1>4. \A k \in Keys : issues'[k] # issues[k] => KeyOf(f) = k
  BY <1>2 DEF TypeOK
<1> QED
  BY <1>1, <1>2, <1>3, <1>4 DEF Close, RunSpace

\* A pass that is over, or gone, knows nothing.
LEMMA RestingFields ==
  /\ Resting \in RunSpace /\ Resting.at = "resting"
  /\ Resting.found = {} /\ Resting.saw = {} /\ Resting.open = {}
BY DEF Resting, RunSpace, Phases


-----------------------------------------------------------------------------
(* Types                                                                   *)

\* What is asked is a question, at every step of a pass.
LEMMA AsksQuestionsStep ==
  ASSUME TypeOK, AsksQuestions, [Next]_vars
  PROVE  AsksQuestions'
<1>1. ASSUME targets' = targets PROVE Questions' = Questions
  BY <1>1 DEF Questions
<1>2. CASE Begin
  <2>1. targets' = targets
    BY <1>2 DEF Begin
  <2> QED
    BY <1>1, <1>2, <2>1, BeginFields DEF AsksQuestions
<1>3. CASE Ask
  <2>1. targets' = targets
    BY <1>3 DEF Ask
  <2>2. run'.todo \subseteq run.todo /\ run.at = "prometheus"
    BY <1>3, AskFields DEF Ask
  <2> QED
    BY <1>1, <2>1, <2>2 DEF AsksQuestions
<1>4. CASE AskUnanswered \/ AskedAll \/ AskAlertmanager
  BY <1>4, UnansweredFields, AskedAllFields, AlertmanagerFields DEF AsksQuestions
<1>5. CASE Report \/ Reported \/ LookUp \/ Close
  BY <1>5, ReportFields, ReportedFields, LookUpFields, CloseFields DEF AsksQuestions
<1>6. CASE Announce \/ Redeploy
  BY <1>6, RestingFields DEF Announce, Redeploy, AsksQuestions
<1>7. CASE ScrapeChanges \/ SeriesChange \/ ServersChange \/ PersonEdits \/ UNCHANGED vars
  <2>1. targets' = targets /\ run' = run
    BY <1>7 DEF ScrapeChanges, SeriesChange, ServersChange, PersonEdits, vars
  <2> QED
    BY <1>1, <2>1 DEF AsksQuestions
<1> QED
  BY <1>2, <1>3, <1>4, <1>5, <1>6, <1>7 DEF Next, Pass

\* The steps of a pass keep the types.
LEMMA PassTyped ==
  ASSUME TypeOK, AsksQuestions, Pass
  PROVE  TypeOK'
<1>1. world' = world /\ targets' = targets /\ changes' = changes
  BY DEF Pass, Begin, Ask, AskUnanswered, AskedAll, AskAlertmanager, Report, Reported,
         LookUp, Close, Announce
<1>2. run' \in RunSpace
  BY BeginFields, AskFields, UnansweredFields, AskedAllFields, AlertmanagerFields,
     ReportFields, ReportedFields, LookUpFields, CloseFields, RestingFields
     DEF Pass, Announce
<1>3. issues' \in [Keys -> Statuses]
  <2>1. CASE Report \/ Close
    BY <2>1, ReportFields, CloseFields
  <2>2. CASE ~ Report /\ ~ Close
    BY <2>2 DEF Pass, Begin, Ask, AskUnanswered, AskedAll, AskAlertmanager, Reported,
                LookUp, Announce, TypeOK
  <2> QED
    BY <2>1, <2>2
<1> QED
  BY <1>1, <1>2, <1>3 DEF TypeOK, RunSpace

\* What goes on around it keeps them too.
LEMMA AroundTyped ==
  ASSUME TypeOK,
         ScrapeChanges \/ SeriesChange \/ ServersChange \/ PersonEdits \/ Redeploy
  PROVE  TypeOK'
<1>1. changes' \in 0 .. MaxChanges
  BY WatchdogAssumption DEF TypeOK, ScrapeChanges, SeriesChange, ServersChange,
     PersonEdits, Redeploy, Changing
<1>2. CASE ScrapeChanges
  <2>1. PICK t \in Targets, s \in {"up", "down", "missing"} :
          world' = [world EXCEPT !.scrape[t] = s]
    BY <1>2 DEF ScrapeChanges
  <2>2. targets' = targets /\ issues' = issues /\ run' = run
    BY <1>2 DEF ScrapeChanges
  <2> QED
    BY <1>1, <2>1, <2>2 DEF TypeOK
<1>3. CASE SeriesChange
  <2>1. \/ \E A \in SUBSET (Metrics \cup Heartbeats) : world' = [world EXCEPT !.absent = A]
        \/ \E A \in SUBSET Silences : world' = [world EXCEPT !.silenced = A]
    <3>1. \A S, x : \A A : S \subseteq A /\ x \in A => Toggled(S, x) \subseteq A
      BY DEF Toggled
    <3>2. ASSUME NEW x \in Metrics \cup Heartbeats
          PROVE  Toggled(world.absent, x) \subseteq Metrics \cup Heartbeats
      <4>1. world.absent \subseteq Metrics \cup Heartbeats
        BY DEF TypeOK
      <4> QED
        BY <4>1, <3>1
    <3>3. ASSUME NEW x \in Silences PROVE Toggled(world.silenced, x) \subseteq Silences
      BY <3>1 DEF TypeOK
    <3> QED
      BY <1>3, <3>2, <3>3 DEF SeriesChange
  <2>2. targets' = targets /\ issues' = issues /\ run' = run
    BY <1>3 DEF SeriesChange
  <2> QED
    BY <1>1, <2>1, <2>2 DEF TypeOK
<1>4. CASE ServersChange
  <2>1. PICK b \in BOOLEAN : \/ world' = [world EXCEPT !.prometheus = b]
                             \/ world' = [world EXCEPT !.alertmanager = b]
    BY <1>4, Zenon DEF ServersChange
  <2>2. targets' = targets /\ issues' = issues /\ run' = run
    BY <1>4 DEF ServersChange
  <2> QED
    BY <1>1, <2>1, <2>2 DEF TypeOK
<1>5. CASE PersonEdits
  <2>1. PICK p \in Keys, s \in Statuses : issues' = [issues EXCEPT ![p] = s]
    BY <1>5 DEF PersonEdits, Statuses
  <2>2. targets' = targets /\ world' = world /\ run' = run
    BY <1>5 DEF PersonEdits
  <2> QED
    BY <1>1, <2>1, <2>2 DEF TypeOK
<1>6. CASE Redeploy
  BY <1>1, <1>6, RestingFields DEF Redeploy, TypeOK, RunSpace
<1> QED
  BY <1>2, <1>3, <1>4, <1>5, <1>6

\* Whatever the fleet, the answers and the edits, every variable holds what it
\* may hold: among others, a pass only ever asks what the settings list.
THEOREM Typing == Spec => []TypeOK
<1>1. Init => TypeOK /\ AsksQuestions
  <2> SUFFICES ASSUME Init PROVE TypeOK /\ AsksQuestions
    OBVIOUS
  <2>1. world \in [scrape: [Targets -> {"up", "down", "missing"}],
                   absent: SUBSET (Metrics \cup Heartbeats),
                   silenced: SUBSET Silences,
                   prometheus: BOOLEAN, alertmanager: BOOLEAN]
    BY DEF Init, Healthy
  <2>2. run \in RunSpace /\ run.at = "resting"
    BY RestingFields DEF Init
  <2> QED
    BY <2>1, <2>2, WatchdogAssumption DEF Init, TypeOK, AsksQuestions, RunSpace, Statuses
<1>2. TypeOK /\ AsksQuestions /\ [Next]_vars => TypeOK' /\ AsksQuestions'
  <2> SUFFICES ASSUME TypeOK, AsksQuestions, [Next]_vars PROVE TypeOK'
    BY AsksQuestionsStep
  <2>1. CASE UNCHANGED vars
    BY <2>1 DEF vars, TypeOK
  <2> QED
    BY <2>1, PassTyped, AroundTyped DEF Next
<1> QED
  BY <1>1, <1>2, PTL DEF Spec

-----------------------------------------------------------------------------
(* The pass                                                                *)

\* A watchdog that has a question asks Prometheus at least once.
HasAQuestion == Metrics \cup Heartbeats # {}

\* A pass keeps what it was told, up to what it may close.
LEMMA PassStep ==
  ASSUME HasAQuestion, TypeOK, PassInv, [Next]_vars
  PROVE  PassInv'
<1>0. AsksQuestions'
  BY AsksQuestionsStep DEF PassInv
<1>1. CASE Begin
  BY <1>0, <1>1, BeginFields DEF PassInv, AsksInTurn, AsksAll, ExpectsWhatWasAsked,
     ClosesTheExpected, NothingOpenYet, KeepsWhatItSaw, Begin, Questions
<1>2. CASE Ask
  <2>1. PICK q \in Questions :
           /\ run'.at = "prometheus" /\ run'.open = run.open
           /\ q \in run.todo /\ run'.todo = run.todo \ {q}
           /\ run'.found = run.found \cup Wrong(q) /\ run'.saw = run.saw \cup Wrong(q)
           /\ run'.asked = run.asked \cup Decides(q) \cup {Unreachable}
    BY <1>2, AskFields DEF PassInv
  <2>2. Questions' = Questions /\ run.at = "prometheus" /\ (Answered' => Answered)
    BY <1>2, <2>1 DEF Ask, Questions, Answered
  <2>3. AsksInTurn'
    <3>1. SUFFICES ASSUME Answered', NEW x \in Questions \ run'.todo
                   PROVE  Decides(x) \cup {Unreachable} \subseteq run'.asked
      BY <2>2 DEF AsksInTurn, Decides
    <3>2. CASE x = q
      BY <2>1, <3>2
    <3>3. CASE x # q
      BY <2>1, <2>2, <3>1, <3>3 DEF PassInv, AsksInTurn
    <3> QED
      BY <3>2, <3>3
  <2>4. KeepsWhatItSaw'
    BY <2>1, <2>2 DEF PassInv, KeepsWhatItSaw
  <2> QED
    BY <1>0, <2>1, <2>2, <2>3, <2>4 DEF PassInv, AsksAll, ExpectsWhatWasAsked, ClosesTheExpected, NothingOpenYet
<1>3. CASE AskUnanswered
  <2>1. ~ Answered' /\ run'.at = "alertmanager" /\ run'.open = {}
    BY <1>3, UnansweredFields DEF Answered, PassInv, NothingOpenYet
  <2> QED
    BY <1>0, <2>1 DEF PassInv, AsksInTurn, AsksAll, ExpectsWhatWasAsked,
       ClosesTheExpected, NothingOpenYet, KeepsWhatItSaw
<1>4. CASE AskedAll
  <2>1. /\ run.at = "prometheus" /\ run.todo = {}
        /\ run'.at = "alertmanager" /\ run'.found = run.found /\ run'.open = run.open
        /\ run'.saw = run.saw /\ run'.asked = run.asked
    BY <1>4, AskedAllFields
  <2>2. Questions' = Questions
    BY <1>4 DEF AskedAll, Questions
  <2>3. AsksAll' /\ KeepsWhatItSaw'
    BY <2>1, <2>2 DEF PassInv, AsksInTurn, AsksAll, KeepsWhatItSaw, Answered, Decides
  <2> QED
    BY <1>0, <2>1, <2>3 DEF PassInv, AsksInTurn, ExpectsWhatWasAsked, ClosesTheExpected,
       NothingOpenYet
<1>5. CASE AskAlertmanager
  <2>1. PICK wrong \in SUBSET (Findings \ {Unreachable}), about \in SUBSET Findings :
           /\ run.at = "alertmanager" /\ run'.at = "report" /\ run'.open = run.open
           /\ run'.found = run.found \cup wrong /\ run'.saw = run.saw \cup wrong
           /\ run'.asked = run.asked \cup about
           /\ HasAlertmanager => AmUnreachable \in about
    BY <1>5, AlertmanagerFields
  <2>2. Expected' = Expected /\ (Answered' => Answered)
    BY <1>5, <2>1 DEF AskAlertmanager, Expected, Answered
  <2>3. KeepsWhatItSaw'
    BY <2>1, <2>2 DEF PassInv, KeepsWhatItSaw
  <2>4. ASSUME Answered PROVE Expected \subseteq run'.asked
    <3>1. \A q \in Questions : Decides(q) \cup {Unreachable} \subseteq run.asked
      BY <2>1, <2>4 DEF PassInv, AsksAll
    <3>2. Unreachable \in run.asked
      BY <3>1 DEF HasAQuestion, Questions
    <3>3. \A t \in targets : Down(t) \in run.asked /\ Missing(t) \in run.asked
      <4>1. ASSUME NEW t \in targets PROVE Decides(Down(t)) = {Down(t), Missing(t)}
        BY DEF Decides, Down
      <4> QED
        BY <3>1, <4>1 DEF Questions
    <3>4. /\ \A m \in Metrics : Absent(m) \in run.asked
          /\ \A h \in Heartbeats : NoBeat(h) \in run.asked
      <4>1. \A x : x \in Decides(x)
        BY DEF Decides
      <4> QED
        BY <3>1, <4>1 DEF Questions
    <3> QED
      BY <2>1, <3>2, <3>3, <3>4 DEF Expected
  <2> QED
    BY <1>0, <2>1, <2>2, <2>3, <2>4 DEF PassInv, AsksInTurn, AsksAll,
       ExpectsWhatWasAsked, ClosesTheExpected, NothingOpenYet
<1>6. CASE Report
  <2>1. /\ run.at = "report" /\ run'.at = "report" /\ run'.open = run.open
        /\ run'.found = run.found /\ run'.saw = run.saw /\ run'.asked = run.asked
    BY <1>6, ReportFields
  <2>2. Expected' = Expected
    BY <1>6 DEF Report, Expected
  <2> QED
    BY <1>0, <2>1, <2>2 DEF PassInv, AsksInTurn, AsksAll, ExpectsWhatWasAsked,
       ClosesTheExpected, NothingOpenYet, KeepsWhatItSaw, Answered
<1>7. CASE Reported
  <2>1. /\ run.at = "report" /\ run'.at = "close"
        /\ run'.found = run.found /\ run'.saw = run.saw /\ run'.asked = run.asked
        /\ run'.todo \subseteq Expected \ run.found /\ run'.open = {}
    BY <1>7, ReportedFields DEF PassInv, NothingOpenYet
  <2>2. Expected' = Expected
    BY <1>7 DEF Reported, Expected
  <2> QED
    BY <1>0, <2>1, <2>2 DEF PassInv, AsksInTurn, AsksAll, ExpectsWhatWasAsked,
       ClosesTheExpected, NothingOpenYet, KeepsWhatItSaw, Answered
<1>8. CASE LookUp \/ Close
  <2>1. /\ run.at = "close" /\ run'.at = "close"
        /\ run'.found = run.found /\ run'.saw = run.saw /\ run'.asked = run.asked
        /\ run'.todo \subseteq run.todo /\ run'.open \subseteq run.todo
    BY <1>8, LookUpFields, CloseFields
  <2>2. Expected' = Expected
    BY <1>8 DEF LookUp, Close, Expected
  <2> QED
    BY <1>0, <2>1, <2>2 DEF PassInv, AsksInTurn, AsksAll, ExpectsWhatWasAsked,
       ClosesTheExpected, NothingOpenYet, KeepsWhatItSaw, Answered
<1>9. CASE Announce \/ Redeploy
  <2>1. run' = Resting
    BY <1>9 DEF Announce, Redeploy
  <2> QED
    BY <1>0, <2>1, RestingFields DEF PassInv, AsksInTurn, AsksAll, ExpectsWhatWasAsked,
       ClosesTheExpected, NothingOpenYet, KeepsWhatItSaw
<1>10. CASE ScrapeChanges \/ SeriesChange \/ ServersChange \/ PersonEdits \/ UNCHANGED vars
  <2>1. targets' = targets /\ run' = run
    BY <1>10 DEF ScrapeChanges, SeriesChange, ServersChange, PersonEdits, vars
  <2>2. Questions' = Questions /\ Expected' = Expected
    BY <2>1 DEF Questions, Expected
  <2> QED
    BY <2>1, <2>2 DEF PassInv, AsksQuestions, AsksInTurn, AsksAll, ExpectsWhatWasAsked,
       ClosesTheExpected, NothingOpenYet, KeepsWhatItSaw, Answered, Decides
<1> QED
  BY <1>1, <1>2, <1>3, <1>4, <1>5, <1>6, <1>7, <1>8, <1>9, <1>10 DEF Next, Pass

\* So it does at every moment, whatever happens around it.
LEMMA PassHolds ==
  ASSUME HasAQuestion
  PROVE  Spec => [](TypeOK /\ PassInv)
<1>1. Init => PassInv
  BY RestingFields DEF Init, PassInv, AsksQuestions, AsksInTurn, AsksAll,
     ExpectsWhatWasAsked, ClosesTheExpected, NothingOpenYet, KeepsWhatItSaw
<1>2. TypeOK /\ PassInv /\ [Next]_vars => PassInv'
  BY PassStep
<1> QED
  BY <1>1, <1>2, Typing, PTL DEF Spec

\* The pass closes an issue only for a finding that it looked up.
LEMMA ClosedWasLookedUp ==
  ASSUME TypeOK, [Next]_vars, NEW k \in Keys, Closes(k)
  PROVE  \E f \in run.open : KeyOf(f) = k
<1>1. run.at = "close" /\ run' # run /\ issues'[k] # issues[k]
  BY DEF Closes
<1>2. CASE Close
  BY <1>1, <1>2, CloseFields
<1>3. CASE ~ Close
  <2>1. issues' = issues \/ run' = run
    BY <1>1, <1>3 DEF Next, Pass, Begin, Ask, AskUnanswered, AskedAll, AskAlertmanager, Report,
       Reported, LookUp, Announce, ScrapeChanges, SeriesChange, ServersChange,
       PersonEdits, Redeploy, vars
  <2> QED
    BY <1>1, <2>1
<1> QED
  BY <1>2, <1>3

\* In a pass whose every query was answered nothing is closed that was not
\* asked: the query behind the closed finding was answered in this very pass,
\* whatever was redeployed, edited or changed before it and during it.  The
\* settings must leave Prometheus something to be asked.
THEOREM ClosesWhatWasAsked ==
  ASSUME HasAQuestion
  PROVE  Spec => AnsweredPassClosesWhatWasAsked
<1>1. ASSUME TypeOK, PassInv, [Next]_vars, NEW k \in Keys, Closes(k),
             Unreachable \notin run.found
      PROVE  \E f \in run.asked : KeyOf(f) = k
  <2>1. PICK f \in run.open : KeyOf(f) = k
    BY <1>1, ClosedWasLookedUp
  <2>2. run.at = "close"
    BY <1>1 DEF Closes
  <2>3. f \in Expected /\ Expected \subseteq run.asked
    BY <1>1, <2>2 DEF PassInv, ClosesTheExpected, ExpectsWhatWasAsked, Answered
  <2> QED
    BY <2>1, <2>3
<1>2. TypeOK /\ PassInv /\ [Next]_vars =>
        [\A k \in Keys : Closes(k) /\ Unreachable \notin run.found =>
                           \E f \in run.asked : KeyOf(f) = k]_vars
  BY <1>1
<1> QED
  BY <1>2, PassHolds, PTL DEF Spec, AnsweredPassClosesWhatWasAsked

\* Where it closes an issue whose failure it saw, that is for another subject the
\* normaliser renders alike, asked about in the same pass and found to be fine:
\* with no such pair of subjects nothing is closed that the pass saw failing.
THEOREM ClosesForAnother ==
  ASSUME HasAQuestion
  PROVE  Spec => ClosesWhatItSawForAnother
<1>1. ASSUME TypeOK, PassInv, [Next]_vars, NEW k \in Keys, Closes(k),
             Unreachable \notin run.found, NEW f \in run.saw, KeyOf(f) = k
      PROVE  \E g \in run.asked \ run.saw : KeyOf(g) = k
  <2>1. PICK g \in run.open : KeyOf(g) = k
    BY <1>1, ClosedWasLookedUp
  <2>2. run.at = "close"
    BY <1>1 DEF Closes
  <2>3. g \in Expected /\ Expected \subseteq run.asked /\ g \notin run.found
    BY <1>1, <2>1, <2>2 DEF PassInv, ClosesTheExpected, ExpectsWhatWasAsked, Answered
  <2>4. run.saw \subseteq run.found
    BY <1>1 DEF PassInv, KeepsWhatItSaw, Answered
  <2> QED
    BY <1>1, <2>1, <2>3, <2>4
<1>2. TypeOK /\ PassInv /\ [Next]_vars =>
        [\A k \in Keys : Closes(k) /\ Unreachable \notin run.found =>
           \A f \in run.saw : KeyOf(f) = k =>
             \E g \in run.asked \ run.saw : KeyOf(g) = k]_vars
  BY <1>1
<1> QED
  BY <1>2, PassHolds, PTL DEF Spec, ClosesWhatItSawForAnother

=============================================================================
