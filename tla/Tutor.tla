-------------------------------- MODULE Tutor --------------------------------
(***************************************************************************)
(* The tutor extension (cads-tutor): the progress rules of session.ts and  *)
(* the handlers of controller.ts that change the session, its file or the  *)
(* panel.  A handler that awaits a check or the language model is two      *)
(* actions, with the state it captured in between; what happens between    *)
(* two awaits is one step of the extension host's event loop.              *)
(*                                                                         *)
(* Abstracted: texts, timestamps, answers (a verdict is any the check's    *)
(* kind can give), course contents (only which courses are loaded changes).*)
(***************************************************************************)
EXTENDS Naturals, Sequences, FiniteSets, Functions

CONSTANTS
  Order,            \* the steps in authored order
  CourseOf,         \* the course of each step
  Prereq,           \* the prerequisite courses of each course
  Requires,         \* the steps of the same course a step requires
  Tasks,            \* the task ids of each step, in order; steps may share ids
  Kind,             \* the check of each task
  Authored,         \* the tasks whose pack brings hints of its own
  MAX_HINT_TIER,
  LoopIds,          \* as many of runAllTasks and runLocalChecks at a time
  MaxEvents,        \* user and environment events, failing writes included
  NoStep, NoPanel, NoSession

Steps == Range(Order)
Courses == DOMAIN Prereq
Keys == UNION {{<<s, t>> : t \in Range(Tasks[s])} : s \in Steps}
StepsOf(c) == {s \in Steps : CourseOf[s] = c}
Statuses == {"pending", "passed", "failed", "unavailable"}

TaskStates == [status : Statuses, failures : 0..MAX_HINT_TIER, tier : 0..MAX_HINT_TIER]
Sessions == [step : Steps \cup {NoStep}, started : SUBSET Steps, completed : SUBSET Steps,
             task : [Keys -> TaskStates]]
Runs == [pc : {"idle", "checking", "hinting"}, silent : BOOLEAN, confirmed : BOOLEAN]

ASSUME TutorAssumption ==
  /\ Order \in Seq(Steps) /\ CourseOf \in [Steps -> Courses]
  /\ \A c \in Courses : IsFiniteSet(Prereq[c])
  /\ \A s \in Steps : Tasks[s] \in Seq(Range(Tasks[s]))
  /\ MAX_HINT_TIER \in Nat \ {0} /\ MaxEvents \in Nat
  /\ NoStep \notin Steps /\ NoSession \notin Sessions

VARIABLES
  llm,              \* a language model is configured
  known,            \* the loaded courses
  up,               \* the extension host runs
  session, disk,    \* the session and its file
  lost, losses,     \* the last write failed; in how many turns one has
  owed,             \* history: the tasks whose verdict was written without its hint tier
  panel,            \* what the step panel shows
  run,              \* per task, the check under way
  confirmed,        \* confirmedNow
  loops,            \* runAllTasks and runLocalChecks under way
  hints,            \* hint requests at the language model, with the status they saw
  events

vars == <<llm, known, owed, up, session, disk, lost, losses, panel, run, confirmed, loops, hints, events>>

------------------------------------------------------------------------------
(* session.ts *)

NewTask == [status |-> "pending", failures |-> 0, tier |-> 0]
NewSession == [step |-> NoStep, started |-> {}, completed |-> {},
               task |-> [k \in Keys |-> NewTask]]

IsStepDone(s, st) ==
  st \in s.started /\ \A t \in Range(Tasks[st]) : s.task[<<st, t>>].status = "passed"

IsCourseDone(s, c) == \A st \in StepsOf(c) : IsStepDone(s, st)

IsStepUnlocked(s, st) ==
  /\ \A c \in Prereq[CourseOf[st]] \cap known : IsCourseDone(s, c)
  /\ \A r \in Requires[st] : IsStepDone(s, r)

StepStatus(s, st) == IF IsStepDone(s, st) THEN "done"
                     ELSE IF ~IsStepUnlocked(s, st) THEN "locked"
                     ELSE IF s.step = st THEN "active" ELSE "open"

SetCurrentStep(s, st) == [s EXCEPT !.step = st, !.started = @ \cup {st}]

HintTier(failures) == CHOOSE n \in 1..MAX_HINT_TIER :
  n = failures \/ (n = 1 /\ failures = 0) \/ (n = MAX_HINT_TIER /\ failures > n)

SetHintTier(s, k, tier) ==
  LET t == s.task[k]
  IN  [s EXCEPT !.task[k] = [t EXCEPT !.tier = IF tier > t.tier THEN tier ELSE t.tier]]

(* The count of failures is kept up to the highest tier: no more of it is read. *)
Counted(status, failures) ==
  IF status = "passed" THEN 0
  ELSE IF status = "failed" /\ failures < MAX_HINT_TIER THEN failures + 1 ELSE failures

RecordKeepingCompletion(s, k, status) ==
  LET t == s.task[k]
      s1 == [s EXCEPT !.started = @ \cup {k[1]},
                      !.task[k] = [t EXCEPT !.status = status,
                                            !.failures = Counted(status, t.failures)]]
  IN  [s1 EXCEPT !.completed = IF IsStepDone(s1, k[1]) THEN @ \cup {k[1]} ELSE @]

RecordTaskResult(s, k, status) ==
  LET t == s.task[k]
      s1 == [s EXCEPT !.started = @ \cup {k[1]},
                      !.task[k] = [t EXCEPT !.status = status,
                                            !.failures = Counted(status, t.failures)]]
  IN  [s1 EXCEPT !.completed = IF IsStepDone(s1, k[1]) THEN @ \cup {k[1]} ELSE @ \ {k[1]}]

(* Where a fresh session starts: the first step of a course with the fewest prerequisites. *)
Index(st) == CHOOSE i \in DOMAIN Order : Order[i] = st
DefaultStart ==
  LET there == {s \in Steps : CourseOf[s] \in known}
      Earlier(a, b) == LET n(s) == Cardinality(Prereq[CourseOf[s]])
                       IN  n(a) < n(b) \/ (n(a) = n(b) /\ Index(a) <= Index(b))
  IN  IF there = {} THEN NoStep ELSE CHOOSE s \in there : \A o \in there : Earlier(s, o)

------------------------------------------------------------------------------
(* The panel, the file and the checks *)

Current == IF session.step # NoStep /\ CourseOf[session.step] \in known
           THEN session.step ELSE NoStep

View(s, st) == [step |-> st, done |-> IsStepDone(s, st),
                shown |-> [t \in Range(Tasks[st]) |-> s.task[<<st, t>>].status]]

(* renderCurrent(true): an open panel shows the current step again, if there is one. *)
Rerender(s, courses) ==
  IF panel = NoPanel \/ s.step = NoStep \/ CourseOf[s.step] \notin courses
  THEN panel ELSE View(s, s.step)

PostTaskAnywhere(p, k, status) ==
  IF p # NoPanel /\ k[2] \in DOMAIN p.shown THEN [p EXCEPT !.shown[k[2]] = status] ELSE p

PostTask(p, k, status) ==
  IF p # NoPanel /\ p.step = k[1] THEN [p EXCEPT !.shown[k[2]] = status] ELSE p

PostStepDone(p) == IF p # NoPanel THEN [p EXCEPT !.done = TRUE] ELSE p

Spins(p, t) == IF p # NoPanel /\ t \in DOMAIN p.shown THEN [p EXCEPT !.shown[t] = "running"] ELSE p

SaveBeforeChange(s) == session' = s /\ disk' = session /\ lost' = FALSE /\ UNCHANGED losses
SaveSession(s) == /\ session' = s
                  /\ \/ disk' = s /\ lost' = FALSE /\ UNCHANGED losses
                     \/ /\ events + losses < MaxEvents /\ losses' = losses + 1
                        /\ lost' = TRUE /\ UNCHANGED disk

Idle == [pc |-> "idle", silent |-> FALSE, confirmed |-> FALSE]
Off == [kind |-> "off", step |-> NoStep, todo |-> <<>>, waits |-> FALSE, on |-> <<>>]
Due(kind) == [Off EXCEPT !.kind = kind]

IsLocalCheck(k) == Kind[k] \in {"file", "elf"}

VerdictsUntimed(k) == IF Kind[k] = "slow" THEN {} ELSE {"passed", "failed"}
Verdicts(k) ==
  CASE Kind[k] \in {"file", "elf"} -> {"passed", "failed"}
    [] Kind[k] = "slow" -> {"passed", "failed", "unavailable"}
    [] Kind[k] = "manual" -> {IF run[k].confirmed THEN "passed" ELSE "pending"}
    [] Kind[k] = "question" -> IF llm THEN {"passed", "failed", "unavailable"}
                               ELSE {"failed", IF run[k].confirmed THEN "passed" ELSE "pending"}

Locked(k) == StepStatus(session, k[1]) = "locked"

(* runTask up to its await; p is the panel it posts to, the student's confirmations are c. *)
RunTask(k, silent, p, c) ==
  IF Locked(k) /\ ~silent THEN panel' = PostTask(p, k, "pending") /\ UNCHANGED run
  ELSE /\ panel' = p
       /\ run' = IF run[k].pc # "idle" THEN run
                 ELSE [run EXCEPT ![k] = [pc |-> "checking", silent |-> silent,
                         confirmed |-> k \in c \/ session.task[k].status = "passed"]]

(* A check is judged: the record is written, and in the same turn a failed one again, with *)
(* the hint tier it escalates to.  The second write may fail on its own.                   *)
Escalated(s, k) == SetHintTier(s, k, HintTier(s.task[k].failures))

SaveVerdict(k, v) ==
  LET s1 == RecordTaskResult(session, k, v)
      s2 == IF v = "failed" THEN Escalated(s1, k) ELSE s1
  IN  \/ SaveSession(s2) /\ owed' = IF lost' THEN owed ELSE owed \ {k}
      \/ /\ v = "failed" /\ events + losses < MaxEvents /\ losses' = losses + 1
         /\ session' = s2 /\ disk' = s1 /\ lost' = TRUE /\ owed' = owed \cup {k}

(* The run ends: whoever awaits it goes on. *)
EndRun(k) ==
  /\ run' = [run EXCEPT ![k] = Idle]
  /\ loops' = [l \in LoopIds |-> IF loops[l].waits /\ loops[l].on = k
                                 THEN [loops[l] EXCEPT !.waits = FALSE, !.on = <<>>] ELSE loops[l]]

------------------------------------------------------------------------------
(* runTask after its await: the verdict is booked, escalated and posted *)

Returns(k, v) ==
  /\ up /\ run[k].pc = "checking" /\ v \in Verdicts(k)
  /\ confirmed' = confirmed \ {k}
  /\ SaveVerdict(k, v)
  /\ LET completes == IsStepDone(session', k[1]) /\ ~IsStepDone(session, k[1])
         p == PostTask(panel, k, v)
     IN  IF v = "failed" /\ ~run[k].silent /\ k \notin Authored /\ llm
         THEN run' = [run EXCEPT ![k] = [@ EXCEPT !.pc = "hinting"]] /\ UNCHANGED <<panel, loops>>
         ELSE EndRun(k) /\ panel' = IF completes THEN PostStepDone(p) ELSE p
  /\ UNCHANGED <<llm, known, up, hints, events>>

HintArrives(k) ==
  /\ up /\ run[k].pc = "hinting"
  /\ EndRun(k)
  /\ panel' = PostTask(panel, k, "failed")
  /\ UNCHANGED <<llm, known, owed, up, session, disk, lost, losses, confirmed, hints, events>>

(* runAllTasks and runLocalChecks: the step is captured at the start, but runTask looks *)
(* each task id up in the step that is current by then, and is silent: no lock stops it. *)
LoopStarts(l) ==
  /\ up /\ loops[l].kind \in {"all", "local"} /\ loops[l].step = NoStep
  /\ LET st == Current
         kind == loops[l].kind
         Local(t) == IsLocalCheck(<<st, t>>)
     IN  loops' = [loops EXCEPT ![l] =
           IF st = NoStep \/ (kind = "local" /\ StepStatus(session, st) = "locked") THEN Off
           ELSE [Due(kind) EXCEPT !.step = st,
                   !.todo = IF kind = "all" THEN Tasks[st] ELSE SelectSeq(Tasks[st], Local)]]
  /\ UNCHANGED <<llm, known, owed, up, session, disk, lost, losses, panel, run, confirmed, hints, events>>

LoopSteps(l) ==
  /\ up /\ loops[l].step # NoStep /\ ~loops[l].waits
  /\ IF loops[l].todo = <<>> THEN loops' = [loops EXCEPT ![l] = Off] /\ UNCHANGED <<panel, run>>
     ELSE LET t == Head(loops[l].todo)
              own == <<loops[l].step, t>>
              k == <<Current, t>>
              rest == [loops[l] EXCEPT !.todo = Tail(@)]
              skips == /\ loops[l].kind = "all" /\ Kind[own] # "file"
                       /\ session.task[own].status = "passed"
          IN  IF skips
              THEN /\ loops' = [loops EXCEPT ![l] = rest]
                   /\ panel' = PostTask(panel, own, "passed")
                   /\ UNCHANGED run
              ELSE IF k \in Keys /\ run[k].pc = "idle"
              THEN /\ RunTask(k, TRUE, panel, confirmed)
                   /\ loops' = [loops EXCEPT ![l] = [rest EXCEPT !.waits = TRUE, !.on = k]]
              ELSE loops' = [loops EXCEPT ![l] = rest] /\ UNCHANGED <<panel, run>>
  /\ UNCHANGED <<llm, known, owed, up, session, disk, lost, losses, confirmed, hints, events>>

Spawn(kinds) ==    \* room for the loops a handler starts; which of the free ones is the same
  LET fits == Injection(DOMAIN kinds, {l \in LoopIds : loops[l] = Off})
      f == CHOOSE g \in fits : TRUE
  IN  /\ fits # {}
      /\ loops' = [l \in LoopIds |-> IF \E i \in DOMAIN kinds : f[i] = l
                                     THEN Due(kinds[CHOOSE i \in DOMAIN kinds : f[i] = l])
                                     ELSE loops[l]]

------------------------------------------------------------------------------
(* What the student does.  A button of the panel shows its task as running at once. *)

Event == up /\ events + losses < MaxEvents /\ events' = events + 1

Shows(k) == panel # NoPanel /\ panel.step = k[1]

ClicksCheck(k) ==
  /\ Event /\ k[1] = Current
  /\ LET button == Shows(k) /\ Kind[k] \notin {"manual", "question"}
     IN  RunTask(k, FALSE, IF button THEN Spins(panel, k[2]) ELSE panel, confirmed)
  /\ UNCHANGED <<llm, known, owed, up, session, disk, lost, losses, confirmed, loops, hints>>

Confirms(k) ==
  /\ Event /\ k[1] = Current /\ Shows(k)
  /\ Kind[k] \in {"manual"} \cup IF llm THEN {} ELSE {"question"}
  /\ confirmed' = confirmed \cup {k}
  /\ RunTask(k, FALSE, Spins(panel, k[2]), confirmed')
  /\ UNCHANGED <<llm, known, owed, up, session, disk, lost, losses, loops, hints>>

Answers(k) ==
  /\ Event /\ k[1] = Current /\ Shows(k) /\ Kind[k] = "question"
  /\ SaveSession([session EXCEPT !.started = @ \cup {k[1]}])
  /\ RunTask(k, FALSE, Spins(panel, k[2]), confirmed)
  /\ UNCHANGED <<llm, known, owed, up, confirmed, loops, hints>>

(* The button is disabled while the panel shows the step as locked. *)
ClicksRunAll ==
  /\ Event /\ panel # NoPanel /\ panel.step = Current /\ ~Locked(<<Current>>)
  /\ panel' = [panel EXCEPT !.shown = [t \in DOMAIN @ |-> "running"]]
  /\ Spawn(<<"all">>)
  /\ UNCHANGED <<llm, known, owed, up, session, disk, lost, losses, run, confirmed, hints>>

GoesTo(st) ==
  /\ SaveSession(SetCurrentStep(session, st))
  /\ panel' = View(session', st)

GotoStep(st) ==
  /\ Event /\ CourseOf[st] \in known
  /\ GoesTo(st)
  /\ Spawn(<<"local">>)
  /\ UNCHANGED <<llm, known, owed, up, run, confirmed, hints>>

(* The command cads.tutor.runChecks: open, then runAllTasks. *)
RunChecks ==
  /\ Event
  /\ LET st == IF Current = NoStep THEN DefaultStart ELSE Current
     IN  st # NoStep /\ GoesTo(st)
  /\ Spawn(<<"local", "all">>)
  /\ UNCHANGED <<llm, known, owed, up, run, confirmed, hints>>

Saves ==
  /\ Event /\ Current # NoStep
  /\ Spawn(<<"local">>)
  /\ UNCHANGED <<llm, known, owed, up, session, disk, lost, losses, panel, run, confirmed, hints>>

ShowHint(k) ==
  /\ Event /\ k[1] = Current /\ Shows(k)
  /\ LET t == session.task[k]
         failures == IF t.failures > t.tier THEN t.failures ELSE t.tier + 1
     IN  /\ SaveSession(SetHintTier(session, k, HintTier(failures)))
         /\ IF k \in Authored \/ ~llm
            THEN panel' = PostTask(panel, k, t.status) /\ UNCHANGED hints
            ELSE hints' = hints \cup {<<k, t.status>>} /\ UNCHANGED panel
  /\ UNCHANGED <<llm, known, owed, up, run, confirmed, loops>>

HintShown(h) ==
  /\ up /\ h \in hints
  /\ hints' = hints \ {h}
  /\ panel' = PostTask(panel, h[1], h[2])
  /\ UNCHANGED <<llm, known, owed, up, session, disk, lost, losses, run, confirmed, loops, events>>

SetLang ==
  /\ Event
  /\ SaveSession(session)
  /\ panel' = Rerender(session, known)
  /\ UNCHANGED <<llm, known, owed, up, run, confirmed, loops, hints>>

ClosePanel ==
  /\ Event /\ panel # NoPanel /\ panel' = NoPanel
  /\ UNCHANGED <<llm, known, owed, up, session, disk, lost, losses, run, confirmed, loops, hints>>

(* After the modal question: the session is replaced, the checks under way are not. *)
ResetProgress ==
  /\ Event
  /\ LET s == IF DefaultStart = NoStep THEN NewSession ELSE SetCurrentStep(NewSession, DefaultStart)
     IN  SaveSession(s) /\ panel' = Rerender(s, known)
  /\ UNCHANGED <<llm, known, owed, up, run, confirmed, loops, hints>>

------------------------------------------------------------------------------
(* Courses come and go; the extension host is restarted *)

ReloadCourses(courses) ==
  /\ Event /\ courses # known
  /\ known' = courses
  /\ panel' = Rerender(session, courses)
  /\ UNCHANGED <<llm, owed, up, session, disk, lost, losses, run, confirmed, loops, hints>>

Dies ==
  /\ Event
  /\ up' = FALSE /\ session' = NewSession /\ panel' = NoPanel
  /\ run' = [k \in Keys |-> Idle] /\ confirmed' = {}
  /\ loops' = [l \in LoopIds |-> Off] /\ hints' = {}
  /\ UNCHANGED <<llm, known>>

Crash == Dies /\ UNCHANGED <<disk, lost, losses, owed>>

(* The process ends between the two writes of a failed check. *)
DiesEscalating(k) ==
  /\ run[k].pc = "checking" /\ "failed" \in Verdicts(k)
  /\ disk' = RecordTaskResult(session, k, "failed") /\ lost' = FALSE
  /\ owed' = owed \cup {k}
  /\ Dies /\ UNCHANGED losses

(* activate: the session is read, a student without one is taken to the first step, *)
(* one whose step is gone as well, but without a panel.                             *)
ActivateAfresh ==
  /\ ~up /\ up' = TRUE
  /\ SaveSession(NewSession) /\ panel' = NoPanel
  /\ UNCHANGED <<llm, known, owed, run, confirmed, loops, hints, events>>

Activate ==
  /\ ~up /\ up' = TRUE
  /\ LET s == IF disk = NoSession THEN NewSession ELSE disk
         hasSession == s.step # NoStep /\ s.started # {}
         there == hasSession /\ CourseOf[s.step] \in known
     IN  IF known = {} \/ there \/ DefaultStart = NoStep
         THEN /\ session' = s /\ lost' = FALSE
              /\ panel' \in IF there THEN {NoPanel, View(s, s.step)} ELSE {NoPanel}
              /\ UNCHANGED <<disk, losses, loops>>
         ELSE /\ SaveSession(SetCurrentStep(s, DefaultStart))
              /\ IF hasSession THEN panel' = NoPanel /\ UNCHANGED loops
                 ELSE panel' = View(session', DefaultStart) /\ Spawn(<<"local">>)
  /\ UNCHANGED <<llm, known, owed, run, confirmed, hints, events>>

------------------------------------------------------------------------------
Init ==
  /\ llm \in BOOLEAN /\ known = Courses /\ up = FALSE
  /\ session = NewSession /\ disk = NoSession /\ lost = FALSE /\ losses = 0
  /\ owed = {} /\ panel = NoPanel
  /\ run = [k \in Keys |-> Idle] /\ confirmed = {}
  /\ loops = [l \in LoopIds |-> Off] /\ hints = {} /\ events = 0

Loop == \E l \in LoopIds : LoopStarts(l) \/ LoopSteps(l)

Student == \/ \E k \in Keys : ClicksCheck(k) \/ Confirms(k) \/ Answers(k) \/ ShowHint(k)
           \/ ClicksRunAll \/ RunChecks \/ Saves \/ SetLang \/ ClosePanel \/ ResetProgress
           \/ \E st \in Steps : GotoStep(st)

Next == \/ \E k \in Keys : HintArrives(k) \/ DiesEscalating(k) \/ \E v \in Statuses : Returns(k, v)
        \/ Loop \/ Student
        \/ \E h \in Keys \X Statuses : HintShown(h)
        \/ \E c \in SUBSET Courses : ReloadCourses(c)
        \/ Crash \/ Activate

(* Every check without a language model ends (tasks, serial and debugger waits have timeouts, *)
(* the others answer at once), and the event loop gets to every continuation.  A request to a *)
(* language model has no timeout: nothing is assumed of it.                                   *)
Fairness ==
  /\ WF_vars(Activate)
  /\ WF_vars(Loop)
  /\ WF_vars(\E k \in Keys, v \in Statuses : ~(llm /\ Kind[k] = "question") /\ Returns(k, v))

Spec == Init /\ [][Next]_vars
FairSpec == Spec /\ Fairness
------------------------------------------------------------------------------
(* Properties *)

(* What the progress of a student rests on has its type. *)
TypeOK ==
  /\ llm \in BOOLEAN /\ known \subseteq Courses /\ up \in BOOLEAN /\ lost \in BOOLEAN
  /\ session \in Sessions /\ disk \in Sessions \cup {NoSession}
  /\ run \in [Keys -> Runs] /\ confirmed \subseteq Keys /\ hints \subseteq Keys \X Statuses
  /\ events \in Nat /\ losses \in Nat /\ owed \subseteq Keys

(* The completion mark of a step and the hint tier of a task are kept apart from what they *)
(* follow from: a step is marked completed exactly while all its tasks are passed, and a   *)
(* failed task has been offered the hint its failures call for, whatever order results,    *)
(* hints, resets and restarts come in.  The hint may be missing only where a failed second *)
(* write or the end of the process left a verdict in the file without it, and no later     *)
(* verdict of that task has been written since.                                            *)
Consistent ==
  /\ \A st \in Steps : Range(Tasks[st]) # {} => (st \in session.completed <=> IsStepDone(session, st))
  /\ \A k \in Keys \ owed :
       session.task[k].status = "failed" => session.task[k].tier >= session.task[k].failures

(* Whatever changes the session writes it: unless the last write failed, a crash at any *)
(* moment loses nothing the student has achieved.                                       *)
Durable == up /\ ~lost /\ disk # NoSession => disk = session

(* Once nothing is under way and no language model delays a hint, the panel of the current *)
(* step says of every task what the session does, or that a lock kept it from being run.   *)
Quiet == /\ \A k \in Keys : run[k].pc = "idle"
         /\ \A l \in LoopIds : loops[l] = Off
         /\ hints = {}
PanelHonest ==
  Quiet /\ ~llm /\ panel # NoPanel /\ panel.step = Current =>
    \A t \in DOMAIN panel.shown :
      panel.shown[t] \in {"pending", session.task[<<panel.step, t>>].status}

(* Without a language model the panel does not show a task as running for ever, while the *)
(* course is loaded: no click is dropped without an answer coming from another run.       *)
Spinning == /\ ~llm /\ panel # NoPanel /\ panel.step = Current
            /\ "running" \in Range(panel.shown)
SpinnerEnds == Spinning ~> ~Spinning

(* The session implements the progress the tutor promises. *)
PassedIn(s) == {k \in Keys : s.task[k].status = "passed"}
Progress == INSTANCE TutorProgress WITH
  passed <- PassedIn(session),
  saved <- IF disk = NoSession THEN {} ELSE PassedIn(disk),
  dirty <- lost,
  checking <- {k \in Keys : run[k].pc = "checking"}
ImplementsProgress == Progress!Spec
=============================================================================
