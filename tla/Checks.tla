-------------------------------- MODULE Checks --------------------------------
(***************************************************************************)
(* The check runner of the tutor (checks/runner.ts) with its VS Code       *)
(* helpers (vscodeChecks.ts): the checks of the loaded courses are         *)
(* evaluated against files, tasks, the board and the debugger.             *)
(*                                                                         *)
(* A run keeps the place it has come to in its check.  What happens        *)
(* between two awaits is not interleaved with events: an event waits until *)
(* every run does.  Abstracted: patterns (a file or line matches or not),  *)
(* exit codes (the expected one or another), places of the program, times  *)
(* (the steps opened so far).                                              *)
(***************************************************************************)
EXTENDS Course, FiniteSets

CONSTANTS
  Runs,             \* as many check runs at a time
  Found,            \* what the loader may find
  Places,           \* where a debugger may stop
  Debuggers,        \* debug sessions
  HistoryCap,       \* 200 in the code
  MaxEvents         \* events of the student, the board and the debugger

ASSUME ChecksAssumption ==
  /\ HistoryCap \in Nat
  /\ \A f \in Found : \A o \in DOMAIN f :
       LET packs == PackDirsIn(f[o])
       IN  packs \in Seq(Range(packs)) /\ \A pack \in Range(packs) : IsPack(pack)
  /\ None \notin {"passed", "failed", "pending", "unavailable", "yes", "no", "running", "exited",
                  "none", "expected", "other"}

Statuses == {"passed", "failed", "pending", "unavailable"}

VARIABLES
  bridge, llm,      \* the board bridge is installed, a language model is configured
  found, loaded,    \* the course sources, and what was made of them
  run,              \* the check runs
  file, board, flash, answered, confirmed,
  now,              \* the times that a step was opened
  startedAt, open,  \* when each step was first opened, and which one is open
  pending, stops,   \* DebugStopTracker: pendingStop, stops
  debugger,         \* per session: where it stands, and whether that was shown yet
  shown,            \* history: every stop that was shown
  events

opened == <<now, startedAt, open>>
world == <<file, board, flash, answered, confirmed, opened>>
tracker == <<pending, stops, debugger, shown>>
vars == <<bridge, llm, found, loaded, run, world, tracker, events>>

------------------------------------------------------------------------------
(* A run.  Facts are history: what really happened since the present part began. *)

NoFacts == [exit |-> None, heard |-> FALSE, stopped |-> FALSE, late |-> FALSE]
Idle == [pc |-> "idle", whole |-> None, path |-> <<>>, status |-> None, step |-> 0,
         waits |-> FALSE, got |-> None, task |-> None, ended |-> FALSE, facts |-> NoFacts,
         passed |-> {}, sawUnavailable |-> {}, verdict |-> None, threw |-> FALSE]

Part(x) == x.whole[x.path]

Opens(x, path) == [x EXCEPT !.pc = "step", !.path = path, !.status = None, !.facts = NoFacts]

Ends(x, status) ==
  [x EXCEPT !.pc = "ended", !.status = status, !.waits = FALSE, !.got = None, !.task = None,
            !.ended = FALSE, !.passed = IF status = "passed" THEN @ \cup {x.path} ELSE @]

Return(r, status) == run' = [run EXCEPT ![r] = Ends(@, status)]

(* An exception leaves every all and any at once. *)
Throw(r) == run' = [run EXCEPT ![r] = [Idle EXCEPT !.verdict = "failed", !.threw = TRUE]]

Await(r, pc) == run' = [run EXCEPT ![r] = [@ EXCEPT !.pc = pc]]

Judge(holds) == IF holds THEN "passed" ELSE "failed"

Tasks(courses) == UNION {UNION {Range(courses[i].steps[s].tasks) : s \in DOMAIN courses[i].steps}
                         : i \in DOMAIN courses}

Turn(r, types) == run[r].pc = "step" /\ Part(run[r]).type \in types
Rest == UNCHANGED <<bridge, llm, found, loaded, world, tracker, events>>

RunCheck(r) ==
  /\ run[r].pc = "idle"
  /\ \E t \in Tasks(loaded.courses) :
       run' = [run EXCEPT ![r] = [Idle EXCEPT !.pc = "step", !.whole = t.check, !.step = startedAt[open]]]
  /\ Rest

------------------------------------------------------------------------------
(* all and any *)

Descend(r) ==
  /\ Turn(r, Composite)
  /\ LET c == Part(run[r])
     IN  IF c.parts = 0 THEN Return(r, Judge(c.type = "all"))
         ELSE run' = [run EXCEPT ![r].path = Append(@, 1)]
  /\ Rest

EndsEarly(type, status) == IF type = "all" THEN status # "passed" ELSE status = "passed"

OfBoard(c) == c.type \in {"board", "flash", "serialExpect"}
AnyFails(x) ==
  IF x.path \in x.sawUnavailable /\ \A i \in 1..Part(x).parts : OfBoard(x.whole[Append(x.path, i)])
  THEN "unavailable" ELSE "failed"

(* A part has ended: its all or any goes on to the next one, or ends as well. *)
Ascends(x) ==
  LET up == [x EXCEPT !.path = Front(@), !.facts = NoFacts,
                      !.sawUnavailable = IF x.status = "unavailable" THEN @ \cup {Front(x.path)} ELSE @]
      c == Part(up)
  IN  IF EndsEarly(c.type, x.status) THEN Ends(up, x.status)
      ELSE IF Last(x.path) < c.parts THEN Opens(up, Append(up.path, Last(x.path) + 1))
      ELSE Ends(up, IF c.type = "all" THEN "passed" ELSE AnyFails(up))

Ascend(r) ==
  /\ run[r].pc = "ended"
  /\ LET x == run[r]
     IN  run' = [run EXCEPT ![r] =
           IF x.path # <<>> THEN Ascends(x)
           ELSE [Idle EXCEPT !.whole = x.whole, !.passed = x.passed, !.verdict = x.status]]
  /\ Rest

------------------------------------------------------------------------------
(* Parts that wait for nothing, or for what is always there *)

CheckFile(r) ==
  /\ Turn(r, {"fileMatches", "fileNotMatches"})
  /\ LET c == Part(run[r])
     IN  IF c.arg \notin DOMAIN file THEN Throw(r)    \* it escapes the project
         ELSE Return(r, Judge(file[c.arg] = IF c.type = "fileMatches" THEN "with" ELSE "without"))
  /\ Rest

SymbolInElf(r) ==
  /\ Turn(r, {"symbolInElf"})
  /\ IF file[Part(run[r]).arg] = "missing" THEN Throw(r) ELSE Await(r, "looking")
  /\ Rest

LookupSymbol(r) ==
  /\ run[r].pc = "looking"
  /\ LET elf == file[Part(run[r]).arg]
     IN  IF elf \in {"missing", "malformed"} THEN Throw(r) ELSE Return(r, Judge(elf = "with"))
  /\ Rest

CheckBoard(r) ==
  /\ Turn(r, {"board"})
  /\ LET want == Part(run[r]).arg
     IN  Return(r, IF ~bridge THEN "unavailable"
                   ELSE Judge(IF want = "connected" THEN board # "disconnected" ELSE board = want))
  /\ Rest

CheckFlash(r) ==
  /\ Turn(r, {"flash"})
  /\ LET since == Part(run[r]).arg
         bound == [stepStart |-> run[r].step, sessionStart |-> 1, any |-> 0]
     IN  Return(r, IF ~bridge THEN "unavailable"
                   ELSE Judge(flash # None /\ flash.ok /\ flash.at >= bound[since]))
  /\ Rest

Manual(r) ==
  /\ Turn(r, {"manual"})
  /\ Return(r, IF confirmed THEN "passed" ELSE "pending")
  /\ Rest

Question(r) ==
  /\ Turn(r, {"question"})
  /\ IF answered THEN Await(r, "grading") ELSE Return(r, "failed")
  /\ Rest

Graded(r, verdict) ==
  /\ run[r].pc = "grading"
  /\ verdict \in IF llm THEN {"pass", "fail", "error"} ELSE {"manual"}
  /\ Return(r, CASE verdict = "pass" -> "passed"
                 [] verdict = "fail" -> "failed"
                 [] verdict = "error" -> "unavailable"
                 [] verdict = "manual" -> IF confirmed THEN "passed" ELSE "pending")
  /\ Rest

------------------------------------------------------------------------------
(* serialExpect: the waiter is there before the text is sent *)

SendThenWait(r) ==
  run' = [run EXCEPT ![r] = IF Part(run[r]).arg = "send" THEN [@ EXCEPT !.pc = "sending"]
                            ELSE [@ EXCEPT !.pc = "waiting", !.waits = TRUE]]
WaitThenSend(r) ==
  run' = [run EXCEPT ![r] = [@ EXCEPT !.pc = IF Part(run[r]).arg = "send" THEN "sending" ELSE "waiting",
                                      !.waits = TRUE]]

SerialExpect(r) ==
  /\ Turn(r, {"serialExpect"})
  /\ IF bridge THEN WaitThenSend(r) ELSE Return(r, "unavailable")
  /\ Rest

Sent(r, ok) ==
  /\ run[r].pc = "sending"
  /\ IF ok THEN run' = [run EXCEPT ![r] = [@ EXCEPT !.pc = "waiting", !.waits = TRUE]] ELSE Throw(r)
  /\ Rest

------------------------------------------------------------------------------
(* debugStop *)

Matches(c, stop) == c.arg = "anywhere" \/ stop.place = c.arg
Recently(x, history) == \E i \in DOMAIN history : history[i].at >= x.step /\ Matches(Part(x), history[i])

Latest(s) == IF Len(s) > HistoryCap THEN SubSeq(s, Len(s) - HistoryCap + 1, Len(s)) ELSE s

AwaitsNextStop(r) ==
  run' = [run EXCEPT ![r] = [@ EXCEPT !.pc = "waiting", !.waits = TRUE,
                                      !.facts.stopped = Recently(run[r], Latest(shown))]]
LooksBackFirst(r) ==
  LET x == [run[r] EXCEPT !.facts.stopped = Recently(run[r], Latest(shown))]
  IN  run' = [run EXCEPT ![r] = IF Recently(run[r], stops) THEN Ends(x, "passed")
                                ELSE [x EXCEPT !.pc = "waiting", !.waits = TRUE]]

DebugStop(r) == Turn(r, {"debugStop"}) /\ LooksBackFirst(r) /\ Rest

(* DebugStopTracker.push: the history is cut, and every waiter that matches is told; *)
(* stop is what the tracker pushes, real what was shown.                              *)
Waits(x, type) == x.waits /\ x.got = None /\ Part(x).type = type

Tell(pushed, real) ==
  [r \in Runs |->
     LET x == run[r]
         of(s) == x.pc = "waiting" /\ Part(x).type = "debugStop" /\ \E p \in s : Matches(Part(x), p)
         told == IF of(pushed) /\ x.got = None THEN [x EXCEPT !.got = "yes"] ELSE x
     IN  IF of(real) /\ ~x.facts.late THEN [told EXCEPT !.facts.stopped = TRUE] ELSE told]

------------------------------------------------------------------------------
(* task and build: waitForExit *)

Task(r) ==
  /\ Turn(r, {"task", "build"})
  /\ IF Part(run[r]).arg = "missing" THEN Throw(r)
     ELSE run' = [run EXCEPT ![r] = [@ EXCEPT !.pc = "waiting", !.waits = TRUE, !.task = "running"]]
  /\ Rest

Executing(r) == run[r].pc = "waiting" /\ run[r].task # None /\ run[r].got = None

(* The process exits; VS Code tells of its end and of the task's end in either order. *)
ProcessExits(r, code) ==
  /\ Executing(r) /\ run[r].task = "running"
  /\ run' = [run EXCEPT ![r] = [@ EXCEPT !.task = "exited", !.facts.exit = code]]
  /\ Rest

OnDidEndTaskProcess(r) ==
  /\ Executing(r) /\ run[r].task = "exited"
  /\ run' = [run EXCEPT ![r] = [@ EXCEPT !.got = IF run[r].facts.exit = "expected" THEN "yes" ELSE "no"]]
  /\ Rest

GivesAMoment(r) ==
  LET x == run[r]
  IN  run' = [run EXCEPT ![r] = [x EXCEPT !.ended = TRUE,
                                          !.task = IF x.task = "running" THEN "none" ELSE x.task]]

(* Also the end of a task that never had a process. *)
OnDidEndTask(r) ==
  /\ Executing(r) /\ ~run[r].ended
  /\ GivesAMoment(r)
  /\ Rest

(* The moment is long enough for the event of a process that has exited. *)
MomentIsOver(r) ==
  /\ Executing(r) /\ run[r].ended /\ run[r].task # "exited"
  /\ run' = [run EXCEPT ![r] = [@ EXCEPT !.got = "no"]]
  /\ Rest

------------------------------------------------------------------------------
(* Timeouts and answers *)

TimeoutUnlessDebugger(r) ==
  /\ run[r].waits /\ run[r].got = None /\ Part(run[r]).type # "debugStop"
  /\ run' = [run EXCEPT ![r] = [@ EXCEPT !.got = "no", !.facts.late = TRUE]]
  /\ Rest

Timeout(r) ==
  /\ run[r].waits /\ run[r].got = None
  /\ run' = [run EXCEPT ![r] = [@ EXCEPT !.got = "no", !.facts.late = TRUE]]
  /\ Rest

Answer(r) ==
  /\ run[r].pc = "waiting" /\ run[r].got # None
  /\ Return(r, Judge(run[r].got = "yes"))
  /\ Rest

------------------------------------------------------------------------------
(* Events come while every run waits *)

Waiting(x) == x.pc \in {"idle", "looking", "grading", "sending"} \/ (x.pc = "waiting" /\ x.got = None)
Event == /\ \A r \in Runs : Waiting(run[r])
         /\ events < MaxEvents /\ events' = events + 1
         /\ UNCHANGED <<bridge, llm, found>>

ReloadCourses ==
  /\ loaded = None /\ loaded' = LoadCourses(found)
  /\ UNCHANGED <<bridge, llm, found, run, world, tracker, events>>

Edits == /\ Event
         /\ \E f \in DOMAIN file, c \in {"missing", "malformed", "with", "without"} :
              file[f] # c /\ file' = [file EXCEPT ![f] = c]
         /\ UNCHANGED <<loaded, run, board, flash, answered, confirmed, opened, tracker>>

BoardChanges == /\ Event /\ bridge
                /\ \E b \in {"disconnected", "halted", "running"} : board # b /\ board' = b
                /\ UNCHANGED <<loaded, run, file, flash, answered, confirmed, opened, tracker>>

Flashes == /\ Event /\ bridge
           /\ \E ok \in BOOLEAN : flash' = [ok |-> ok, at |-> now]
           /\ UNCHANGED <<loaded, run, file, board, answered, confirmed, opened, tracker>>

AnswersOrConfirms == /\ Event
                     /\ \/ ~answered /\ answered' = TRUE /\ UNCHANGED confirmed
                        \/ ~confirmed /\ confirmed' = TRUE /\ UNCHANGED answered
                     /\ UNCHANGED <<loaded, run, file, board, flash, opened, tracker>>

(* For the first time, or again: ensureStepProgress keeps the time it has. *)
OpensStep == /\ Event /\ now' = now + 1
             /\ \/ startedAt' = Append(startedAt, now') /\ open' = Len(startedAt')
                \/ open' \in DOMAIN startedAt \ {open} /\ UNCHANGED startedAt
             /\ UNCHANGED <<loaded, run, file, board, flash, answered, confirmed, tracker>>

(* The board prints a line that matches. *)
SerialLine ==
  /\ Event /\ bridge
  /\ run' = [r \in Runs |->
       LET x == run[r]
           listens == x.pc \in {"sending", "waiting"} /\ Part(x).type = "serialExpect" /\ ~x.facts.late
       IN  [x EXCEPT !.got = IF Waits(x, "serialExpect") THEN "yes" ELSE @,
                     !.facts.heard = IF listens THEN TRUE ELSE @]]
  /\ UNCHANGED <<loaded, world, tracker>>

(* A debug adapter's messages pass the tracker: stopped, continued, and the response to a *)
(* stackTrace request.  The flag pendingStop is shared by all sessions.                   *)
Stopped(d) ==
  /\ Event /\ debugger[d].at = None
  /\ \E p \in Places : debugger' = [debugger EXCEPT ![d] = [at |-> p, new |-> TRUE]]
  /\ pending' = TRUE
  /\ UNCHANGED <<loaded, run, world, stops, shown>>

Continued(d) ==
  /\ Event /\ debugger[d].at # None
  /\ debugger' = [debugger EXCEPT ![d] = [at |-> None, new |-> FALSE]]
  /\ pending' \in {FALSE, pending}      \* not every adapter sends the event
  /\ UNCHANGED <<loaded, run, world, stops, shown>>

Push(stop) == stops' = Latest(Append(stops, stop))

StackTrace(d) ==
  /\ Event /\ debugger[d].at # None /\ (pending \/ debugger[d].new)
  /\ LET stop == [place |-> debugger[d].at, at |-> now]
     IN  /\ pending' = FALSE
         /\ IF pending THEN Push(stop) ELSE UNCHANGED stops
         /\ shown' = IF debugger[d].new THEN Append(shown, stop) ELSE shown
         /\ run' = Tell(IF pending THEN {stop} ELSE {}, IF debugger[d].new THEN {stop} ELSE {})
  /\ debugger' = [debugger EXCEPT ![d].new = FALSE]
  /\ UNCHANGED <<loaded, world>>

(* The bridge's own event says neither file nor line. *)
BridgeStop ==
  /\ Event /\ bridge
  /\ LET stop == [place |-> None, at |-> now]
     IN  Push(stop) /\ shown' = Append(shown, stop) /\ run' = Tell({stop}, {stop})
  /\ UNCHANGED <<loaded, world, pending, debugger>>

------------------------------------------------------------------------------
Init ==
  /\ bridge \in BOOLEAN /\ llm \in BOOLEAN
  /\ found \in Found /\ loaded = None
  /\ run = [r \in Runs |-> Idle]
  /\ file = [source |-> "without", elf |-> "missing"]
  /\ board = "disconnected" /\ flash \in {None, [ok |-> TRUE, at |-> 0]} /\ answered = FALSE /\ confirmed = FALSE
  /\ now = 1 /\ startedAt = <<1>> /\ open = 1
  /\ pending = FALSE /\ stops = <<>> /\ shown = <<>>
  /\ debugger = [d \in Debuggers |-> [at |-> None, new |-> FALSE]]
  /\ events = 0

Evaluates(r) ==
  \/ Descend(r) \/ Ascend(r) \/ CheckFile(r) \/ SymbolInElf(r) \/ LookupSymbol(r) \/ CheckBoard(r)
  \/ CheckFlash(r) \/ Manual(r) \/ Question(r) \/ SerialExpect(r) \/ DebugStop(r) \/ Task(r)
  \/ Answer(r) \/ \E ok \in BOOLEAN : Sent(r, ok)

Executes(r) == \/ \E code \in {"expected", "other"} : ProcessExits(r, code)
               \/ OnDidEndTaskProcess(r) \/ OnDidEndTask(r) \/ MomentIsOver(r)

Next ==
  \/ ReloadCourses
  \/ \E r \in Runs : /\ loaded # None
                     /\ \/ RunCheck(r) \/ Evaluates(r) \/ Executes(r) \/ Timeout(r)
                        \/ \E v \in {"pass", "fail", "error", "manual"} : Graded(r, v)
  \/ Edits \/ BoardChanges \/ Flashes \/ AnswersOrConfirms \/ OpensStep \/ SerialLine \/ BridgeStop
  \/ \E d \in Debuggers : Stopped(d) \/ Continued(d) \/ StackTrace(d)

(* The event loop gets to every continuation and timer; the bridge answers a send, and     *)
(* without a language model a grade is there at once.  Nothing else is owed to a check:    *)
(* neither a task's end nor a line, a stop or a language model's grade.                    *)
Fairness == \A r \in Runs : WF_vars(Evaluates(r) \/ Timeout(r) \/ Graded(r, "manual"))

Spec == Init /\ [][Next]_vars
FairSpec == Spec /\ Fairness

------------------------------------------------------------------------------
(* Properties *)

(* A copy of a course that cannot be loaded does not hide one from a later source, and of *)
(* several that can the first is taken.                                                   *)
FirstCopyWins ==
  loaded # None =>
    LET packs == CollectSources(found)
        made(i) == LoadCoursePack(packs[i]).course
        first == {i \in DOMAIN packs : made(i) # None /\ \A j \in 1..(i - 1) : made(j) # None => made(j).id # made(i).id}
    IN  Range(loaded.courses) = {made(i) : i \in first} /\ Len(loaded.courses) = Cardinality(first)

(* A verdict is what the parts of the check came out as: "all" passes exactly if it has  *)
(* parts and each of them did, "any" if one of them did; what was not looked at did not.  *)
VerdictRight ==
  \A r \in Runs : run[r].verdict # None /\ ~run[r].threw =>
    LET whole == run[r].whole  passed == run[r].passed
        Parts(p) == {Append(p, i) : i \in 1..whole[p].parts}
    IN  /\ run[r].verdict = "passed" <=> <<>> \in passed
        /\ \A p \in DOMAIN whole :
             /\ whole[p].type = "all" => (p \in passed <=> Parts(p) # {} /\ Parts(p) \subseteq passed)
             /\ whole[p].type = "any" => (p \in passed <=> Parts(p) \cap passed # {})

(* A part has come to its end. *)
Ended(r, types) == run[r].pc = "ended" /\ Part(run[r]).type \in types

(* A task passes exactly if its process exited with the expected code, unless the time is *)
(* up before VS Code tells: the end of the task does not hide that of its process.        *)
ExitTold ==
  \A r \in Runs : Ended(r, {"task", "build"}) /\ ~run[r].facts.late =>
    (run[r].status = "passed" <=> run[r].facts.exit = "expected")

(* A reply that comes while the text is still being sent is not missed. *)
ReplyHeard ==
  \A r \in Runs : Ended(r, {"serialExpect"}) /\ bridge =>
    (run[r].status = "passed" <=> run[r].facts.heard)

(* What a check waits for is not lost, whichever of two events comes first. *)
AnswerHeard == ExitTold /\ ReplyHeard

(* A debugger stop is seen whether it was shown since the step was first opened or is     *)
(* while the check waits; an earlier stop, or a frame of no stop, does not count.         *)
StopSeen ==
  \A r \in Runs : Ended(r, {"debugStop"}) =>
    (run[r].status = "passed" <=> run[r].facts.stopped)

(* Whatever happens or fails to, a check ends, unless it waits for a language model. *)
EveryCheckEnds ==
  \A r \in Runs : run[r].pc # "idle" ~> (run[r].pc = "idle" \/ (llm /\ run[r].pc = "grading"))
=============================================================================
