------------------------------- MODULE Probe -------------------------------
(***************************************************************************)
(* ProbeService of the web worker (cads-probe/src/driver/probe.ts) and the *)
(* browser's USB events (cads-probe/src/extension.ts): one promise-chain   *)
(* mutex, the operations that run under it, and the poller that reports a  *)
(* processor which halts by itself.                                        *)
(*                                                                         *)
(* An action is one operation or one poll, from its first USB transfer to  *)
(* its last: all that may happen in between is under the mutex too, or     *)
(* commutes with it.  Replies and events leave in order (wire); who calls  *)
(* and who listens is left to GdbServer.                                   *)
(***************************************************************************)
EXTENDS Integers, Sequences

CONSTANTS
    Faults,     \* what may go wrong
    MaxEvents   \* bound: USB events not yet handled

FaultKinds == {"target",   \* the target refuses an access, or does not halt
               "unplug",   \* the cable is pulled, and plugged in again
               "user"}     \* the user disconnects, and connects again

ASSUME ProbeAssumption == Faults \subseteq FaultKinds /\ MaxEvents \in Nat

VARIABLES
    core,       \* the processor: "run", "halt", or "off" without a cable
    armed,      \* a breakpoint or the vector catch may halt it
    astray,     \* so may a breakpoint that nobody tracks any more
    link,       \* the open USB device is still there
    events,     \* the browser's USB events, not yet handled
    usbState, coreState,
    poller,     \* the current generation: "off", "timer" or "queued"
    pollTimer,  \* pollTimer # null
    stray,      \* timers of earlier generations nobody can clear any more
    mutex,      \* the jobs; the head holds the lock
    wire        \* replies and events on their way to the bridge

polling == <<poller, pollTimer, stray>>
probeVars == <<core, armed, astray, link, events, usbState, coreState, polling, mutex, wire>>

\* Operations that leave the processor halted, running, or alone.
Halting == {"halt", "step", "resetHalt", "flash"}
Starting == {"run", "resetRun"}
\* Breakpoints in RAM are BKPTs; those of code, and watchpoints, comparators.
Arming == {"setBreakpoint", "setComparator", "catchOn"}
Access == Arming \cup {"read", "write", "clearBreakpoint", "clearComparator",
                     "clearAll", "catchOff"}
Ops == Halting \cup Starting \cup Access \cup {"getState"}

Kinds == {"call", "poll", "stale", "attach", "detach", "gone"}
Call(ops) == [kind |-> "call", ops |-> ops]
Job(kind) == [kind |-> kind, ops |-> <<>>]
Jobs == {j \in [kind : Kinds, ops : Seq(Ops)] : j.kind = "call" <=> j.ops # <<>>}

Reply(ok) == [type |-> "reply", ok |-> ok]
Event(type) == [type |-> type, ok |-> TRUE]
Messages == {Reply(ok) : ok \in BOOLEAN}
            \cup {Event(t) : t \in {"halted", "usb-connect", "usb-disconnect"}}

ProbeTypeOK ==
    /\ core \in {"run", "halt", "off"} /\ link \in BOOLEAN
    /\ armed \in BOOLEAN /\ astray \in BOOLEAN
    /\ events \in Seq({"connect", "disconnect"})
    /\ usbState \in {"absent", "connected", "error"}
    /\ coreState \in {"halted", "running", "unknown"}
    /\ poller \in {"off", "timer", "queued"}
    /\ pollTimer \in BOOLEAN /\ stray \in BOOLEAN
    /\ mutex \in Seq(Jobs) /\ wire \in Seq(Messages)

-----------------------------------------------------------------------------
(* The poller's generations.  A poll of an earlier generation that waits for
   the mutex becomes "stale"; a timer that pollTimer no longer refers to
   becomes a stray one. *)

Outdated(q) == [i \in DOMAIN q |-> IF q[i] = Job("poll") THEN Job("stale") ELSE q[i]]

Orphan == stray \/ (poller = "timer" /\ ~pollTimer)

\* Mutant: the handle of the cleared timer is kept.
StopPollerKeepingHandle(q) ==
    /\ poller' = "off" /\ stray' = Orphan
    /\ mutex' = Outdated(q)
    /\ UNCHANGED pollTimer

\* q is what the mutex holds otherwise.
StopPoller(q) ==
    /\ poller' = "off" /\ pollTimer' = FALSE /\ stray' = Orphan
    /\ mutex' = Outdated(q)

StartPoller(q) ==
    IF pollTimer THEN UNCHANGED polling /\ mutex' = q
    ELSE /\ poller' = "timer" /\ pollTimer' = TRUE /\ stray' = Orphan
         /\ mutex' = Outdated(q)

\* stopPoller, and startPoller in the same operation.
RestartPoller(q) ==
    /\ poller' = "timer" /\ pollTimer' = TRUE /\ stray' = Orphan
    /\ mutex' = Outdated(q)

LeavePoller(q) == UNCHANGED polling /\ mutex' = q

TimerFires ==
    /\ poller = "timer"
    /\ poller' = "queued" /\ pollTimer' = FALSE
    /\ mutex' = Append(mutex, Job("poll"))
    /\ UNCHANGED <<core, armed, astray, link, events, usbState, coreState, stray, wire>>

\* A stray timer, or the last of them, finds its generation gone.
StrayFires ==
    /\ stray
    /\ stray' \in BOOLEAN /\ pollTimer' = FALSE
    /\ UNCHANGED <<core, armed, astray, link, events, usbState, coreState, poller, mutex, wire>>

-----------------------------------------------------------------------------
(* Calls: op and batch.  A batch stops at its first failure. *)

Working(kind) == mutex # <<>> /\ Head(mutex).kind = kind
AtOp(o) == Working("call") /\ Head(Head(mutex).ops) = o
Reaches(o) == AtOp(o) /\ usbState = "connected" /\ link

\* Mutant: one turn of the loop too many.
EndsLate(ok) == ~ok \/ Len(Head(mutex).ops) = 0

Ends(ok) == ~ok \/ Len(Head(mutex).ops) = 1
Rest(ok) ==
    IF Ends(ok) THEN Tail(mutex) ELSE <<Call(Tail(Head(mutex).ops))>> \o Tail(mutex)
Answers(ok) == wire' = IF Ends(ok) THEN Append(wire, Reply(ok)) ELSE wire

\* clearAll, which flash begins with, forgets a BKPT whose place in RAM the
\* target refuses to restore.
Strayed(o) ==
    IF o \in {"clearAll", "flash"} /\ armed /\ "target" \in Faults
    THEN {astray, TRUE} ELSE {astray}

Halts(o) ==
    /\ Reaches(o) /\ o \in Halting
    /\ core' = "halt" /\ coreState' = "halted"
    /\ StopPoller(Rest(TRUE)) /\ Answers(TRUE)
    /\ astray' \in Strayed(o)
    /\ UNCHANGED <<armed, link, events, usbState>>

\* Mutant: what the service believes of the processor is left as it was.
StartsUnnoticed(o) ==
    /\ Reaches(o) /\ o \in Starting
    /\ core' = "run"
    /\ IF o = "run" THEN StartPoller(Rest(TRUE)) ELSE RestartPoller(Rest(TRUE))
    /\ Answers(TRUE)
    /\ UNCHANGED <<armed, astray, link, events, usbState, coreState>>

Starts(o) ==
    /\ Reaches(o) /\ o \in Starting
    /\ core' = "run" /\ coreState' = "running"
    /\ IF o = "run" THEN StartPoller(Rest(TRUE)) ELSE RestartPoller(Rest(TRUE))
    /\ Answers(TRUE)
    /\ UNCHANGED <<armed, astray, link, events, usbState>>

Accesses(o) ==
    /\ Reaches(o) /\ o \in Access
    /\ astray' \in Strayed(o)
    /\ armed' = CASE o \in Arming -> TRUE
                  [] o = "catchOff" -> FALSE
                  [] OTHER -> armed
    /\ LeavePoller(Rest(TRUE)) /\ Answers(TRUE)
    /\ UNCHANGED <<core, link, events, usbState, coreState>>

GetState ==
    /\ Reaches("getState")
    /\ \/ /\ core = "halt" /\ coreState # "halted"
          /\ coreState' = "halted" /\ StopPoller(Rest(TRUE))
       \/ /\ core = "run" /\ coreState # "running"
          /\ coreState' = "running" /\ StartPoller(Rest(TRUE))
       \/ /\ core = "halt" <=> coreState = "halted"
          /\ core = "run" <=> coreState = "running"
          /\ UNCHANGED coreState /\ LeavePoller(Rest(TRUE))
    /\ Answers(TRUE)
    /\ UNCHANGED <<core, armed, astray, link, events, usbState>>

\* The target refuses a transfer, or does not halt in time.  The transfers
\* before, and the one that failed, may have had their effect.
Perhaps(o) ==
    CASE o = "halt" -> {core, "halt"}
      [] o \in Halting \ {"halt"} -> {"run", "halt"}
      [] o \in Starting -> {core, "run"}
      [] OTHER -> {core}

Refused(o) ==
    /\ "target" \in Faults /\ Reaches(o)
    /\ core' \in Perhaps(o)
    /\ astray' \in Strayed(o)
    /\ armed' \in CASE o \in Arming -> {armed, TRUE}
                    [] o = "catchOff" -> {armed, FALSE}
                    [] OTHER -> {armed}
    /\ \/ /\ UNCHANGED coreState
          /\ IF o \in Halting \cup {"resetRun"} THEN StopPoller(Rest(FALSE))
             ELSE LeavePoller(Rest(FALSE))
       \/ /\ o \in Halting \cup {"getState"} /\ core' = "halt"   \* reading why, or the pc
          /\ coreState' = "halted"
          /\ StopPoller(Rest(FALSE))
    /\ Answers(FALSE)
    /\ UNCHANGED <<link, events, usbState>>

NoDevice(o) ==
    /\ AtOp(o) /\ usbState # "connected"
    /\ LeavePoller(Rest(FALSE)) /\ Answers(FALSE)
    /\ UNCHANGED <<core, armed, astray, link, events, usbState, coreState>>

\* The USB device is gone: runOp marks the failure as fatal.
Breaks(o) ==
    /\ AtOp(o) /\ usbState = "connected" /\ ~link
    /\ usbState' = "error" /\ coreState' = "unknown"
    /\ StopPoller(Rest(FALSE))
    /\ wire' = wire \o <<Event("usb-disconnect"), Reply(FALSE)>>
    /\ UNCHANGED <<core, armed, astray, link, events>>

-----------------------------------------------------------------------------
(* A poll *)

\* Mutant: the halt is noted but the event left to others.
PollsSilently ==
    /\ Working("poll") /\ coreState = "running" /\ link
    /\ IF core = "halt" THEN coreState' = "halted" /\ poller' = "off" /\ pollTimer' = FALSE
       ELSE UNCHANGED coreState /\ poller' = "timer" /\ pollTimer' = TRUE
    /\ mutex' = Tail(mutex)
    /\ UNCHANGED <<core, armed, astray, link, events, usbState, stray, wire>>

Polls ==
    /\ Working("poll") /\ coreState = "running" /\ link
    /\ \/ /\ core = "run"
          /\ poller' = "timer" /\ pollTimer' = TRUE
          /\ UNCHANGED <<coreState, wire>>
       \/ /\ core = "halt"
          /\ coreState' = "halted"
          /\ wire' = Append(wire, Event("halted"))
          /\ poller' = "off" /\ pollTimer' = FALSE
    /\ mutex' = Tail(mutex)
    /\ UNCHANGED <<core, armed, astray, link, events, usbState, stray>>

\* Refused at the first transfer, or at one that comes after coreState is set.
PollRefused ==
    /\ "target" \in Faults
    /\ Working("poll") /\ coreState = "running" /\ link
    /\ \/ poller' = "timer" /\ pollTimer' = TRUE /\ UNCHANGED coreState
       \/ /\ core = "halt" /\ coreState' = "halted"
          /\ poller' = "off" /\ pollTimer' = FALSE
    /\ mutex' = Tail(mutex)
    /\ UNCHANGED <<core, armed, astray, link, events, usbState, stray, wire>>

PollBreaks ==
    /\ Working("poll") /\ coreState = "running" /\ ~link
    /\ usbState' = "error" /\ coreState' = "unknown"
    /\ StopPoller(Tail(mutex))
    /\ wire' = Append(wire, Event("usb-disconnect"))
    /\ UNCHANGED <<core, armed, astray, link, events>>

PollSkips ==
    /\ Working("poll") /\ coreState # "running"
    /\ poller' = "off" /\ pollTimer' = FALSE
    /\ mutex' = Tail(mutex)
    /\ UNCHANGED <<core, armed, astray, link, events, usbState, coreState, stray, wire>>

\* It does nothing, but its `finally` drops whatever pollTimer holds.
StalePoll ==
    /\ Working("stale")
    /\ pollTimer' = FALSE
    /\ mutex' = Tail(mutex)
    /\ UNCHANGED <<core, armed, astray, link, events, usbState, coreState, poller, stray, wire>>

-----------------------------------------------------------------------------
(* USB: attach, detach, and the browser's events *)

Told(was, type) ==
    wire \o (IF was = "connected" THEN <<Event("usb-disconnect")>> ELSE <<>>)
         \o (IF type = "none" THEN <<>> ELSE <<Event(type)>>)

\* attachUsb closes what was open and forgets its breakpoints.  A target that
\* does not answer is caught under reset, which leaves it halted.
Attaches ==
    /\ Working("attach")
    /\ ~(usbState = "connected" /\ link)
    /\ \/ /\ core # "off" /\ link' = TRUE
          /\ usbState' = "connected"
          /\ core' \in {core, "halt"}
          /\ coreState' = IF core' = "halt" THEN "halted" ELSE "running"
          /\ IF core' = "halt" THEN StopPoller(Tail(mutex)) ELSE RestartPoller(Tail(mutex))
          /\ wire' = Told(usbState, "usb-connect")
       \/ /\ core = "off" \/ Faults # {}   \* or the device was an earlier one
          /\ link' = FALSE
          /\ usbState' = "error" /\ coreState' = "unknown"
          /\ StopPoller(Tail(mutex))
          /\ wire' = Told(usbState, "none")
          /\ UNCHANGED core
    /\ armed' = FALSE /\ astray' = (astray \/ armed)
    /\ UNCHANGED events

\* Nothing is done for the device that is open, though it may be gone.
Attached ==
    /\ Working("attach")
    /\ usbState = "connected"
    /\ LeavePoller(Tail(mutex))
    /\ UNCHANGED <<core, armed, astray, link, events, usbState, coreState, wire>>

\* detachUsb removes the breakpoints and the catch, and ignores what goes wrong.
Detaches ==
    /\ Working("detach")
    /\ armed' = FALSE
    /\ astray' \in IF usbState = "connected" /\ "target" \notin Faults THEN {astray}
                  ELSE {astray, astray \/ armed}
    /\ link' = FALSE /\ usbState' = "absent" /\ coreState' = "unknown"
    /\ StopPoller(Tail(mutex))
    /\ wire' = Told(usbState, "none")
    /\ UNCHANGED <<core, events>>

Goes ==
    /\ Working("gone")
    /\ link' = FALSE /\ usbState' = "absent" /\ coreState' = "unknown"
    /\ LeavePoller(Tail(mutex))
    /\ wire' = Append(wire, Event("usb-disconnect"))
    /\ UNCHANGED <<core, armed, astray, events>>

\* onUsbDisconnected stops the poller at once and then waits for the mutex.
DisconnectEvent ==
    /\ events # <<>> /\ Head(events) = "disconnect"
    /\ events' = Tail(events)
    /\ StopPoller(Append(mutex, Job("gone")))
    /\ UNCHANGED <<core, armed, astray, link, usbState, coreState, wire>>

Requests(kind) == mutex' = Append(mutex, Job(kind))

\* reconnect attaches unless there is a connection, as far as it knows.
ConnectEvent ==
    /\ events # <<>> /\ Head(events) = "connect"
    /\ events' = Tail(events)
    /\ IF usbState = "connected" THEN UNCHANGED mutex ELSE Requests("attach")
    /\ UNCHANGED <<core, armed, astray, link, usbState, coreState, polling, wire>>

\* Bound: the cable is not pulled, nor does the user ask, before the service
\* and the bridge are through with the last time.
Quiet ==
    /\ \A i \in DOMAIN wire : wire[i].type \notin {"usb-connect", "usb-disconnect"}
    /\ \A i \in DOMAIN mutex : mutex[i].kind \notin {"attach", "detach", "gone"}

\* The user connects or disconnects.
UserAsks ==
    /\ "user" \in Faults /\ Quiet
    /\ IF usbState = "connected" THEN Requests("detach") ELSE Requests("attach")
    /\ UNCHANGED <<core, armed, astray, link, events, usbState, coreState, polling, wire>>

Unplug ==
    /\ "unplug" \in Faults /\ Quiet
    /\ core # "off" /\ Len(events) < MaxEvents
    /\ core' = "off" /\ armed' = FALSE /\ astray' = FALSE /\ link' = FALSE
    /\ events' = Append(events, "disconnect")
    /\ UNCHANGED <<usbState, coreState, polling, mutex, wire>>

Plug ==
    /\ core = "off" /\ Len(events) < MaxEvents
    /\ core' = "run"
    /\ events' = Append(events, "connect")
    /\ UNCHANGED <<armed, astray, link, usbState, coreState, polling, mutex, wire>>

\* The program runs into a breakpoint or a fault.
Hit ==
    /\ core = "run" /\ (armed \/ astray)
    /\ core' = "halt"
    /\ UNCHANGED <<armed, astray, link, events, usbState, coreState, polling, mutex, wire>>

-----------------------------------------------------------------------------

\* The worker starts with a board plugged in, and looks for it.
ProbeInit ==
    /\ core = "run" /\ armed = FALSE /\ astray = FALSE /\ link = FALSE /\ events = <<"connect">>
    /\ usbState = "absent" /\ coreState = "unknown"
    /\ poller = "off" /\ pollTimer = FALSE /\ stray = FALSE
    /\ mutex = <<>> /\ wire = <<>>

\* The job that holds the mutex.
Work ==
    \/ \E o \in Ops : Halts(o) \/ Starts(o) \/ Accesses(o)
                     \/ Refused(o) \/ NoDevice(o) \/ Breaks(o)
    \/ GetState
    \/ Polls \/ PollRefused \/ PollBreaks \/ PollSkips \/ StalePoll
    \/ Attaches \/ Attached \/ Detaches \/ Goes

World == Unplug \/ Plug \/ Hit \/ UserAsks

-----------------------------------------------------------------------------
(* Properties *)

\* A processor believed to run is polled: whatever starts, stops and restarts
\* the poller, on whichever timer handle, its timer is set or a poll waits for
\* the mutex - unless the device is gone and the job that says so waits there.
PollerAlive ==
    coreState = "running" =>
        \/ poller = "timer"
        \/ \E i \in DOMAIN mutex : mutex[i].kind \in {"poll", "gone"}

\* What the service believes of a processor it can talk to is right, except
\* that it may not have noticed yet that a running one has halted.
BeliefRight ==
    usbState = "connected" /\ link =>
        \/ coreState = "running"
        \/ coreState = "halted" /\ core = "halt"
=============================================================================
