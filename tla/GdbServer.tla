----------------------------- MODULE GdbServer -----------------------------
(***************************************************************************)
(* The bridge's GDB server (cads-board-bridge/src/rsp/server.ts) on top of *)
(* the probe service: one GdbSession at a time, its queue of packets, the  *)
(* probe client that sends one call after the other (probeClient.ts), the  *)
(* board controller as another caller (board.ts), and GDB itself, which is *)
(* external.                                                               *)
(*                                                                         *)
(* A handler is one action per stretch between two awaited probe calls.    *)
(* Packets that only read or answer from constants do not appear; "m"      *)
(* stands for every read through the memory cache, of one page.            *)
(***************************************************************************)
EXTENDS Probe

CONSTANTS
    Cmds,       \* what GDB may send
    WebOps,     \* what the board controller may be asked to do
    MaxPackets  \* bound: packets not yet handled

\* monitor reset halt, monitor halt, vFlashDone; ^C is not a packet.  Whatever
\* their type, breakpoints are made by address: "Z0" stands for Z0 in RAM, "Z1ram"
\* for Z1 there, "z0" for z0 and z1 there; "Z1" and "z1" for those of code and
\* for watchpoints (Z2 to Z4), which take comparators.
AllCmds == {"c", "s", "m", "M", "Z0", "z0", "Z1", "z1", "Z1ram", "reset halt",
            "reset", "halt", "flash", "D", "k", "vKill", "^C", "drop"}

ASSUME GdbAssumption ==
    Cmds \subseteq AllCmds /\ MaxPackets \in Nat
    /\ WebOps \subseteq {"flash", "run", "resetRun", "halt", "getState"}

VARIABLES
    chain,    \* VsCodeProbeClient.chain: calls, the head awaited or next
    sent,     \* the head of chain is with the worker
    conn,     \* the socket: "none", "open", "ended" by us, "down"; "over" if
              \* it went down after we had ended it
    running,  \* GdbSession.running
    cache,    \* the page in memCache: "none", "fresh", or "stale"
    queue,    \* GdbSession.queue; the head is handled if at > 0
    at,       \* how many of the head's probe calls have been made
    gdb,      \* what GDB waits for: "nothing", "answer", "stop"; or "over"
    web,      \* the controller's request in progress, "none" if none
    left,     \* history: "clean" or "cut" since the socket went down, "cut"
              \* if handlers had calls still to make or the probe was gone
    freed,    \* history: and the target has been released
    held      \* history: start() has halted the target, and since then no
              \* call has failed and the probe was there

history == <<left, freed, held>>
sessVars == <<conn, running, cache, queue, at, gdb, web, history>>
vars == <<probeVars, chain, sent, sessVars>>

\* The probe calls of each handler, in order.  Clearing all breakpoints is
\* the first step of every release.
\* Mutant: the target runs before its breakpoints are gone.
ReleaseRunningFirst(resume) ==
    IF resume THEN <<"run", "clearAll", "catchOff">> ELSE <<"clearAll", "catchOff">>

Release(resume) ==
    IF resume THEN <<"clearAll", "catchOff", "run">> ELSE <<"clearAll", "catchOff">>

Steps == [c \in AllCmds |->
    CASE c = "c" -> << <<"run">> >>
      [] c = "s" -> << <<"step">> >>
      [] c = "m" -> << <<"read">> >>
      [] c = "M" -> << <<"write">> >>
      [] c \in {"Z0", "Z1ram"} -> << <<"setBreakpoint">> >>
      [] c = "Z1" -> << <<"setComparator">> >>
      [] c = "z1" -> << <<"clearComparator">> >>
      [] c = "z0" -> << <<"clearBreakpoint">> >>
      [] c = "reset halt" -> << <<"resetHalt">> >>
      [] c = "reset" -> << <<"resetRun">>, <<"halt">> >>
      [] c \in {"halt", "^C"} -> << <<"halt">> >>
      [] c = "flash" -> << <<"flash">> >>
      [] c \in {"D", "vKill"} -> << Release(TRUE) >>
      [] c = "k" -> << Release(FALSE), <<"resetRun">> >>
      [] OTHER -> << >>]

Callers == {"handler", "start", "release", "web"}
Requested == {c \in [by : Callers, ops : Seq(Ops)] : c.ops # <<>>}
Calls(by, ops) == chain' = Append(chain, [by |-> by, ops |-> ops])

TypeOK ==
    /\ ProbeTypeOK
    /\ chain \in Seq(Requested)
    /\ sent \in BOOLEAN
    /\ conn \in {"none", "open", "ended", "down", "over"}
    /\ running \in BOOLEAN
    /\ cache \in {"none", "fresh", "stale"}
    /\ queue \in Seq(AllCmds \ {"drop"})
    /\ at \in 0 .. 2
    /\ gdb \in {"nothing", "answer", "stop", "over"}
    /\ web \in {"none", "flashed"} \cup WebOps
    /\ left \in {"open", "clean", "cut"} /\ freed \in BOOLEAN /\ held \in BOOLEAN

-----------------------------------------------------------------------------
(* The worker, and the target's memory as the cache sees it *)

\* Operations that change memory while a session reads it: clearAll comes
\* before its first read and after its last.
Writes == {"write", "setBreakpoint", "clearBreakpoint", "flash", "step"}
Writing == \E o \in Writes : Reaches(o)
Aged(c) == IF c = "fresh" /\ (Writing \/ core' = "run") THEN "stale" ELSE c

ByProbe(Step) ==
    /\ Step
    /\ cache' = Aged(cache)
    /\ held' = (held /\ link')
    /\ left' = IF link' \/ left = "open" THEN left ELSE "cut"
    /\ UNCHANGED <<chain, sent, conn, running, queue, at, gdb, web, freed>>

\* The head of the chain reaches the worker's mutex.
Sends ==
    /\ chain # <<>> /\ ~sent
    /\ sent' = TRUE
    /\ LeavePoller(Append(mutex, Call(Head(chain).ops)))
    /\ UNCHANGED <<core, armed, astray, link, events, usbState, coreState, wire, chain, sessVars>>

\* A packet that need not wait is taken up in a microtask: before the event
\* loop turns to messages, sockets and requests.
Settled == queue = <<>> \/ at > 0

\* The message at the head of the wire arrives.
Receives(type) ==
    /\ Settled /\ wire # <<>> /\ Head(wire).type = type
    /\ wire' = Tail(wire)
    /\ UNCHANGED <<core, armed, astray, link, events, usbState, coreState, polling, mutex>>

\* The call's result is there; its caller goes on, the next may be sent.
Result(by, ok) ==
    /\ Receives("reply") /\ Head(wire).ok = ok
    /\ chain # <<>> /\ Head(chain).by = by
    /\ sent' = FALSE
    /\ held' = CASE by = "start" -> ok
                 [] by = "handler" -> held /\ ok
                 [] OTHER -> held

-----------------------------------------------------------------------------
(* The session *)

Closed == conn \in {"ended", "over", "none"}
Invalidated == cache' = "none"
Kept == cache' = cache

\* What reaches GDB; nothing does once the session is closed.  A stop reply
\* nobody waits for is ignored.
Replies == gdb' = IF gdb = "answer" /\ conn = "open" THEN "nothing" ELSE gdb
Stops == gdb' = IF gdb = "stop" /\ conn = "open" THEN "nothing" ELSE gdb
Fails == gdb' = IF conn = "open" THEN "nothing" ELSE gdb
Silent == gdb' = gdb

\* The handler at the head of the queue is over.
Handled == queue' = Tail(queue) /\ at' = 0

Handling(c) == queue # <<>> /\ Head(queue) = c /\ at > 0
Answered(c, ok) == Handling(c) /\ Result("handler", ok) /\ chain' = Tail(chain)
Rested == UNCHANGED <<conn, web, left, freed>>

\* The next packet is handled up to its first probe call.
Begins(c) ==
    /\ queue # <<>> /\ Head(queue) = c /\ at = 0
    /\ c = "^C" => running
    /\ c = "m" => cache = "none"
    /\ IF c \in {"c", "s"} THEN Invalidated ELSE Kept
    /\ at' = 1 /\ Calls("handler", Steps[c][1])
    /\ UNCHANGED <<probeVars, sent, conn, running, queue, gdb, web, history>>

\* Answered without a call.
ReadsCache ==
    /\ queue # <<>> /\ Head(queue) = "m" /\ at = 0 /\ cache # "none"
    /\ Handled /\ Replies
    /\ UNCHANGED <<probeVars, chain, sent, conn, running, cache, web, history>>

IgnoresInterrupt ==
    /\ queue # <<>> /\ Head(queue) = "^C" /\ at = 0 /\ ~running
    /\ Handled
    /\ UNCHANGED <<probeVars, chain, sent, conn, running, cache, gdb, web, history>>

\* resume: the reply comes with the "halted" event.
Resumed(ok) ==
    /\ Answered("c", ok) /\ Handled /\ Kept /\ Rested
    /\ IF ok THEN running' = TRUE /\ Silent ELSE UNCHANGED running /\ Fails

Stepped(ok) ==
    /\ Answered("s", ok) /\ Handled /\ Kept /\ Rested
    /\ IF ok THEN Stops ELSE Fails
    /\ UNCHANGED running

Read(ok) ==
    /\ Answered("m", ok) /\ Handled /\ Replies /\ Rested
    /\ cache' = IF ~ok THEN cache ELSE IF core = "run" THEN "stale" ELSE "fresh"
    /\ UNCHANGED running

\* Writes, and breakpoints: of these only Z0 drops the cache, though Z1 in RAM
\* writes a BKPT too, and clearing either restores what was there.
Wrote(c, ok) ==
    /\ c \in {"M", "Z0", "z0", "Z1", "z1", "Z1ram"}
    /\ Answered(c, ok) /\ Handled /\ Replies /\ Rested
    /\ IF c \in {"M", "Z0"} THEN Invalidated ELSE Kept
    /\ UNCHANGED running

\* Mutant: the halted memory is taken to be what it was.
MonitoredKeepingCache(c, ok) ==
    /\ c \in {"reset halt", "halt", "flash"}
    /\ Answered(c, ok) /\ Handled /\ Replies /\ Rested
    /\ Kept /\ running' = FALSE

\* monitor reset halt, monitor halt, vFlashDone.
Monitored(c, ok) ==
    /\ c \in {"reset halt", "halt", "flash"}
    /\ Answered(c, ok) /\ Handled /\ Replies /\ Rested
    /\ Invalidated /\ running' = FALSE

\* monitor reset: restarted, and halted again for GDB's sake.
Restarted(ok) ==
    /\ Handling("reset") /\ at = 1 /\ Result("handler", ok)
    /\ Invalidated /\ Rested
    /\ IF ok THEN /\ chain' = Append(Tail(chain), [by |-> "handler", ops |-> Steps["reset"][2]])
                  /\ at' = 2 /\ UNCHANGED <<queue, gdb, running>>
       ELSE chain' = Tail(chain) /\ Handled /\ Replies /\ UNCHANGED running

HaltedAgain(ok) ==
    /\ at = 2 /\ Answered("reset", ok) /\ Handled /\ Replies /\ Kept /\ Rested
    /\ running' = FALSE

Interrupted(ok) ==
    /\ Answered("^C", ok) /\ Handled /\ Rested
    /\ IF ok THEN running' = FALSE /\ Invalidated /\ Stops
       ELSE UNCHANGED running /\ Kept /\ Silent

\* vKill releases the target but keeps the session; GDB is through with it.
Killed(ok) ==
    /\ Answered("vKill", ok) /\ Handled /\ Kept /\ Rested
    /\ gdb' = IF conn = "open" THEN "over" ELSE gdb
    /\ UNCHANGED running

\* D, and the last step of k: the session closes and ends the socket.
Detached(c, ok) ==
    /\ c = "D" \/ (c = "k" /\ at = 2)
    /\ Answered(c, ok) /\ Handled /\ Kept
    /\ conn' = IF conn = "open" THEN "ended" ELSE conn
    /\ gdb' = IF conn = "open" THEN "nothing" ELSE gdb
    /\ UNCHANGED <<running, web, left, freed>>

KillResets(ok) ==
    /\ Handling("k") /\ at = 1 /\ Result("handler", ok)
    /\ chain' = Append(Tail(chain), [by |-> "handler", ops |-> Steps["k"][2]])
    /\ at' = 2
    /\ UNCHANGED <<queue, conn, running, cache, gdb, web, left, freed>>

\* onProbeEvent.  After close() the session no longer listens.
HaltedEvent ==
    /\ Receives("halted")
    /\ IF running /\ ~Closed THEN running' = FALSE /\ Invalidated /\ Stops
       ELSE UNCHANGED <<running, cache, gdb>>
    /\ UNCHANGED <<chain, sent, conn, queue, at, web, history>>

UsbEvent(type) ==
    /\ type \in {"usb-connect", "usb-disconnect"}
    /\ Receives(type)
    /\ IF type = "usb-disconnect" /\ running /\ ~Closed THEN running' = FALSE /\ Stops
       ELSE UNCHANGED <<running, gdb>>
    /\ UNCHANGED <<chain, sent, cache, conn, queue, at, web, history>>

-----------------------------------------------------------------------------
(* The socket *)

\* start() does not wait in the queue; GDB's packets may come at once.
\* Bound: the handlers of the session before are over.
Connect ==
    /\ conn = "none" /\ at = 0 /\ queue = <<>>
    /\ \A i \in DOMAIN chain : chain[i].by = "web"
    /\ conn' = "open" /\ running' = FALSE /\ Invalidated
    /\ gdb' = "nothing" /\ left' = "open" /\ freed' = FALSE /\ held' = FALSE
    /\ Calls("start", <<"halt", "clearAll", "catchOn">>)
    /\ UNCHANGED <<probeVars, sent, queue, at, web>>

\* done(), when the socket closes for whatever reason: the target is released
\* whatever the handlers are still up to.
ToMake == IF queue = <<>> THEN 0
          ELSE Len(queue) - 1 + Len(Steps[Head(queue)]) - at

Drops ==
    /\ Settled
    /\ conn = "ended" \/ (conn = "open" /\ "drop" \in Cmds)
    /\ conn' = (IF conn = "ended" THEN "over" ELSE "down") /\ gdb' = "nothing"
    /\ left' = IF ToMake > 0 \/ ~link THEN "cut" ELSE "clean"
    /\ Calls("release", Release(TRUE))
    /\ UNCHANGED <<probeVars, sent, running, cache, queue, at, web, freed, held>>

Released(ok) ==
    /\ Result("release", ok) /\ chain' = Tail(chain)
    /\ conn' = "none" /\ freed' = ok
    /\ UNCHANGED <<running, cache, queue, at, gdb, web, left>>

Started(ok) ==
    /\ Result("start", ok) /\ chain' = Tail(chain)
    /\ UNCHANGED <<conn, running, cache, queue, at, gdb, web, left, freed>>

-----------------------------------------------------------------------------
(* GDB, which sends one packet at a time, and ^C while it waits for a stop. *)

GdbSends(c) ==
    /\ Settled /\ Len(queue) < MaxPackets
    /\ conn = "open" /\ gdb = "nothing" /\ c \in Cmds \ {"^C", "drop"}
    /\ gdb' = IF c \in {"c", "s"} THEN "stop" ELSE "answer"
    /\ queue' = Append(queue, c)
    /\ UNCHANGED <<probeVars, chain, sent, conn, running, cache, at, web, history>>

GdbInterrupts ==
    /\ Settled /\ Len(queue) < MaxPackets
    /\ conn = "open" /\ gdb = "stop" /\ "^C" \in Cmds
    /\ \A i \in DOMAIN queue : queue[i] # "^C"
    /\ queue' = Append(queue, "^C")
    /\ UNCHANGED <<probeVars, chain, sent, conn, running, cache, at, gdb, web, history>>

-----------------------------------------------------------------------------
(* The board controller: reset, halt, run, flash with its reset, raw calls *)

WebCalls(o) ==
    /\ Settled /\ web = "none" /\ o \in WebOps
    /\ web' = o
    /\ Calls("web", <<o>>)
    /\ UNCHANGED <<probeVars, sent, conn, running, cache, queue, at, gdb, history>>

WebResult(ok) ==
    /\ Result("web", ok)
    /\ IF web = "flash" /\ ok
       THEN web' = "flashed" /\ chain' = Append(Tail(chain), [by |-> "web", ops |-> <<"resetRun">>])
       ELSE web' = "none" /\ chain' = Tail(chain)
    /\ UNCHANGED <<conn, running, cache, queue, at, gdb, left, freed>>

-----------------------------------------------------------------------------

Init ==
    /\ ProbeInit
    /\ chain = <<>> /\ sent = FALSE
    /\ conn = "none" /\ running = FALSE /\ cache = "none"
    /\ queue = <<>> /\ at = 0 /\ gdb = "nothing" /\ web = "none"
    /\ left = "open" /\ freed = FALSE /\ held = FALSE

\* The session takes up its next packet.  It is Settled otherwise.
Turns ==
    \/ \E c \in AllCmds : Begins(c)
    \/ ReadsCache \/ IgnoresInterrupt

\* What has come over the wire is acted on.
Arrives ==
    \/ \E ok \in BOOLEAN :
         \/ Resumed(ok) \/ Stepped(ok) \/ Read(ok) \/ Restarted(ok)
         \/ HaltedAgain(ok) \/ Interrupted(ok) \/ Killed(ok) \/ KillResets(ok)
         \/ \E c \in AllCmds : Wrote(c, ok) \/ Monitored(c, ok) \/ Detached(c, ok)
         \/ Released(ok) \/ Started(ok) \/ WebResult(ok)
    \/ HaltedEvent
    \/ \E type \in {"usb-connect", "usb-disconnect"} : UsbEvent(type)

Next ==
    \/ ByProbe(Work) \/ ByProbe(TimerFires) \/ ByProbe(StrayFires)
    \/ ByProbe(DisconnectEvent) \/ ByProbe(ConnectEvent) \/ ByProbe(World)
    \/ Sends \/ Turns \/ Arrives
    \/ Connect \/ Drops
    \/ \E c \in AllCmds : GdbSends(c)
    \/ GdbInterrupts
    \/ \E o \in WebOps : WebCalls(o)

Spec == Init /\ [][Next]_vars

\* Promises and timers of both event loops run on; GDB, users, the board
\* and the cable owe nothing.
Fairness ==
    /\ WF_vars(ByProbe(Work)) /\ WF_vars(ByProbe(TimerFires))
    /\ WF_vars(ByProbe(DisconnectEvent)) /\ WF_vars(ByProbe(ConnectEvent))
    /\ WF_vars(Sends) /\ WF_vars(Turns) /\ WF_vars(Arrives)

FairSpec == Spec /\ Fairness

-----------------------------------------------------------------------------
(* Properties *)

\* "m" is never answered from a page the target has changed since it was read
\* (server.ts:5, :576).  That holds of sessions without "Z1ram", "z0" and ^C:
\* the first two change RAM and leave the page, the third can answer a "c" twice.
CacheFresh ==
    held /\ conn = "open" /\ queue # <<>> /\ Head(queue) = "m" /\ at = 0 => cache # "stale"

\* resume: "reply comes with the 'halted' event".  GDB does not wait for ever
\* for the stop of a processor that has stopped, or is gone.
StopReported == <>[](gdb = "stop") => []<>(core = "run")

\* A board is left running by a debugger that goes away with none of its handlers
\* under way and the probe there, once its release has succeeded - unless it runs
\* into a breakpoint the probe could not remove and has forgotten.
LeftRunning == freed /\ left = "clean" /\ ~astray => core = "run"
=============================================================================
