------------------------------- MODULE Serial -------------------------------
(***************************************************************************)
(* The board's serial console: SerialConsole (cads-probe/src/driver/       *)
(* serial.ts), the serial part of ProbeService (probe.ts) and of the       *)
(* worker's extension.ts, and the bridge's mirror of it (board.ts).        *)
(*                                                                         *)
(* serialOpen, serialWrite and serialClose run one at a time, under the    *)
(* service's mutex.  The read loop, the browser's events and what they     *)
(* close run beside it.  Replies and events reach the bridge in order.     *)
(***************************************************************************)
EXTENDS Integers, Sequences, FiniteSets

CONSTANTS
    Ports,        \* serial ports the user has granted
    Callers,      \* commands of the bridge that may be under way at once
    None,
    Consoles,     \* SerialConsoles: one that is closed and dropped may serve again
    MaxCables,    \* bound: times a cable is pulled
    MaxCommands   \* bound: commands the user gives

\* The extension's own reconnect, for the browser's events.
Web == "web"
Finders == Callers \cup {Web}

ASSUME SerialAssumption ==
    /\ None \notin Ports \cup Finders \cup Consoles /\ Web \notin Callers
    /\ {MaxCables, MaxCommands} \subseteq Nat

VARIABLES
    port,        \* the browser's ports: "closed", "opening", "open", or "lost" if pulled then
    plugged,
    cables, commands, \* how often the user has pulled the cable, and asked for something
    events,      \* the browser's serial events, not yet handled
    consoles,    \* where each SerialConsole is, on which port
    serial,      \* the service's console (this.serial), or None
    serialPort, serialState,
    job,         \* who holds the mutex
    queue,       \* who waits for it
    pc,          \* what each caller is doing
    found,       \* the first of the ports that getPorts returned to it
    losing,      \* onSerialDisconnected: the consoles it waits for
    wire,        \* replies and events on their way to the bridge
    mirror       \* BoardStatus.serialOpen

browser == <<port, plugged, events>>
user == <<cables, commands>>
service == <<serial, serialPort, serialState>>
mutex == <<job, queue>>
vars == <<browser, user, consoles, service, mutex, pc, found, losing, wire, mirror>>

Stages == {"opening", "reading", "draining", "closing", "closed"}
IsOpen(i) == i # None /\ consoles[i].stage = "reading"

Event(type) == [to |-> None, type |-> type, open |-> FALSE, known |-> FALSE]
Reply(c, ok) == [to |-> c, type |-> "reply", open |-> ok, known |-> FALSE]
Status(c) ==
    [to |-> c, type |-> "status", open |-> serialState' = "open", known |-> serialPort' # None]

-----------------------------------------------------------------------------
(* SerialConsole.  close() cancels the reader, so the read loop is in its
   `finally` at once; who called it waits for the loop's end. *)

Closes(i) == consoles' = [consoles EXCEPT ![i].stage = "draining"]

Grants(p) == plugged[p] /\ port[p] = "closed"

\* writer.close() waits for a write that is pending.
Drained(i) ==
    /\ consoles[i].stage = "draining"
    /\ ~(job.op = "write" /\ job.console = i)
    /\ consoles' = [consoles EXCEPT ![i].stage = "closing"]
    /\ UNCHANGED <<user, browser, service, mutex, pc, found, losing, wire, mirror>>

\* Mutant: the port itself is left open when the loop ends for an error.
PortClosesHeld(i) ==
    /\ consoles[i].stage = "closing"
    /\ consoles' = [consoles EXCEPT ![i].stage = "closed"]
    /\ port' = IF consoles[i].failed THEN port ELSE [port EXCEPT ![consoles[i].port] = "closed"]
    /\ serialState' = IF consoles[i].failed /\ i \notin losing THEN "error" ELSE "absent"
    /\ losing' = losing \ {i}
    /\ wire' = Append(wire, Event("close"))
    /\ UNCHANGED <<user, plugged, events, serial, serialPort, mutex, pc, found, mirror>>

\* Mutant: ... or tells of one only.
PortClosesSilently(i) ==
    /\ consoles[i].stage = "closing"
    /\ consoles' = [consoles EXCEPT ![i].stage = "closed"]
    /\ port' = [port EXCEPT ![consoles[i].port] = "closed"]
    /\ serialState' = IF consoles[i].failed /\ i \notin losing THEN "error" ELSE "absent"
    /\ losing' = losing \ {i}
    /\ wire' = IF consoles[i].failed THEN Append(wire, Event("close")) ELSE wire
    /\ UNCHANGED <<user, plugged, events, serial, serialPort, mutex, pc, found, mirror>>

\* port.close(), then onClose: it sets the service's state, whichever console
\* this is.  Who waited for it in onSerialDisconnected goes on at once.
PortCloses(i) ==
    /\ consoles[i].stage = "closing"
    /\ consoles' = [consoles EXCEPT ![i].stage = "closed"]
    /\ port' = [port EXCEPT ![consoles[i].port] = "closed"]
    /\ serialState' = IF consoles[i].failed /\ i \notin losing THEN "error" ELSE "absent"
    /\ losing' = losing \ {i}
    /\ wire' = Append(wire, Event("close"))
    /\ UNCHANGED <<user, plugged, events, serial, serialPort, mutex, pc, found, mirror>>

\* The stream fails and the port offers no other one.
ReadFails(i) ==
    /\ consoles[i].stage = "reading" /\ port[consoles[i].port] = "lost"
    /\ consoles' = [consoles EXCEPT ![i].stage = "draining", ![i].failed = TRUE]
    /\ UNCHANGED <<user, browser, service, mutex, pc, found, losing, wire, mirror>>

-----------------------------------------------------------------------------
(* Operations, under the mutex *)

NoJob == [by |-> None, op |-> "none", console |-> None]

Takes ==
    /\ job = NoJob /\ queue # <<>>
    /\ job' = [by |-> Head(queue), op |-> pc[Head(queue)], console |-> None]
    /\ queue' = Tail(queue)
    /\ UNCHANGED <<user, browser, consoles, service, pc, found, losing, wire, mirror>>

Starts(op) == job.op = op /\ job.console = None
Ends(ok) == job' = NoJob /\ wire' = Append(wire, Reply(job.by, ok)) /\ UNCHANGED queue

OpenRefused ==
    /\ Starts("open") /\ (serialPort = None \/ IsOpen(serial))
    /\ Ends(serialPort # None)
    /\ UNCHANGED <<user, browser, consoles, service, pc, found, losing, mirror>>

Dropped(i) == consoles[i].stage = "closed" /\ i \notin losing \cup {serial}
\* Any of those that serve nobody will do; with none left an open would wait.
FirstDropped == {i \in Consoles : Dropped(i) /\ i = CHOOSE j \in Consoles : Dropped(j)}

OpenStarts ==
    /\ Starts("open") /\ serialPort # None /\ ~IsOpen(serial)
    /\ \E i \in FirstDropped :
           /\ consoles' = [consoles EXCEPT ![i] =
                              [port |-> serialPort, stage |-> "opening", failed |-> FALSE]]
           /\ serial' = i /\ job' = [job EXCEPT !.console = i]
    /\ port' = [port EXCEPT ![serialPort] = IF Grants(serialPort) THEN "opening" ELSE @]
    /\ UNCHANGED <<user, plugged, events, serialPort, serialState, queue, pc, found, losing,
                   wire, mirror>>

\* port.open() rejects if the port was not closed, or the device is gone.
OpenEnds ==
    /\ job.op = "open" /\ job.console # None
    /\ LET i == job.console  p == consoles[i].port
       IN  IF port[p] = "opening"
           THEN /\ port' = [port EXCEPT ![p] = "open"]
                /\ consoles' = [consoles EXCEPT ![i].stage = "reading"]
                /\ serialState' = "open"
                /\ wire' = wire \o <<Event("open"), Reply(job.by, TRUE)>>
           ELSE /\ consoles' = [consoles EXCEPT ![i].stage = "closed"]
                /\ serialState' = "error"
                /\ wire' = Append(wire, Reply(job.by, FALSE))
                /\ UNCHANGED port
    /\ job' = NoJob
    /\ UNCHANGED <<user, plugged, events, serial, serialPort, queue, pc, found, losing, mirror>>

WriteStarts ==
    /\ Starts("write")
    /\ IF IsOpen(serial) THEN job' = [job EXCEPT !.console = serial] /\ UNCHANGED <<queue, wire>>
       ELSE Ends(FALSE)
    /\ UNCHANGED <<user, browser, consoles, service, pc, found, losing, mirror>>

\* Mutant: a write to a port that is lost is never rejected.
WriteEndsIfTaken ==
    /\ job.op = "write" /\ job.console # None
    /\ port[consoles[job.console].port] = "open" /\ Ends(TRUE)
    /\ UNCHANGED <<user, browser, consoles, service, pc, found, losing, mirror>>

WriteEnds ==
    /\ job.op = "write" /\ job.console # None
    /\ Ends(port[consoles[job.console].port] = "open")
    /\ UNCHANGED <<user, browser, consoles, service, pc, found, losing, mirror>>

CloseStarts ==
    /\ Starts("close")
    /\ IF IsOpen(serial)
       THEN Closes(serial) /\ job' = [job EXCEPT !.console = serial] /\ UNCHANGED <<queue, wire>>
       ELSE Ends(TRUE) /\ UNCHANGED consoles
    /\ UNCHANGED <<user, browser, service, pc, found, losing, mirror>>

CloseEnds ==
    /\ job.op = "close" /\ job.console # None
    /\ consoles[job.console].stage = "closed"
    /\ Ends(TRUE)
    /\ UNCHANGED <<user, browser, consoles, service, pc, found, losing, mirror>>

-----------------------------------------------------------------------------
(* Which port: reconnect and requestDevices ask the browser and take the first
   one, a while after they looked *)

Answered(f) == \E i \in DOMAIN wire : wire[i].to = f
Looking(f) == pc[f] \in {"reconnect", "request"} /\ found[f] = None /\ ~Answered(f)
Done(f) ==
    IF f = Web THEN pc' = [pc EXCEPT ![f] = "idle"] /\ UNCHANGED wire
    ELSE UNCHANGED pc /\ wire' = Append(wire, Status(f))

\* reconnect looks only if it knows no port.
Finds(f) ==
    /\ Looking(f) /\ (pc[f] = "reconnect" => serialPort = None)
    /\ \E p \in Ports : plugged[p] /\ found' = [found EXCEPT ![f] = p]
    /\ UNCHANGED <<user, browser, consoles, service, mutex, pc, losing, wire, mirror>>

FindsNothing(f) ==
    /\ Looking(f)
    /\ (pc[f] = "reconnect" /\ serialPort # None) \/ (\A p \in Ports : ~plugged[p])
    /\ UNCHANGED service /\ Done(f)
    /\ UNCHANGED <<user, browser, consoles, mutex, found, losing, mirror>>

\* The console of another port is closed, and nobody waits for it.
SetSerialPort(f) ==
    /\ found[f] # None
    /\ serialPort' = found[f] /\ UNCHANGED <<serial, serialState>>
    /\ IF IsOpen(serial) /\ consoles[serial].port # found[f] THEN Closes(serial)
       ELSE UNCHANGED consoles
    /\ found' = [found EXCEPT ![f] = None]
    /\ Done(f)
    /\ UNCHANGED <<user, browser, mutex, losing, mirror>>

-----------------------------------------------------------------------------
(* The browser *)

\* A port that is pulled is lost to whoever has it open.
Unplug(p) ==
    /\ plugged[p] /\ cables < MaxCables
    /\ plugged' = [plugged EXCEPT ![p] = FALSE] /\ cables' = cables + 1 /\ UNCHANGED commands
    /\ port' = [port EXCEPT ![p] = CASE @ = "open" -> "lost" [] @ = "opening" -> "closed"
                                      [] OTHER -> @]
    /\ events' = Append(events, [type |-> "disconnect", port |-> p])
    /\ UNCHANGED <<consoles, service, mutex, pc, found, losing, wire, mirror>>

\* Assumed: a device takes longer to appear than its going away to be handled.
Plug(p) ==
    /\ ~plugged[p] /\ ~\E i \in DOMAIN events : events[i].port = p
    /\ plugged' = [plugged EXCEPT ![p] = TRUE]
    /\ events' = Append(events, [type |-> "connect", port |-> p])
    /\ UNCHANGED <<user, port, consoles, service, mutex, pc, found, losing, wire, mirror>>

ConnectEvent ==
    /\ events # <<>> /\ Head(events).type = "connect" /\ events' = Tail(events)
    /\ pc[Web] = "idle" /\ pc' = [pc EXCEPT ![Web] = "reconnect"]
    /\ UNCHANGED <<user, port, plugged, consoles, service, mutex, found, losing, wire, mirror>>

\* onSerialDisconnected: the service forgets the port at once, and what its
\* state becomes once the console is closed.
DisconnectEvent ==
    /\ events # <<>> /\ Head(events).type = "disconnect" /\ events' = Tail(events)
    /\ IF serialPort \notin {None, Head(events).port}
       THEN UNCHANGED <<consoles, service, losing>>
       ELSE /\ serial' = None /\ serialPort' = None
            /\ IF IsOpen(serial)
               THEN Closes(serial) /\ losing' = losing \cup {serial} /\ UNCHANGED serialState
               ELSE serialState' = "absent" /\ UNCHANGED <<consoles, losing>>
    /\ UNCHANGED <<user, port, plugged, mutex, pc, found, wire, mirror>>

-----------------------------------------------------------------------------
(* The bridge *)

Requests(c, op) == pc' = [pc EXCEPT ![c] = op] /\ queue' = Append(queue, c) /\ UNCHANGED job
Asks(c, what) == pc' = [pc EXCEPT ![c] = what] /\ UNCHANGED mutex

\* cads.board.connect, the console's terminal, something to send, disconnect.
Command(c) ==
    /\ pc[c] = "idle" /\ commands < MaxCommands /\ commands' = commands + 1
    /\ \/ Asks(c, "reconnect")
       \/ ~mirror /\ Requests(c, "open")
       \/ Requests(c, "write")
       \/ Requests(c, "close")
    /\ UNCHANGED <<cables, browser, consoles, service, found, losing, wire, mirror>>

\* What connect does with a status: it asks the user for a port, opens the
\* console, or is done.
GetsStatus(c, m) ==
    /\ m.type = "status"
    /\ IF pc[c] = "reconnect" /\ ~m.known
       THEN Asks(c, "request") /\ UNCHANGED mirror
       ELSE /\ mirror' = m.open
            /\ IF pc[c] # "detach" /\ m.known /\ ~m.open THEN Requests(c, "open") ELSE Asks(c, "idle")

GetsReply(c, m) ==
    /\ m.type = "reply"
    /\ mirror' = (mirror \/ (pc[c] = "open" /\ m.open))
    /\ Asks(c, IF pc[c] = "close" THEN "detach" ELSE "idle")

Receives ==
    /\ wire # <<>> /\ wire' = Tail(wire)
    /\ LET m == Head(wire)
       IN  \/ m.to = None /\ mirror' = (m.type = "open") /\ UNCHANGED <<pc, mutex>>
           \/ m.to # None /\ (GetsStatus(m.to, m) \/ GetsReply(m.to, m))
    /\ UNCHANGED <<user, browser, consoles, service, found, losing>>

\* probe.disconnect leaves the console alone, and returns the status.
Detaches(c) ==
    /\ pc[c] = "detach" /\ ~Answered(c)
    /\ UNCHANGED service /\ wire' = Append(wire, Status(c))
    /\ UNCHANGED <<user, browser, consoles, mutex, pc, found, losing, mirror>>

-----------------------------------------------------------------------------

Init ==
    /\ port = [p \in Ports |-> "closed"] /\ plugged = [p \in Ports |-> TRUE] /\ cables = 0 /\ commands = 0
    /\ events = <<>>
    /\ consoles = [i \in Consoles |-> [port |-> None, stage |-> "closed", failed |-> FALSE]]
    /\ serial = None /\ serialPort = None /\ serialState = "absent"
    /\ job = NoJob /\ queue = <<>>
    /\ pc = [f \in Finders |-> IF f = Web THEN "reconnect" ELSE "idle"]
    /\ found = [f \in Finders |-> None]
    /\ losing = {} /\ wire = <<>> /\ mirror = FALSE

Ending(i) == Drained(i) \/ PortCloses(i) \/ ReadFails(i)
Operation ==
    \/ Takes \/ OpenRefused \/ OpenStarts \/ OpenEnds
    \/ WriteStarts \/ WriteEnds \/ CloseStarts \/ CloseEnds
Find(f) == Finds(f) \/ FindsNothing(f) \/ SetSerialPort(f)

System ==
    \/ \E i \in Consoles : Ending(i)
    \/ Operation
    \/ \E f \in Finders : Find(f)
    \/ ConnectEvent \/ DisconnectEvent \/ Receives
    \/ \E c \in Callers : Detaches(c)

User ==
    \/ \E p \in Ports : Unplug(p) \/ Plug(p)
    \/ \E c \in Callers : Command(c)

Next == System \/ User

Spec == Init /\ [][Next]_vars

\* The extension hosts run, the browser answers, and the port takes what is
\* written to it or is lost: all but what the user does.
FairSpec == Spec /\ WF_vars(System)

-----------------------------------------------------------------------------
(* Properties *)

Ops == {"open", "write", "close"}

TypeOK ==
    /\ port \in [Ports -> {"closed", "opening", "open", "lost"}] /\ plugged \in [Ports -> BOOLEAN]
    /\ cables \in 0 .. MaxCables /\ commands \in 0 .. MaxCommands
    /\ events \in Seq([type : {"connect", "disconnect"}, port : Ports])
    /\ consoles \in [Consoles -> [port : Ports \cup {None}, stage : Stages, failed : BOOLEAN]]
    /\ serial \in Consoles \cup {None} /\ serialPort \in Ports \cup {None}
    /\ serialState \in {"absent", "open", "error"}
    /\ wire \in Seq([to : Callers \cup {None}, type : {"open", "close", "reply", "status"},
                     open : BOOLEAN, known : BOOLEAN])
    /\ job \in [by : Callers \cup {None}, op : Ops \cup {"none"}, console : Consoles \cup {None}]
    /\ pc \in [Finders -> Ops \cup {"idle", "reconnect", "request", "detach"}]
    /\ found \in [Finders -> Ports \cup {None}]
    /\ queue \in Seq(Callers) /\ losing \subseteq Consoles /\ mirror \in BOOLEAN

\* Nothing is under way between the bridge, the service and the browser.
Quiet ==
    /\ job = NoJob /\ queue = <<>> /\ wire = <<>> /\ events = <<>>
    /\ \A f \in Finders : pc[f] = "idle"
    /\ \A i \in Consoles :
          consoles[i].stage \in {"closed", "reading"}
          /\ (consoles[i].stage = "reading" => port[consoles[i].port] = "open")
    /\ losing = {}

\* Once nothing is under way, whatever was opened, closed, pulled and plugged
\* in again meanwhile: the service's state is its console's ...
\* and the bridge, which follows replies, events and statuses, agrees ...
StatesSettle ==
    Quiet => /\ serialState = "open" <=> IsOpen(serial)
             /\ mirror <=> serialState = "open"

\* ... and no port is still held by a console that the service has dropped, so
\* that it can be opened again.
NoLeak ==
    Quiet => \A p \in Ports :
        port[p] = "closed" \/ (IsOpen(serial) /\ consoles[serial].port = p)

\* Once the user asks for nothing more, everything comes to rest: closing a
\* console never waits for itself under the mutex, nor an operation for a port
\* that is gone.
ComesToRest == <>[]Quiet
=============================================================================
