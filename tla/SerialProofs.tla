---------------------------- MODULE SerialProofs ----------------------------
(* Proofs about Serial, for any commands of any number of callers, any       *)
(* number of cables pulled, and one port.                                    *)
EXTENDS Serial, TLAPS

-----------------------------------------------------------------------------
(* Types *)

Messages == [to : Callers \cup {None}, type : {"open", "close", "reply", "status"},
             open : BOOLEAN, known : BOOLEAN]

ConsoleType == [port : Ports \cup {None}, stage : Stages, failed : BOOLEAN]

LEMMA TwoMore ==
    ASSUME NEW S, NEW s \in Seq(S), NEW a \in S, NEW b \in S
    PROVE  /\ s \o <<a, b>> \in Seq(S)
           /\ s \o <<a, b>> = Append(Append(s, a), b)
  OBVIOUS

LEMMA OneMore ==
    ASSUME NEW S, NEW s \in Seq(S), NEW a \in S PROVE Append(s, a) \in Seq(S)
  OBVIOUS

LEMMA OneLess ==
    ASSUME NEW S, NEW s \in Seq(S), s # <<>> PROVE Head(s) \in S /\ Tail(s) \in Seq(S)
  OBVIOUS

PcType == [Finders -> Ops \cup {"idle", "reconnect", "request", "detach"}]
Occurrences == [type : {"connect", "disconnect"}, port : Ports]

LEMMA SequenceTypes ==
    TypeOK => wire \in Seq(Messages) /\ queue \in Seq(Callers) /\ events \in Seq(Occurrences)
  BY DEF TypeOK, Messages, Occurrences

LEMMA RequestsType ==
    ASSUME TypeOK, NEW c \in Callers, NEW op \in Ops, Requests(c, op)
    PROVE  pc' \in PcType /\ queue' \in Seq(Callers) /\ job' = job
  <1>1. pc \in PcType /\ queue \in Seq(Callers) /\ c \in Finders
    BY DEF TypeOK, PcType, Finders
  <1>2. queue' \in Seq(Callers)  BY <1>1, OneMore DEF Requests
  <1>3. pc' \in PcType  BY <1>1 DEF Requests, PcType
  <1> QED  BY <1>2, <1>3 DEF Requests

LEMMA AsksType ==
    ASSUME TypeOK, NEW c \in Callers, NEW what \in {"idle", "reconnect", "request", "detach"},
           Asks(c, what)
    PROVE  pc' \in PcType /\ queue' \in Seq(Callers) /\ job' = job
  <1>1. pc \in PcType /\ c \in Finders /\ queue \in Seq(Callers)
    BY DEF TypeOK, PcType, Finders
  <1>2. pc' \in PcType  BY <1>1 DEF Asks, PcType
  <1> QED  BY <1>1, <1>2 DEF Asks, mutex

LEMMA NewStage ==
    ASSUME TypeOK, NEW i \in Consoles, NEW s \in Stages,
           consoles' = [consoles EXCEPT ![i].stage = s]
    PROVE  /\ consoles' \in [Consoles -> ConsoleType]
           /\ consoles'[i].stage = s
           /\ \A j \in Consoles : /\ consoles'[j].port = consoles[j].port
                                  /\ j # i => consoles'[j].stage = consoles[j].stage
  BY DEF TypeOK, ConsoleType

LEMMA FirstDroppedType == \A i \in FirstDropped : i \in Consoles /\ Dropped(i)
  BY DEF FirstDropped

LEMMA EndingType == ASSUME TypeOK, NEW i \in Consoles, Ending(i) PROVE TypeOK'
  <1>1. CASE Drained(i)
    <2>1. consoles' \in [Consoles -> ConsoleType]
      BY <1>1, NewStage DEF Drained, Stages
    <2> QED  BY <1>1, <2>1 DEF Drained, TypeOK, user, browser, service, mutex, ConsoleType
  <1>2. CASE PortCloses(i)
    <2>1. consoles' \in [Consoles -> ConsoleType]  BY <1>2, NewStage DEF PortCloses, Stages
    <2>2. wire' \in Seq(Messages)  BY <1>2 DEF PortCloses, TypeOK, Messages, Event
    <2>3. port' \in [Ports -> {"closed", "opening", "open", "lost"}]  BY <1>2 DEF PortCloses, TypeOK
    <2> QED
      BY <1>2, <2>1, <2>2, <2>3 DEF PortCloses, TypeOK, user, mutex, ConsoleType, Messages
  <1>3. CASE ReadFails(i)
    <2>1. /\ consoles \in [Consoles -> ConsoleType]
          /\ consoles' = [consoles EXCEPT ![i].stage = "draining", ![i].failed = TRUE]
      BY <1>3 DEF ReadFails, TypeOK, ConsoleType
    <2>2. consoles' = [consoles EXCEPT ![i] = [consoles[i] EXCEPT !.stage = "draining", !.failed = TRUE]]
      BY <2>1
    <2>3. [consoles[i] EXCEPT !.stage = "draining", !.failed = TRUE] \in ConsoleType
      BY <2>1 DEF ConsoleType, Stages
    <2>4. consoles' \in [Consoles -> ConsoleType]
      BY <2>1, <2>2, <2>3
    <2> QED  BY <1>3, <2>4 DEF ReadFails, TypeOK, user, browser, service, mutex, ConsoleType
  <1> QED  BY <1>1, <1>2, <1>3 DEF Ending

LEMMA EndsType ==
    ASSUME TypeOK, NEW ok \in BOOLEAN, Ends(ok)
    PROVE  /\ job' \in [by : Callers \cup {None}, op : Ops \cup {"none"}, console : Consoles \cup {None}]
           /\ wire' \in Seq(Messages) /\ queue' \in Seq(Callers)
  BY DEF Ends, NoJob, Reply, TypeOK, Messages

LEMMA OperationType ==
    ASSUME TypeOK, Operation, \A n \in DOMAIN queue : pc[queue[n]] \in Ops
    PROVE  TypeOK'
  <1>1. CASE Takes
    <2>1. Head(queue) \in Callers /\ pc[Head(queue)] \in Ops /\ Tail(queue) \in Seq(Callers)
      BY <1>1 DEF Takes, TypeOK
    <2> QED
      BY <1>1, <2>1 DEF Takes, TypeOK, user, browser, service
  <1>2. CASE OpenRefused
    BY <1>2, EndsType DEF OpenRefused, TypeOK, Messages, user, browser, service
  <1>3. CASE OpenStarts
    <2>1. PICK i \in Consoles :
             /\ consoles' = [consoles EXCEPT ![i] =
                                [port |-> serialPort, stage |-> "opening", failed |-> FALSE]]
             /\ serial' = i /\ job' = [job EXCEPT !.console = i]
      BY <1>3, FirstDroppedType DEF OpenStarts
    <2>2. consoles' \in [Consoles -> ConsoleType]
      BY <2>1 DEF TypeOK, Stages, ConsoleType
    <2>3. port' \in [Ports -> {"closed", "opening", "open", "lost"}]
      BY <1>3 DEF OpenStarts, TypeOK
    <2>4. job' \in [by : Callers \cup {None}, op : Ops \cup {"none"}, console : Consoles \cup {None}]
      BY <2>1 DEF TypeOK
    <2> QED  BY <1>3, <2>1, <2>2, <2>3, <2>4 DEF OpenStarts, TypeOK, ConsoleType, user
  <1>4. CASE OpenEnds
    <2>1. job.console \in Consoles  BY <1>4 DEF OpenEnds, TypeOK
    <2>2. consoles' \in [Consoles -> ConsoleType]
      BY <1>4, <2>1, NewStage DEF OpenEnds, Stages
    <2>3. /\ Event("open") \in Messages
          /\ Reply(job.by, TRUE) \in Messages /\ Reply(job.by, FALSE) \in Messages
      BY DEF TypeOK, Messages, Event, Reply
    <2>4. wire' \in Seq(Messages)
      <3>1. wire \in Seq(Messages)  BY DEF TypeOK, Messages
      <3>2. wire \o <<Event("open"), Reply(job.by, TRUE)>> \in Seq(Messages)
        BY <2>3, <3>1, TwoMore
      <3>3. Append(wire, Reply(job.by, FALSE)) \in Seq(Messages)
        BY <2>3, <3>1, OneMore
      <3> QED  BY <1>4, <3>2, <3>3 DEF OpenEnds
    <2>5. port' \in [Ports -> {"closed", "opening", "open", "lost"}]
      <3>1. port' = port \/ port' = [port EXCEPT ![consoles[job.console].port] = "open"]
        BY <1>4 DEF OpenEnds
      <3> QED  BY <3>1 DEF TypeOK
    <2> QED
      BY <1>4, <2>2, <2>4, <2>5 DEF OpenEnds, NoJob, TypeOK, ConsoleType, Messages, user
  <1>5. CASE WriteStarts
    <2>1. CASE IsOpen(serial)
      BY <1>5, <2>1 DEF WriteStarts, TypeOK, user, browser, service, IsOpen
    <2>2. CASE ~IsOpen(serial)
      BY <1>5, <2>2, EndsType DEF WriteStarts, TypeOK, Messages, user, browser, service
    <2> QED  BY <2>1, <2>2
  <1>6. CASE WriteEnds
    BY <1>6, EndsType DEF WriteEnds, TypeOK, Messages, user, browser, service
  <1>7. CASE CloseStarts
    <2>1. CASE IsOpen(serial)
      <3>1. serial \in Consoles /\ consoles' \in [Consoles -> ConsoleType]
        BY <1>7, <2>1, NewStage DEF CloseStarts, Closes, TypeOK, Stages, IsOpen
      <3>2. job' \in [by : Callers \cup {None}, op : Ops \cup {"none"}, console : Consoles \cup {None}]
        BY <1>7, <2>1, <3>1 DEF CloseStarts, TypeOK
      <3> QED
        BY <1>7, <2>1, <3>1, <3>2 DEF CloseStarts, TypeOK, ConsoleType, user, browser, service
    <2>2. CASE ~IsOpen(serial)
      BY <1>7, <2>2, EndsType DEF CloseStarts, TypeOK, Messages, user, browser, service
    <2> QED  BY <2>1, <2>2
  <1>8. CASE CloseEnds
    BY <1>8, EndsType DEF CloseEnds, TypeOK, Messages, user, browser, service
  <1> QED
    BY <1>1, <1>2, <1>3, <1>4, <1>5, <1>6, <1>7, <1>8 DEF Operation

LEMMA FindType == ASSUME TypeOK, NEW f \in Finders, Find(f) PROVE TypeOK'
  <1>1. ASSUME Done(f)
        PROVE  /\ wire' \in Seq(Messages)
               /\ pc' \in [Finders -> Ops \cup {"idle", "reconnect", "request", "detach"}]
    <2>1. CASE f = Web  BY <1>1, <2>1 DEF Done, TypeOK, Messages
    <2>2. CASE f # Web
      <3>1. Status(f) \in Messages  BY <2>2, SerialAssumption DEF Status, Messages, Finders
      <3>2. wire \in Seq(Messages)  BY DEF TypeOK, Messages
      <3>3. wire' = Append(wire, Status(f)) /\ pc' = pc  BY <1>1, <2>2 DEF Done
      <3> QED  BY <3>1, <3>2, <3>3 DEF TypeOK
    <2> QED  BY <2>1, <2>2
  <1>2. CASE Finds(f)
    BY <1>2 DEF Finds, TypeOK, user, browser, service, mutex
  <1>3. CASE FindsNothing(f)
    BY <1>1, <1>3 DEF FindsNothing, TypeOK, Messages, user, browser, service, mutex
  <1>4. CASE SetSerialPort(f)
    <2>1. serialPort' \in Ports \cup {None} /\ found' \in [Finders -> Ports \cup {None}]
          /\ UNCHANGED <<serial, serialState, losing, mirror>>
      BY <1>4 DEF SetSerialPort, TypeOK
    <2>2. consoles' \in [Consoles -> [port : Ports \cup {None}, stage : Stages, failed : BOOLEAN]]
      <3>1. CASE UNCHANGED consoles  BY <3>1 DEF TypeOK
      <3>2. CASE IsOpen(serial) /\ Closes(serial)
        BY <3>2, NewStage DEF TypeOK, Closes, IsOpen, Stages, ConsoleType
      <3> QED  BY <1>4, <3>1, <3>2 DEF SetSerialPort
    <2> QED
      BY <1>1, <1>4, <2>1, <2>2 DEF SetSerialPort, TypeOK, Messages, user, browser, mutex
  <1> QED  BY <1>2, <1>3, <1>4 DEF Find

LEMMA EventType ==
    ASSUME TypeOK PROVE (ConnectEvent => TypeOK') /\ (DisconnectEvent => TypeOK')
  <1>1. events # <<>> => Head(events) \in Occurrences /\ Tail(events) \in Seq(Occurrences)
    BY SequenceTypes, OneLess
  <1>2. ASSUME ConnectEvent PROVE TypeOK'
    BY <1>1, <1>2 DEF ConnectEvent, TypeOK, Occurrences, Finders, user, service, mutex
  <1>3. ASSUME DisconnectEvent PROVE TypeOK'
    <2>1. consoles' \in [Consoles -> ConsoleType] /\ losing' \subseteq Consoles
      <3>1. CASE UNCHANGED consoles  BY <1>3, <3>1 DEF DisconnectEvent, TypeOK, ConsoleType, IsOpen
      <3>2. CASE IsOpen(serial) /\ Closes(serial)
        <4>1. serial \in Consoles  BY <3>2 DEF TypeOK, IsOpen
        <4>2. losing' \subseteq Consoles
          BY <1>3, <4>1 DEF DisconnectEvent, TypeOK
        <4> QED  BY <3>2, <4>1, <4>2, NewStage DEF Closes, Stages
      <3> QED  BY <1>3, <3>1, <3>2 DEF DisconnectEvent
    <2>2. /\ serial' \in Consoles \cup {None} /\ serialPort' \in Ports \cup {None}
          /\ serialState' \in {"absent", "open", "error"}
      BY <1>3 DEF DisconnectEvent, TypeOK, service
    <2> QED  BY <1>1, <1>3, <2>1, <2>2 DEF DisconnectEvent, TypeOK, Occurrences, ConsoleType, user, mutex
  <1> QED  BY <1>2, <1>3

LEMMA UserType == ASSUME TypeOK, User PROVE TypeOK'
  <1>1. ASSUME NEW p \in Ports, Unplug(p) PROVE TypeOK'
    <2>1. cables' \in 0 .. MaxCables  BY <1>1, SerialAssumption DEF Unplug, TypeOK
    <2>2. port' \in [Ports -> {"closed", "opening", "open", "lost"}]  BY <1>1 DEF Unplug, TypeOK
    <2> QED  BY <1>1, <2>1, <2>2 DEF Unplug, TypeOK, service, mutex
  <1>2. ASSUME NEW p \in Ports, Plug(p) PROVE TypeOK'
    BY <1>2 DEF Plug, TypeOK, user, service, mutex
  <1>3. ASSUME NEW c \in Callers, Command(c) PROVE TypeOK'
    <2>1. commands' \in 0 .. MaxCommands  BY <1>3, SerialAssumption DEF Command, TypeOK
    <2>2. pc' \in PcType /\ queue' \in Seq(Callers) /\ job' = job
      BY <1>3, AsksType, RequestsType DEF Command, Ops
    <2> QED  BY <1>3, <2>1, <2>2 DEF Command, TypeOK, PcType, browser, service
  <1> QED  BY <1>1, <1>2, <1>3 DEF User

LEMMA ReceivesType == ASSUME TypeOK, Receives PROVE TypeOK'
  <1> DEFINE m == Head(wire)
  <1>1. m \in Messages /\ wire' \in Seq(Messages)
    BY SequenceTypes, OneLess DEF Receives
  <1>2. m.to \in Callers \cup {None} /\ m.open \in BOOLEAN  BY <1>1 DEF Messages
  <1>3. pc' \in PcType /\ queue' \in Seq(Callers) /\ job' = job /\ mirror' \in BOOLEAN
    <2>1. CASE m.to = None
      BY <2>1, SerialAssumption DEF Receives, TypeOK, PcType, mutex
    <2>2. CASE m.to # None
      <3>1. m.to \in Callers  BY <1>2, <2>2
      <3>2. pc' \in PcType /\ queue' \in Seq(Callers) /\ job' = job
        BY <2>2, <3>1, AsksType, RequestsType DEF Receives, GetsStatus, GetsReply, Ops
      <3>3. mirror' \in BOOLEAN
        BY <1>2, <2>2 DEF Receives, GetsStatus, GetsReply, TypeOK
      <3> QED  BY <3>2, <3>3
    <2> QED  BY <2>1, <2>2
  <1> QED  BY <1>1, <1>3 DEF Receives, TypeOK, Messages, PcType, user, browser, service

LEMMA DetachesType == ASSUME TypeOK, NEW c \in Callers, Detaches(c) PROVE TypeOK'
  <1>1. Status(c) \in Messages /\ wire \in Seq(Messages)  BY DEF Status, Messages, TypeOK
  <1>2. /\ wire' = Append(wire, Status(c))
        /\ UNCHANGED <<user, browser, consoles, service, mutex, pc, found, losing, mirror>>
    BY DEF Detaches
  <1>3. wire' \in Seq(Messages)
    <2> HIDE DEF Messages
    <2> QED  BY <1>1, <1>2
  <1> QED  BY <1>2, <1>3 DEF TypeOK, Messages, user, browser, service, mutex

-----------------------------------------------------------------------------
(* A caller is at one place at a time: it waits for the mutex, has it, looks  *)
(* for a port, or has its answer on the wire.                                *)

\* A message is an event, or answers what its receiver has asked.
Fitting(m) ==
    \/ m.to = None /\ m.type \in {"open", "close"} /\ ~m.open
    \/ m.to \in Callers /\ m.type = "reply" /\ pc[m.to] \in Ops
    \/ m.to \in Callers /\ m.type = "status" /\ pc[m.to] \in {"reconnect", "request", "detach"}

WireFits == \A n \in DOMAIN wire : Fitting(wire[n])
AnsweredOnce ==
    \A n, k \in DOMAIN wire : wire[n].to = wire[k].to /\ wire[n].to # None => n = k
WaitsOnce ==
    /\ \A n \in DOMAIN queue :
          pc[queue[n]] \in Ops /\ ~Answered(queue[n]) /\ queue[n] # job.by
    /\ \A n, k \in DOMAIN queue : queue[n] = queue[k] => n = k
Works ==
    \/ job.op = "none" /\ job.by = None
    \/ job.by \in Callers /\ pc[job.by] = job.op /\ job.op \in Ops /\ ~Answered(job.by)
Looks == \A f \in Finders : found[f] # None => pc[f] \in {"reconnect", "request"} /\ ~Answered(f)

Once == WireFits /\ AnsweredOnce /\ WaitsOnce /\ Works /\ Looks

LEMMA Longer ==
    ASSUME NEW S, NEW s \in Seq(S), NEW a \in S
    PROVE  /\ DOMAIN Append(s, a) = DOMAIN s \cup {Len(s) + 1} /\ Len(s) + 1 \notin DOMAIN s
           /\ Append(s, a)[Len(s) + 1] = a
           /\ \A n \in DOMAIN s : Append(s, a)[n] = s[n]
  OBVIOUS

LEMMA TwoLonger ==
    ASSUME NEW S, NEW s \in Seq(S), NEW a \in S, NEW b \in S, NEW t, t = s \o <<a, b>>
    PROVE  /\ Len(s) + 1 \in Nat
           /\ DOMAIN t = DOMAIN s \cup {Len(s) + 1, Len(s) + 1 + 1}
           /\ Len(s) + 1 \notin DOMAIN s /\ Len(s) + 1 + 1 \notin DOMAIN s
           /\ t[Len(s) + 1] = a /\ t[Len(s) + 1 + 1] = b
           /\ \A n \in DOMAIN s : t[n] = s[n]
  OBVIOUS

LEMMA TwoMoreOnWire ==
    ASSUME wire \in Seq(Messages), NEW a \in Messages, NEW b \in Messages,
           wire' = wire \o <<a, b>>
    PROVE  \E l \in Nat :
           /\ DOMAIN wire' = DOMAIN wire \cup {l, l + 1}
           /\ l \notin DOMAIN wire /\ l + 1 \notin DOMAIN wire
           /\ wire'[l] = a /\ wire'[l + 1] = b
           /\ \A n \in DOMAIN wire : wire'[n] = wire[n]
  <1>1. /\ Len(wire) + 1 \in Nat
        /\ DOMAIN wire' = DOMAIN wire \cup {Len(wire) + 1, Len(wire) + 1 + 1}
        /\ Len(wire) + 1 \notin DOMAIN wire /\ Len(wire) + 1 + 1 \notin DOMAIN wire
        /\ wire'[Len(wire) + 1] = a /\ wire'[Len(wire) + 1 + 1] = b
        /\ \A n \in DOMAIN wire : wire'[n] = wire[n]
    BY TwoLonger
  <1> QED  BY <1>1

\* One more message leaves everything right if its receiver is nowhere else.
LEMMA TellsOnce ==
    ASSUME TypeOK, Once, NEW m \in Messages, Fitting(m),
           wire' = Append(wire, m), UNCHANGED <<pc, queue>>,
           \/ job'.by = job.by /\ job'.op = job.op
           \/ job'.by = None /\ job'.op = "none",
           \A f \in Finders : found'[f] \in {found[f], None},
           m.to # None => /\ ~Answered(m.to) /\ found'[m.to] = None
                          /\ job'.by # m.to
                          /\ \A n \in DOMAIN queue : queue[n] # m.to
    PROVE  Once'
  <1> DEFINE l == Len(wire) + 1
  <1>1. /\ DOMAIN wire' = DOMAIN wire \cup {l} /\ l \notin DOMAIN wire /\ wire'[l] = m
        /\ \A n \in DOMAIN wire : wire'[n] = wire[n]
    BY SequenceTypes, Longer
  <1> HIDE DEF l
  <1>2. WireFits'  BY <1>1 DEF Once, WireFits, Fitting
  <1>3. \A f : ~Answered(f) /\ f # m.to => ~Answered(f)'  BY <1>1 DEF Answered
  <1>4. AnsweredOnce'  BY <1>1 DEF Once, AnsweredOnce, Answered
  <1>5. \A n \in DOMAIN queue : queue[n] \in Callers /\ queue[n] # None
    BY SequenceTypes, SerialAssumption DEF Finders
  <1>6. WaitsOnce'  BY <1>3, <1>5 DEF Once, WaitsOnce
  <1>7. Works'
    BY <1>3, SerialAssumption DEF Once, Works, Finders
  <1>8. Looks'  BY <1>3, SerialAssumption DEF Once, Looks
  <1> QED  BY <1>2, <1>4, <1>6, <1>7, <1>8 DEF Once

LEMMA StaysOnce ==
    ASSUME Once, UNCHANGED <<wire, queue, pc, found>>, job'.by = job.by, job'.op = job.op
    PROVE  Once'
  BY DEF Once, WireFits, Fitting, AnsweredOnce, WaitsOnce, Works, Looks, Answered

LEMMA EndsOnce ==
    ASSUME TypeOK, Once, NEW ok \in BOOLEAN, Ends(ok), job.op # "none", UNCHANGED <<pc, found>>
    PROVE  Once'
  <1>1. job.by \in Callers /\ pc[job.by] = job.op /\ ~Answered(job.by) /\ job.op \in Ops
    BY DEF Once, Works, TypeOK
  <1>2. Reply(job.by, ok) \in Messages /\ Fitting(Reply(job.by, ok))
    BY <1>1 DEF Reply, Messages, Fitting
  <1>3. found[job.by] = None
    BY <1>1 DEF Once, Looks, Finders, Ops
  <1>4. job' = NoJob /\ wire' = Append(wire, Reply(job.by, ok)) /\ queue' = queue
    BY DEF Ends
  <1>5. /\ job'.by = None /\ job'.op = "none" /\ Reply(job.by, ok).to = job.by
    BY <1>4 DEF NoJob, Reply
  <1>6. \A n \in DOMAIN queue : queue[n] # job.by  BY DEF Once, WaitsOnce
  <1> QED  BY <1>1, <1>2, <1>3, <1>4, <1>5, <1>6, TellsOnce

LEMMA TakesOnce == ASSUME TypeOK, Once, Takes PROVE Once'
  <1>1. /\ queue \in Seq(Callers) /\ queue # <<>> /\ queue' = Tail(queue)
        /\ job' = [by |-> Head(queue), op |-> pc[Head(queue)], console |-> None]
        /\ UNCHANGED <<pc, found, wire>>
    BY SequenceTypes DEF Takes
  <1>2. /\ 1 \in DOMAIN queue /\ Head(queue) = queue[1]
        /\ \A n \in DOMAIN Tail(queue) :
              n + 1 \in DOMAIN queue /\ n + 1 # 1 /\ Tail(queue)[n] = queue[n + 1]
        /\ \A n, k \in DOMAIN Tail(queue) : n + 1 = k + 1 => n = k
    BY <1>1
  <1>3. WaitsOnce'  BY <1>1, <1>2 DEF Once, WaitsOnce, Answered
  <1>4. queue[1] \in Callers  BY <1>1, <1>2
  <1>5. Works'  BY <1>1, <1>2, <1>4 DEF Once, WaitsOnce, Works, Answered
  <1> QED  BY <1>1, <1>3, <1>5 DEF Once, WireFits, Fitting, AnsweredOnce, Looks, Answered

\* Who looks for a port has asked for nothing else.
LEMMA StatusOnce ==
    ASSUME TypeOK, Once, NEW c \in Callers, ~Answered(c),
           pc[c] \in {"reconnect", "request", "detach"}, wire' = Append(wire, Status(c)),
           UNCHANGED <<pc, queue, job>>,
           found'[c] = None, \A f \in Finders : found'[f] \in {found[f], None}
    PROVE  Once'
  <1>1. Status(c) \in Messages /\ Fitting(Status(c)) /\ Status(c).to = c
    BY DEF Status, Messages, Fitting
  <1>2. \A n \in DOMAIN queue : queue[n] # c  BY DEF Once, WaitsOnce, Ops
  <1>3. job.by # c  BY SerialAssumption DEF Once, Works, Ops, Finders
  <1> QED  BY <1>1, <1>2, <1>3, TellsOnce

LEMMA FindOnce == ASSUME TypeOK, Once, NEW f \in Finders, Find(f) PROVE Once'
  <1>1. CASE Finds(f)
    <2>1. UNCHANGED <<wire, queue, pc, job>>  BY <1>1 DEF Finds, mutex
    <2>2. Looks'
      BY <1>1 DEF Finds, Looking, Once, Looks, Answered, TypeOK
    <2> QED
      BY <2>1, <2>2 DEF Once, WireFits, Fitting, AnsweredOnce, WaitsOnce, Works, Answered
  <1>2. ASSUME Done(f), UNCHANGED <<queue, job>>, found'[f] = None,
               \A g \in Finders : found'[g] \in {found[g], None},
               pc[f] \in {"reconnect", "request"}, ~Answered(f)
        PROVE  Once'
    <2>1. CASE f = Web
      <3>1. /\ wire' = wire /\ queue' = queue /\ job' = job
            /\ \A c \in Callers : pc'[c] = pc[c]
            /\ \A g \in Finders : g # Web => pc'[g] = pc[g]
        BY <1>2, <2>1, SerialAssumption DEF Done, TypeOK, Finders
      <3>2. Looks'  BY <1>2, <2>1, <3>1 DEF Once, Looks, Answered
      <3>3. \A n \in DOMAIN queue : queue[n] \in Callers  BY SequenceTypes
      <3>4. WaitsOnce'  BY <3>1, <3>3 DEF Once, WaitsOnce, Answered
      <3> QED  BY <3>1, <3>2, <3>4 DEF Once, WireFits, Fitting, AnsweredOnce, Works, Answered
    <2>2. CASE f # Web
      <3>1. f \in Callers  BY <2>2 DEF Finders
      <3>2. pc' = pc /\ wire' = Append(wire, Status(f))  BY <1>2, <2>2 DEF Done
      <3> QED  BY <1>2, <3>1, <3>2, StatusOnce
    <2> QED  BY <2>1, <2>2
  <1>3. CASE FindsNothing(f)
    BY <1>2, <1>3 DEF FindsNothing, Looking, mutex
  <1>4. CASE SetSerialPort(f)
    <2>1. found' = [found EXCEPT ![f] = None] /\ found \in [Finders -> Ports \cup {None}]
      BY <1>4 DEF SetSerialPort, TypeOK
    <2>2. pc[f] \in {"reconnect", "request"} /\ ~Answered(f)
      BY <1>4 DEF SetSerialPort, Once, Looks
    <2> QED  BY <1>2, <1>4, <2>1, <2>2 DEF SetSerialPort, mutex
  <1> QED  BY <1>1, <1>3, <1>4 DEF Find

\* The wire has lost its first d messages.
Shortened(d) ==
    /\ DOMAIN wire' \subseteq Nat
    /\ \A n \in DOMAIN wire' : n + d \in DOMAIN wire /\ wire'[n] = wire[n + d]

LEMMA ShortenedAnswers ==
    ASSUME NEW d \in Nat, Shortened(d), AnsweredOnce
    PROVE  AnsweredOnce' /\ \A f : ~Answered(f) => ~Answered(f)'
  <1>1. AnsweredOnce'
    <2> SUFFICES ASSUME NEW n \in DOMAIN wire', NEW k \in DOMAIN wire',
                        wire'[n].to = wire'[k].to, wire'[n].to # None
                 PROVE  n = k
      BY DEF AnsweredOnce
    <2>1. n + d = k + d  BY DEF Shortened, AnsweredOnce
    <2> QED  BY <2>1 DEF Shortened
  <1> QED  BY <1>1 DEF Shortened, Answered

\* A caller that is nowhere may ask for something.
LEMMA AsksOnce ==
    ASSUME TypeOK, Once, NEW c \in Callers, NEW what \in {"idle", "reconnect", "request", "detach"},
           Asks(c, what), UNCHANGED found,
           NEW d \in Nat, Shortened(d), \A n \in DOMAIN wire' : wire'[n].to # c,
           found[c] = None, job.by # c, \A n \in DOMAIN queue : queue[n] # c
    PROVE  Once'
  <1>1. /\ UNCHANGED <<queue, job>> /\ pc'[c] = what
        /\ \A f \in Finders : f # c => pc'[f] = pc[f]
    BY DEF Asks, TypeOK, mutex, Finders
  <1>2. \A n \in DOMAIN queue : queue[n] \in Callers /\ queue[n] \in Finders
    BY SequenceTypes DEF Finders
  <1>3. AnsweredOnce' /\ \A f : ~Answered(f) => ~Answered(f)'
    BY ShortenedAnswers DEF Once
  <1>4. WireFits'
    <2> SUFFICES ASSUME NEW n \in DOMAIN wire' PROVE Fitting(wire[n])'
      BY DEF WireFits
    <2>1. Fitting(wire[n + d]) /\ wire'[n] = wire[n + d]  BY DEF Once, WireFits, Shortened
    <2>2. wire'[n].to # c  OBVIOUS
    <2> QED  BY <1>1, <2>1, <2>2 DEF Fitting, Finders
  <1>5. WaitsOnce'  BY <1>1, <1>2, <1>3 DEF Once, WaitsOnce
  <1>6. Works'  BY <1>1, <1>3 DEF Once, Works, Finders
  <1>7. Looks'  BY <1>1, <1>3 DEF Once, Looks
  <1> QED  BY <1>3, <1>4, <1>5, <1>6, <1>7 DEF Once

LEMMA RequestsOnce ==
    ASSUME TypeOK, Once, NEW c \in Callers, NEW op \in Ops,
           Requests(c, op), UNCHANGED found,
           NEW d \in Nat, Shortened(d), \A n \in DOMAIN wire' : wire'[n].to # c,
           found[c] = None, job.by # c, \A n \in DOMAIN queue : queue[n] # c
    PROVE  Once'
  <1> DEFINE l == Len(queue) + 1
  <1>1. /\ job' = job /\ pc'[c] = op
        /\ \A f \in Finders : f # c => pc'[f] = pc[f]
    BY DEF Requests, TypeOK, Finders
  <1>2. \A n \in DOMAIN queue : queue[n] \in Callers /\ queue[n] \in Finders
    BY SequenceTypes DEF Finders
  <1>3. AnsweredOnce' /\ \A f : ~Answered(f) => ~Answered(f)'
    BY ShortenedAnswers DEF Once
  <1>4. WireFits'
    <2> SUFFICES ASSUME NEW n \in DOMAIN wire' PROVE Fitting(wire[n])'
      BY DEF WireFits
    <2>1. Fitting(wire[n + d]) /\ wire'[n] = wire[n + d]  BY DEF Once, WireFits, Shortened
    <2>2. wire'[n].to # c  OBVIOUS
    <2> QED  BY <1>1, <2>1, <2>2 DEF Fitting, Finders
  <1>5. /\ DOMAIN queue' = DOMAIN queue \cup {l} /\ l \notin DOMAIN queue /\ queue'[l] = c
        /\ \A n \in DOMAIN queue : queue'[n] = queue[n]
    BY SequenceTypes, Longer DEF Requests
  <1> HIDE DEF l
  <1>9. ~Answered(c)'  BY DEF Answered
  <1>6. WaitsOnce'  BY <1>1, <1>2, <1>3, <1>5, <1>9 DEF Once, WaitsOnce
  <1>7. Works'  BY <1>1, <1>3 DEF Once, Works, Finders
  <1>8. Looks'  BY <1>1, <1>3 DEF Once, Looks
  <1> QED  BY <1>3, <1>4, <1>6, <1>7, <1>8 DEF Once

\* Nobody with an answer on the wire is anywhere else ...
LEMMA AnsweredIsAlone ==
    ASSUME TypeOK, Once, NEW c \in Callers, Answered(c)
    PROVE  found[c] = None /\ job.by # c /\ \A n \in DOMAIN queue : queue[n] # c
  BY SerialAssumption DEF Once, Looks, Works, WaitsOnce, Finders

\* ... nor is who is idle, or about to detach.
LEMMA IdleIsAlone ==
    ASSUME TypeOK, Once, NEW c \in Callers, pc[c] \in {"idle", "detach"}
    PROVE  /\ found[c] = None /\ job.by # c /\ \A n \in DOMAIN queue : queue[n] # c
           /\ pc[c] = "idle" => ~Answered(c)
  <1>1. pc[c] = "idle" => ~Answered(c)
    BY SerialAssumption DEF Once, WireFits, Fitting, Answered, Ops, Finders
  <1> QED  BY <1>1, SerialAssumption DEF Once, Looks, Works, WaitsOnce, Finders, Ops

LEMMA CommandOnce == ASSUME TypeOK, Once, NEW c \in Callers, Command(c) PROVE Once'
  <1>1. /\ found[c] = None /\ job.by # c /\ \A n \in DOMAIN queue : queue[n] # c
        /\ ~Answered(c)
    BY IdleIsAlone DEF Command
  <1>2. UNCHANGED <<wire, found>>  BY DEF Command
  <1>3. Shortened(0) /\ \A n \in DOMAIN wire' : wire'[n].to # c
    BY <1>1, <1>2, SequenceTypes DEF Shortened, Answered
  <1> QED  BY <1>1, <1>2, <1>3, AsksOnce, RequestsOnce DEF Command, Ops

LEMMA ReceivesOnce == ASSUME TypeOK, Once, Receives PROVE Once'
  <1> DEFINE m == Head(wire)
  <1>1. /\ wire \in Seq(Messages) /\ wire # <<>> /\ wire' = Tail(wire) /\ found' = found
    BY SequenceTypes DEF Receives
  <1>2. 1 \in DOMAIN wire /\ m = wire[1] /\ Shortened(1)
    BY <1>1 DEF Shortened
  <1>3. m.to \in Callers \cup {None}
    <2>1. m \in Messages  BY <1>1, OneLess
    <2> QED  BY <2>1 DEF Messages
  <1>4. CASE m.to = None
    <2>1. UNCHANGED <<pc, queue, job, found>>
      BY <1>1, <1>3, <1>4, SerialAssumption DEF Receives, mutex
    <2>2. AnsweredOnce' /\ \A f : ~Answered(f) => ~Answered(f)'
      BY <1>2, ShortenedAnswers DEF Once
    <2>3. WireFits'  BY <1>2, <2>1 DEF Once, WireFits, Fitting, Shortened
    <2> QED  BY <2>1, <2>2, <2>3 DEF Once, WaitsOnce, Works, Looks
  <1>5. CASE m.to # None
    <2>1. m.to \in Callers /\ Answered(m.to)  BY <1>2, <1>3, <1>5 DEF Answered
    <2>2. \A n \in DOMAIN wire' : wire'[n].to # m.to
      <3> SUFFICES ASSUME NEW n \in DOMAIN wire', wire'[n].to = m.to PROVE FALSE
        OBVIOUS
      <3>1. n + 1 = 1 /\ n \in Nat /\ n # 0
        BY <1>1, <1>2, <1>5 DEF Once, AnsweredOnce, Shortened
      <3> QED  BY <3>1
    <2>3. GetsStatus(m.to, m) \/ GetsReply(m.to, m)  BY <1>5 DEF Receives
    <2>4. \/ \E op \in Ops : Requests(m.to, op)
          \/ \E what \in {"idle", "reconnect", "request", "detach"} : Asks(m.to, what)
      BY <2>3 DEF GetsStatus, GetsReply, Ops
    <2> QED
      BY <1>1, <1>2, <2>1, <2>2, <2>4, AnsweredIsAlone, AsksOnce, RequestsOnce
  <1> QED  BY <1>4, <1>5

LEMMA OpenEndsOnce == ASSUME TypeOK, Once, OpenEnds PROVE Once'
  <1>1. job.op = "open" /\ job' = NoJob /\ UNCHANGED <<pc, found, queue>>  BY DEF OpenEnds
  <1>2. CASE wire' = Append(wire, Reply(job.by, FALSE))
    BY <1>1, <1>2, EndsOnce DEF Ends
  <1>3. CASE wire' = wire \o <<Event("open"), Reply(job.by, TRUE)>>
    <2>0. PICK c \in Callers : c = job.by /\ pc[c] = "open" /\ ~Answered(c)
      BY <1>1, SerialAssumption DEF Once, Works
    <2>1. c \in Callers /\ pc[c] = "open" /\ ~Answered(c)  BY <2>0
    <2>12. wire \in Seq(Messages) /\ Event("open") \in Messages /\ Reply(c, TRUE) \in Messages
      BY <2>1, SequenceTypes DEF Event, Reply, Messages
    <2>2. PICK l \in Nat :
             /\ DOMAIN wire' = DOMAIN wire \cup {l, l + 1}
             /\ l \notin DOMAIN wire /\ l + 1 \notin DOMAIN wire
             /\ wire'[l] = Event("open") /\ wire'[l + 1] = Reply(c, TRUE)
             /\ \A n \in DOMAIN wire : wire'[n] = wire[n]
      <3> DEFINE a == Event("open")
                 b == Reply(c, TRUE)
      <3>1. wire' = wire \o <<a, b>>  BY <1>3, <2>0
      <3>2. a \in Messages /\ b \in Messages  BY <2>12
      <3> HIDE DEF a, b
      <3>4. \E l \in Nat :
             /\ DOMAIN wire' = DOMAIN wire \cup {l, l + 1}
             /\ l \notin DOMAIN wire /\ l + 1 \notin DOMAIN wire
             /\ wire'[l] = a /\ wire'[l + 1] = b
             /\ \A n \in DOMAIN wire : wire'[n] = wire[n]
        BY <2>12, <3>1, <3>2, TwoMoreOnWire
      <3> QED  BY <3>4 DEF a, b
    <2>3. /\ wire'[l].to = None /\ wire'[l + 1].to = c
          /\ Fitting(wire[l])' /\ Fitting(wire[l + 1])'
      BY <1>1, <2>1, <2>2 DEF Event, Reply, Fitting, Ops
    <2>4. WireFits'
      <3> SUFFICES ASSUME NEW n \in DOMAIN wire' PROVE Fitting(wire[n])'
        BY DEF WireFits
      <3>1. CASE n \in DOMAIN wire  BY <1>1, <2>2, <3>1 DEF Once, WireFits, Fitting
      <3> QED  BY <2>2, <2>3, <3>1
    <2>5. \A f : ~Answered(f) /\ f # c /\ f # None => ~Answered(f)'
      BY <2>2, <2>3 DEF Answered
    <2>6. AnsweredOnce'
      BY <2>1, <2>2, <2>3 DEF Once, AnsweredOnce, Answered
    <2>7. found[c] = None  BY <2>1 DEF Once, Looks, Finders
    <2>8. Works' /\ job'.by = None  BY <1>1 DEF Works, NoJob
    <2>9. \A n \in DOMAIN queue : queue[n] \in Callers /\ queue[n] # None
      BY SequenceTypes, SerialAssumption DEF Finders
    <2>10. WaitsOnce'  BY <1>1, <2>0, <2>5, <2>8, <2>9 DEF Once, WaitsOnce
    <2>11. Looks'  BY <1>1, <2>5, <2>7, SerialAssumption DEF Once, Looks
    <2> QED  BY <2>4, <2>6, <2>8, <2>10, <2>11 DEF Once
  <1> QED  BY <1>2, <1>3 DEF OpenEnds

LEMMA NextOnce == ASSUME TypeOK, Once, Next PROVE Once'
  <1>1. ASSUME NEW i \in Consoles, Ending(i) PROVE Once'
    <2>1. CASE Drained(i) \/ ReadFails(i)
      BY <2>1, StaysOnce DEF Drained, ReadFails, mutex
    <2>2. CASE PortCloses(i)
      <3>1. /\ wire' = Append(wire, Event("close")) /\ UNCHANGED <<pc, queue, job, found>>
            /\ Event("close").to = None /\ Event("close") \in Messages /\ Fitting(Event("close"))
        BY <2>2 DEF PortCloses, mutex, Event, Messages, Fitting
      <3> QED  BY <3>1, TellsOnce
    <2> QED  BY <1>1, <2>1, <2>2 DEF Ending
  <1>2. CASE Operation
    <2>1. CASE OpenRefused  BY <2>1, EndsOnce DEF OpenRefused, Starts
    <2>2. CASE OpenStarts
      <3>1. job'.by = job.by /\ job'.op = job.op /\ UNCHANGED <<wire, queue, pc, found>>
        BY <2>2 DEF OpenStarts, TypeOK
      <3> QED  BY <3>1, StaysOnce
    <2>3. CASE WriteStarts
      <3>1. CASE IsOpen(serial)
        <4>1. job'.by = job.by /\ job'.op = job.op /\ UNCHANGED <<wire, queue, pc, found>>
          BY <2>3, <3>1 DEF WriteStarts, TypeOK
        <4> QED  BY <4>1, StaysOnce
      <3>2. CASE ~IsOpen(serial)  BY <2>3, <3>2, EndsOnce DEF WriteStarts, Starts
      <3> QED  BY <3>1, <3>2
    <2>4. CASE WriteEnds  BY <2>4, EndsOnce DEF WriteEnds
    <2>5. CASE CloseStarts
      <3>1. CASE IsOpen(serial)
        <4>1. job'.by = job.by /\ job'.op = job.op /\ UNCHANGED <<wire, queue, pc, found>>
          BY <2>5, <3>1 DEF CloseStarts, TypeOK
        <4> QED  BY <4>1, StaysOnce
      <3>2. CASE ~IsOpen(serial)  BY <2>5, <3>2, EndsOnce DEF CloseStarts, Starts
      <3> QED  BY <3>1, <3>2
    <2>6. CASE CloseEnds  BY <2>6, EndsOnce DEF CloseEnds
    <2> QED
      BY <1>2, <2>1, <2>2, <2>3, <2>4, <2>5, <2>6, TakesOnce, OpenEndsOnce DEF Operation
  <1>3. CASE ConnectEvent
    <2>1. /\ UNCHANGED <<wire, queue, job, found>> /\ pc'[Web] \in {"reconnect"}
          /\ \A c \in Callers : pc'[c] = pc[c]
      BY <1>3, SerialAssumption DEF ConnectEvent, mutex, TypeOK, Finders
    <2>2. \A n \in DOMAIN queue : queue[n] \in Callers  BY SequenceTypes
    <2>3. WaitsOnce'  BY <2>1, <2>2 DEF Once, WaitsOnce, Answered
    <2>4. Looks'  BY <1>3, <2>1 DEF ConnectEvent, Once, Looks, Answered, Finders
    <2> QED  BY <2>1, <2>3, <2>4 DEF Once, WireFits, Fitting, AnsweredOnce, Works, Answered
  <1>4. CASE DisconnectEvent  BY <1>4, StaysOnce DEF DisconnectEvent, mutex
  <1>5. ASSUME NEW c \in Callers, Detaches(c) PROVE Once'
    <2>1. found[c] = None  BY <1>5, IdleIsAlone DEF Detaches
    <2> QED  BY <1>5, <2>1, StatusOnce DEF Detaches, mutex
  <1>6. ASSUME NEW p \in Ports, Unplug(p) \/ Plug(p) PROVE Once'
    BY <1>6, StaysOnce DEF Unplug, Plug, mutex
  <1> QED
    BY <1>1, <1>2, <1>3, <1>4, <1>5, <1>6, FindOnce, ReceivesOnce, CommandOnce
    DEF Next, System, User

-----------------------------------------------------------------------------
(* Who holds the port.  With one port, a console of another one is never     *)
(* closed behind the service's back, nor left open.                          *)

OnePort == \A p, q \in Ports : p = q

Holds(i) == consoles[i].stage \in {"reading", "draining", "closing"}
Opens == job.op = "open" /\ job.console # None

PluggedIsSettled ==
    \A p \in Ports : plugged[p] => \A n \in DOMAIN events : events[n].type # "disconnect"
OneHolds == \A i, j \in Consoles : Holds(i) /\ Holds(j) => i = j
PortHeld == \A p \in Ports : port[p] \in {"open", "lost"} <=> \E i \in Consoles : Holds(i)
OnPort == \A i \in Consoles : consoles[i].stage # "closed" => consoles[i].port \in Ports
ReadingServes ==
    \A i \in Consoles : consoles[i].stage = "reading" => i = serial /\ serialState = "open"
OpenIsHeld == serialState = "open" => \E i \in Consoles : Holds(i)
OpeningWorks ==
    \A i \in Consoles : consoles[i].stage = "opening" <=> job.op = "open" /\ job.console = i
OpeningServes == Opens => serial \in {job.console, None}
PortOpening ==
    \A p \in Ports : port[p] = "opening" => Opens /\ serial = job.console /\ plugged[p]

\* A port is held by the console that has it open and no other, the service
\* knows the one that reads, and a port being opened is not about to be lost.
Held ==
    /\ PluggedIsSettled /\ OneHolds /\ PortHeld /\ OnPort /\ ReadingServes
    /\ OpenIsHeld /\ OpeningWorks /\ OpeningServes /\ PortOpening

LEMMA InitHeld == Init => Held
  <1> HAVE Init
  <1>1. /\ \A i \in Consoles : consoles[i].stage = "closed"
        /\ \A p \in Ports : port[p] = "closed"
        /\ events = <<>> /\ serialState = "absent" /\ job.op = "none"
    BY DEF Init, NoJob
  <1> QED
    BY <1>1 DEF Held, PluggedIsSettled, OneHolds, PortHeld, OnPort, ReadingServes, OpenIsHeld,
       OpeningWorks, OpeningServes, PortOpening, Opens, Holds

\* Steps that leave the ports and the consoles alone, and open nothing.
LEMMA StaysHeld ==
    ASSUME Held, UNCHANGED <<port, plugged, events, consoles, serial, serialState>>,
           job' = job \/ (~Opens /\ ~Opens')
    PROVE  Held'
  <1>1. \A i \in Consoles : (job.op = "open" /\ job.console = i)' <=> job.op = "open" /\ job.console = i
    BY SerialAssumption DEF Opens
  <1>2. Opens' <=> Opens  BY DEF Opens
  <1>3. OpeningWorks'  BY <1>1 DEF Held, OpeningWorks
  <1>4. OpeningServes' /\ PortOpening'
    BY <1>2 DEF Held, OpeningServes, PortOpening, Opens
  <1> QED
    BY <1>3, <1>4 DEF Held, PluggedIsSettled, OneHolds, PortHeld, OnPort, ReadingServes,
       OpenIsHeld, Holds

LEMMA EndingHeld ==
    ASSUME OnePort, TypeOK, Held, NEW i \in Consoles, Ending(i) PROVE Held'
  <1>1. UNCHANGED <<plugged, events, job, serial>>
    BY DEF Ending, Drained, PortCloses, ReadFails, browser, service, mutex
  <1>2. /\ consoles' \in [Consoles -> ConsoleType]
        /\ consoles[i].stage \in {"reading", "draining", "closing"}
        /\ consoles'[i].stage \in {"draining", "closing", "closed"}
        /\ \A j \in Consoles : /\ consoles'[j].port = consoles[j].port
                               /\ j # i => consoles'[j].stage = consoles[j].stage
    <2>1. CASE Drained(i)  BY <2>1, NewStage DEF Drained, Stages
    <2>2. CASE PortCloses(i)  BY <2>2, NewStage DEF PortCloses, Stages
    <2>3. CASE ReadFails(i)  BY <2>3 DEF ReadFails, TypeOK, Stages, ConsoleType
    <2> QED  BY <2>1, <2>2, <2>3 DEF Ending
  <1>3. Holds(i) /\ \A j \in Consoles : Holds(j) => j = i
    BY <1>2 DEF Held, OneHolds, Holds
  <1>4. PluggedIsSettled' /\ OneHolds' /\ OnPort' /\ OpeningWorks' /\ OpeningServes'
    BY <1>1, <1>2, <1>3 DEF Held, PluggedIsSettled, OneHolds, OnPort, OpeningWorks, OpeningServes,
       Opens, Holds
  <1>5. ReadingServes'  BY <1>2, <1>3 DEF ReadingServes, Holds
  <1>6. CASE PortCloses(i)
    <2>1. consoles'[i].stage = "closed" /\ serialState' # "open"
      BY <1>6, NewStage DEF PortCloses, Stages
    <2>2. \A j \in Consoles : ~Holds(j)'  BY <1>2, <1>3, <2>1 DEF Holds
    <2>3. \A p \in Ports : port'[p] = "closed"
      BY <1>2, <1>6 DEF PortCloses, TypeOK, OnePort, Held, OnPort
    <2> QED
      BY <1>4, <1>5, <2>1, <2>2, <2>3 DEF Held, PortHeld, OpenIsHeld, PortOpening
  <1>7. CASE ~PortCloses(i)
    <2>1. UNCHANGED <<port, serialState>> /\ consoles'[i].stage \in {"draining", "closing"}
      BY <1>7, NewStage DEF Ending, Drained, ReadFails, browser, service, Stages
    <2>2. \A j \in Consoles : Holds(j)' <=> Holds(j)  BY <1>2, <2>1 DEF Holds
    <2> QED
      BY <1>1, <1>4, <1>5, <2>1, <2>2 DEF Held, PortHeld, OpenIsHeld, PortOpening, Opens
  <1> QED  BY <1>6, <1>7

\* The console that was reading is closed.
LEMMA ClosesHeld ==
    ASSUME TypeOK, Held, IsOpen(serial), Closes(serial),
           UNCHANGED <<port, plugged, serialState>>, job' = job \/ (~Opens /\ ~Opens'),
           \A n \in DOMAIN events' : \E k \in DOMAIN events : events'[n] = events[k],
           serial' \in {serial, None}, Opens => serial' = serial \/ \A p \in Ports : port[p] # "opening"
    PROVE  Held'
  <1> DEFINE i == serial
  <1>1. i \in Consoles /\ consoles[i].stage = "reading"  BY DEF IsOpen, TypeOK
  <1>2. /\ consoles'[i].stage = "draining"
        /\ \A j \in Consoles : /\ consoles'[j].port = consoles[j].port
                               /\ j # i => consoles'[j].stage = consoles[j].stage
    BY <1>1, NewStage DEF Closes, Stages
  <1> HIDE DEF i
  <1>3. \A j \in Consoles : Holds(j)' <=> Holds(j)  BY <1>1, <1>2 DEF Holds
  <1>4. PluggedIsSettled'  BY DEF Held, PluggedIsSettled
  <1>5. OneHolds' /\ PortHeld' /\ OpenIsHeld'  BY <1>3 DEF Held, OneHolds, PortHeld, OpenIsHeld
  <1>6. OnPort'  BY <1>1, <1>2 DEF Held, OnPort
  <1>7. ReadingServes'  BY <1>1, <1>2 DEF Held, ReadingServes, i
  <1>8. \A j \in Consoles : (job.op = "open" /\ job.console = j)' <=> job.op = "open" /\ job.console = j
    BY SerialAssumption DEF Opens
  <1>9. OpeningWorks'  BY <1>1, <1>2, <1>8 DEF Held, OpeningWorks
  <1>10. OpeningServes'  BY DEF Held, OpeningServes, Opens
  <1>11. PortOpening'  BY DEF Held, PortOpening, Opens
  <1> QED  BY <1>4, <1>5, <1>6, <1>7, <1>9, <1>10, <1>11 DEF Held

LEMMA OpenStartsHeld ==
    ASSUME OnePort, TypeOK, Held, OpenStarts PROVE Held'
  <1>1. PICK i \in Consoles :
           /\ consoles[i].stage = "closed"
           /\ consoles' = [consoles EXCEPT ![i] =
                              [port |-> serialPort, stage |-> "opening", failed |-> FALSE]]
           /\ serial' = i /\ job' = [job EXCEPT !.console = i]
    BY FirstDroppedType DEF OpenStarts, Dropped
  <1>2. /\ job.op = "open" /\ job.console = None /\ serialPort \in Ports
        /\ UNCHANGED <<plugged, events, serialState>>
        /\ port' = [port EXCEPT ![serialPort] = IF Grants(serialPort) THEN "opening" ELSE @]
    BY DEF OpenStarts, Starts, TypeOK
  <1>3. job'.op = "open" /\ job'.console = i /\ Opens' /\ ~Opens
    BY <1>1, <1>2, SerialAssumption DEF Opens, TypeOK
  <1>4. /\ consoles'[i].stage = "opening" /\ consoles'[i].port = serialPort
        /\ \A j \in Consoles : j # i => consoles'[j] = consoles[j]
    BY <1>1 DEF TypeOK
  <1>5. \A j \in Consoles : consoles[j].stage \notin {"reading", "opening"}
    BY <1>2, SerialAssumption DEF OpenStarts, IsOpen, Held, ReadingServes, OpeningWorks
  <1>6. \A j \in Consoles : Holds(j)' <=> Holds(j)  BY <1>1, <1>4 DEF Holds
  <1>7. \A p \in Ports : /\ port[p] # "opening"
                         /\ port'[p] = port[p] \/ (port[p] = "closed" /\ port'[p] = "opening" /\ plugged[p])
    BY <1>2, <1>3 DEF Held, PortOpening, Grants, TypeOK, OnePort
  <1>8. PluggedIsSettled' /\ OneHolds' /\ OpenIsHeld'
    BY <1>2, <1>6 DEF Held, PluggedIsSettled, OneHolds, OpenIsHeld
  <1>9. PortHeld'  BY <1>6, <1>7 DEF Held, PortHeld
  <1>10. OnPort'  BY <1>2, <1>4 DEF Held, OnPort
  <1>11. ReadingServes'  BY <1>4, <1>5 DEF ReadingServes
  <1>12. OpeningWorks'  BY <1>3, <1>4, <1>5 DEF OpeningWorks
  <1>13. OpeningServes'  BY <1>1, <1>3 DEF OpeningServes
  <1>14. PortOpening'  BY <1>1, <1>2, <1>3, <1>7 DEF PortOpening
  <1> QED  BY <1>8, <1>9, <1>10, <1>11, <1>12, <1>13, <1>14 DEF Held

\* The port opens if it was closed before and is still there; then nobody else
\* has it.
LEMMA OpenEndsHeld ==
    ASSUME OnePort, TypeOK, Held, OpenEnds PROVE Held'
  <1> DEFINE p == consoles[job.console].port
  <1>1. PICK i \in Consoles : i = job.console /\ consoles[i].stage = "opening" /\ p \in Ports /\ Opens
    BY DEF OpenEnds, TypeOK, Held, OpeningWorks, OnPort, Opens
  <1>2. UNCHANGED <<plugged, events, serial>> /\ ~Opens' /\ job' = NoJob
    BY DEF OpenEnds, NoJob, Opens
  <1>3. \A j \in Consoles : consoles[j].stage # "reading"
    BY <1>1, SerialAssumption DEF Held, ReadingServes, OpeningServes
  <1>4. \A q \in Ports : q = p  BY <1>1 DEF OnePort
  <1>5. \A j \in Consoles : /\ ~(job'.op = "open" /\ job'.console = j)
                            /\ j # i => consoles[j].stage # "opening"
    BY <1>1, <1>2 DEF NoJob, Held, OpeningWorks
  <1>6. CASE port[p] = "opening"
    <2>1. /\ port' = [port EXCEPT ![p] = "open"]
          /\ consoles' = [consoles EXCEPT ![i].stage = "reading"] /\ serialState' = "open"
      BY <1>1, <1>6 DEF OpenEnds
    <2>2. /\ consoles'[i].stage = "reading"
          /\ \A j \in Consoles : /\ consoles'[j].port = consoles[j].port
                                 /\ j # i => consoles'[j].stage = consoles[j].stage
      BY <2>1, NewStage DEF Stages
    <2>3. \A j \in Consoles : ~Holds(j)  BY <1>1, <1>6 DEF Held, PortHeld
    <2>4. \A j \in Consoles : Holds(j)' <=> j = i  BY <2>2, <2>3 DEF Holds
    <2>5. port'[p] = "open"  BY <1>1, <2>1 DEF TypeOK
    <2>6. serial = i  BY <1>1, <1>6 DEF Held, PortOpening
    <2>7. PluggedIsSettled' /\ OneHolds' /\ OpenIsHeld' /\ PortHeld'
      BY <1>2, <1>4, <2>4, <2>5 DEF Held, PluggedIsSettled, OneHolds, OpenIsHeld, PortHeld
    <2>8. OnPort' /\ ReadingServes'
      BY <1>1, <1>2, <1>3, <2>1, <2>2, <2>6 DEF Held, OnPort, ReadingServes
    <2>9. OpeningWorks' /\ OpeningServes' /\ PortOpening'
      BY <1>2, <1>4, <1>5, <2>2, <2>5 DEF OpeningWorks, OpeningServes, PortOpening
    <2> QED  BY <2>7, <2>8, <2>9 DEF Held
  <1>7. CASE port[p] # "opening"
    <2>1. /\ port' = port /\ serialState' = "error"
          /\ consoles' = [consoles EXCEPT ![i].stage = "closed"]
      BY <1>1, <1>7 DEF OpenEnds
    <2>2. /\ consoles'[i].stage = "closed"
          /\ \A j \in Consoles : /\ consoles'[j].port = consoles[j].port
                                 /\ j # i => consoles'[j].stage = consoles[j].stage
      BY <2>1, NewStage DEF Stages
    <2>3. \A j \in Consoles : Holds(j)' <=> Holds(j)  BY <1>1, <2>2 DEF Holds
    <2>4. PluggedIsSettled' /\ OneHolds' /\ OpenIsHeld' /\ PortHeld'
      BY <1>2, <2>1, <2>3 DEF Held, PluggedIsSettled, OneHolds, OpenIsHeld, PortHeld
    <2>5. OnPort' /\ ReadingServes'
      BY <1>1, <1>3, <2>2 DEF Held, OnPort, ReadingServes
    <2>6. OpeningWorks' /\ OpeningServes' /\ PortOpening'
      BY <1>2, <1>4, <1>5, <1>7, <2>1, <2>2 DEF OpeningWorks, OpeningServes, PortOpening
    <2> QED  BY <2>4, <2>5, <2>6 DEF Held
  <1> QED  BY <1>6, <1>7

LEMMA UnplugHeld ==
    ASSUME OnePort, TypeOK, Held, NEW p \in Ports, Unplug(p) PROVE Held'
  <1>1. /\ plugged' = [plugged EXCEPT ![p] = FALSE]
        /\ port' = [port EXCEPT ![p] = CASE @ = "open" -> "lost" [] @ = "opening" -> "closed"
                                      [] OTHER -> @]
        /\ UNCHANGED <<consoles, serial, serialState, job>>
    BY DEF Unplug, service, mutex
  <1>2. \A q \in Ports : /\ ~plugged'[q] /\ port'[q] # "opening"
                         /\ port'[q] \in {"open", "lost"} <=> port[q] \in {"open", "lost"}
    BY <1>1 DEF TypeOK, OnePort
  <1> QED
    BY <1>1, <1>2 DEF Held, PluggedIsSettled, OneHolds, PortHeld, OnPort, ReadingServes, OpenIsHeld,
       OpeningWorks, OpeningServes, PortOpening, Opens, Holds

LEMMA PlugHeld ==
    ASSUME OnePort, TypeOK, Held, NEW p \in Ports, Plug(p) PROVE Held'
  <1>1. /\ plugged' = [plugged EXCEPT ![p] = TRUE]
        /\ events' = Append(events, [type |-> "connect", port |-> p])
        /\ UNCHANGED <<port, consoles, serial, serialState, job>>
    BY DEF Plug, service, mutex
  <1>2. DOMAIN events = {}
    <2>1. \A n \in DOMAIN events : events[n].port \in Ports
      <3>1. \A n \in DOMAIN events : events[n] \in Occurrences  BY SequenceTypes
      <3> QED  BY <3>1 DEF Occurrences
    <2> QED  BY <2>1 DEF Plug, OnePort
  <1>3. \A n \in DOMAIN events' : events'[n].type = "connect"
    BY <1>1, <1>2, SequenceTypes
  <1>4. PluggedIsSettled'  BY <1>3 DEF PluggedIsSettled
  <1>5. PortOpening'  BY <1>1 DEF Held, PortOpening, Opens, TypeOK
  <1> QED
    BY <1>1, <1>4, <1>5 DEF Held, OneHolds, PortHeld, OnPort, ReadingServes, OpenIsHeld,
       OpeningWorks, OpeningServes, Opens, Holds

LEMMA ShorterEvents ==
    ASSUME TypeOK, events # <<>>, events' = Tail(events)
    PROVE  \A n \in DOMAIN events' : \E k \in DOMAIN events : events'[n] = events[k]
  BY SequenceTypes

LEMMA DisconnectHeld ==
    ASSUME OnePort, TypeOK, Held, DisconnectEvent PROVE Held'
  <1>1. /\ \A n \in DOMAIN events' : \E k \in DOMAIN events : events'[n] = events[k]
        /\ UNCHANGED <<port, plugged, job>>
    BY ShorterEvents DEF DisconnectEvent, mutex
  <1>2. Head(events).type = "disconnect" /\ Head(events).port \in Ports
    <2>1. Head(events) \in Occurrences  BY SequenceTypes, OneLess DEF DisconnectEvent
    <2> QED  BY <2>1 DEF DisconnectEvent, Occurrences
  <1>3. \A p \in Ports : ~plugged[p] /\ port[p] # "opening"
    <2>1. \E n \in DOMAIN events : events[n].type = "disconnect"
      BY <1>2, SequenceTypes DEF DisconnectEvent
    <2> QED  BY <2>1 DEF Held, PluggedIsSettled, PortOpening
  <1>4. serialPort \in {None, Head(events).port}
    BY <1>2 DEF OnePort, TypeOK
  <1>5. CASE IsOpen(serial)
    BY <1>1, <1>3, <1>4, <1>5, ClosesHeld DEF DisconnectEvent
  <1>6. CASE ~IsOpen(serial)
    <2>1. UNCHANGED consoles /\ serial' = None /\ serialState' = "absent"
      BY <1>4, <1>6 DEF DisconnectEvent
    <2>2. \A j \in Consoles : consoles[j].stage # "reading"
      BY <1>6, SerialAssumption DEF Held, ReadingServes, IsOpen
    <2> QED
      BY <1>1, <1>3, <2>1, <2>2 DEF Held, PluggedIsSettled, OneHolds, PortHeld, OnPort, ReadingServes,
         OpenIsHeld, OpeningWorks, OpeningServes, PortOpening, Opens, Holds
  <1> QED  BY <1>5, <1>6

LEMMA NextHeld == ASSUME OnePort, TypeOK, Once, Held, Next PROVE Held'
  <1>1. CASE Operation
    <2>1. CASE Takes
      BY <2>1, StaysHeld DEF Takes, browser, service, Opens, NoJob
    <2>2. CASE OpenRefused
      BY <2>2, StaysHeld DEF OpenRefused, Starts, Ends, browser, service, Opens, NoJob
    <2>3. CASE WriteStarts
      <3>1. job'.op = "write" \/ job' = NoJob
        BY <2>3 DEF WriteStarts, Starts, Ends, TypeOK
      <3> QED  BY <2>3, <3>1, StaysHeld DEF WriteStarts, Starts, browser, service, Opens, NoJob
    <2>4. CASE WriteEnds \/ CloseEnds
      <3>1. UNCHANGED <<port, plugged, events, consoles, serial, serialState>> /\ ~Opens /\ ~Opens'
        <4>1. job.op # "open" /\ job' = NoJob
          BY <2>4 DEF WriteEnds, CloseEnds, Ends
        <4> QED
          BY <2>4, <4>1 DEF WriteEnds, CloseEnds, browser, service, Opens, NoJob
      <3> QED  BY <3>1, StaysHeld
    <2>5. CASE CloseStarts
      <3>1. job'.op = "close" \/ job' = NoJob
        BY <2>5 DEF CloseStarts, Starts, Ends, TypeOK
      <3>2. ~Opens /\ ~Opens' /\ UNCHANGED <<port, plugged, events, serial, serialState>>
        BY <2>5, <3>1 DEF CloseStarts, Starts, Opens, NoJob, browser, service
      <3> QED  BY <2>5, <3>2, StaysHeld, ClosesHeld DEF CloseStarts
    <2> QED
      BY <1>1, <2>1, <2>2, <2>3, <2>4, <2>5, OpenStartsHeld, OpenEndsHeld DEF Operation
  <1>2. ASSUME NEW f \in Finders, Find(f) PROVE Held'
    <2>1. CASE Finds(f) \/ FindsNothing(f)
      <3>1. UNCHANGED <<port, plugged, events, consoles, serial, serialState>> /\ job' = job
        BY <2>1 DEF Finds, FindsNothing, browser, service, mutex
      <3> QED  BY <3>1, StaysHeld
    <2>2. CASE SetSerialPort(f)
      <3>1. IsOpen(serial) => consoles[serial].port = found[f]
        BY <2>2 DEF SetSerialPort, IsOpen, TypeOK, Held, OnPort, OnePort
      <3>2. UNCHANGED <<port, plugged, events, consoles, serial, serialState>> /\ job' = job
        BY <2>2, <3>1 DEF SetSerialPort, browser, mutex
      <3> QED  BY <3>2, StaysHeld
    <2> QED  BY <1>2, <2>1, <2>2 DEF Find
  <1>3. CASE ConnectEvent
    <2>1. \A n \in DOMAIN events' : \E k \in DOMAIN events : events'[n] = events[k]
      BY <1>3, ShorterEvents DEF ConnectEvent
    <2>2. UNCHANGED <<port, plugged, consoles, serial, serialState, job>>
      BY <1>3 DEF ConnectEvent, service, mutex
    <2> QED
      BY <2>1, <2>2 DEF Held, PluggedIsSettled, OneHolds, PortHeld, OnPort, ReadingServes,
         OpenIsHeld, OpeningWorks, OpeningServes, PortOpening, Opens, Holds
  <1>4. CASE Receives
    <2>1. job' = job  BY <1>4 DEF Receives, GetsStatus, GetsReply, Requests, Asks, mutex
    <2>2. UNCHANGED <<port, plugged, events, consoles, serial, serialState>>
      BY <1>4 DEF Receives, browser, service
    <2> QED  BY <2>1, <2>2, StaysHeld
  <1>5. ASSUME NEW c \in Callers, Detaches(c) \/ Command(c) PROVE Held'
    <2>1. job' = job  BY <1>5 DEF Detaches, Command, Requests, Asks, mutex
    <2>2. UNCHANGED <<port, plugged, events, consoles, serial, serialState>>
      BY <1>5 DEF Detaches, Command, browser, service
    <2> QED  BY <2>1, <2>2, StaysHeld
  <1> QED
    BY <1>1, <1>2, <1>3, <1>4, <1>5, EndingHeld, UnplugHeld, PlugHeld, DisconnectHeld
    DEF Next, System, User

-----------------------------------------------------------------------------
(* What the bridge is told.  The last message that says how the console is    *)
(* says it right, unless a console is on its way to being closed.            *)

Tells(m) ==
    \/ m.to = None
    \/ m.type = "status" /\ (pc[m.to] = "reconnect" => m.known)
    \/ m.type = "reply" /\ pc[m.to] = "open" /\ m.open
Value(m) == m.type = "open" \/ (m.to # None /\ m.open)

Reading == \E i \in Consoles : consoles[i].stage = "reading"
Finishing == \E i \in Consoles : consoles[i].stage \in {"draining", "closing"}

IsLast(n) == Tells(wire[n]) /\ \A k \in DOMAIN wire : k > n => ~Tells(wire[k])
LastIsRight == \A n \in DOMAIN wire : IsLast(n) => (Value(wire[n]) <=> Reading)
MirrorIsRight == (\A n \in DOMAIN wire : ~Tells(wire[n])) => (mirror <=> Reading)
Told == Finishing \/ (LastIsRight /\ MirrorIsRight)

LEMMA SilentTold ==
    ASSUME Told, TypeOK, UNCHANGED <<wire, mirror>>,
           \A n \in DOMAIN wire : wire[n].to # None => pc'[wire[n].to] = pc[wire[n].to],
           Finishing' \/ (~Finishing /\ (Reading' <=> Reading))
    PROVE  Told'
  <1>1. \A n \in DOMAIN wire : Tells(wire[n])' <=> Tells(wire[n])
    BY DEF Tells
  <1>2. ASSUME ~Finishing, Reading' <=> Reading PROVE LastIsRight' /\ MirrorIsRight'
    BY <1>1, <1>2 DEF Told, LastIsRight, MirrorIsRight, IsLast, Value
  <1> QED  BY <1>2 DEF Told

LEMMA OneToldMore ==
    ASSUME Told, TypeOK, NEW m \in Messages, wire' = Append(wire, m), pc' = pc,
           Finishing' \/ (Tells(m) /\ (Value(m) <=> Reading'))
           \/ (~Tells(m) /\ mirror' = mirror /\ ~Finishing /\ (Reading' <=> Reading))
    PROVE  Told'
  <1>1. PICK l \in Nat :
           /\ DOMAIN wire' = DOMAIN wire \cup {l} /\ l \notin DOMAIN wire /\ wire'[l] = m
           /\ \A n \in DOMAIN wire : wire'[n] = wire[n] /\ n \in Nat /\ l > n
    <2>1. /\ DOMAIN wire' = DOMAIN wire \cup {Len(wire) + 1} /\ Len(wire) + 1 \notin DOMAIN wire
          /\ wire'[Len(wire) + 1] = m /\ \A n \in DOMAIN wire : wire'[n] = wire[n]
      BY SequenceTypes, Longer
    <2>2. Len(wire) + 1 \in Nat /\ \A n \in DOMAIN wire : n \in Nat /\ Len(wire) + 1 > n
      BY SequenceTypes
    <2> QED  BY <2>1, <2>2
  <1>2. \A n \in DOMAIN wire : Tells(wire[n])' <=> Tells(wire[n])
    BY <1>1 DEF Tells
  <1>3. Tells(wire[l])' <=> Tells(m)  BY <1>1 DEF Tells
  <1>4. CASE Tells(m) /\ (Value(m) <=> Reading')
    <2>1. \A n \in DOMAIN wire' : IsLast(n)' => n = l
      BY <1>1, <1>3, <1>4 DEF IsLast
    <2>2. LastIsRight'  BY <1>1, <1>4, <2>1 DEF LastIsRight, Value
    <2>3. MirrorIsRight'  BY <1>1, <1>3, <1>4 DEF MirrorIsRight
    <2> QED  BY <2>2, <2>3 DEF Told
  <1>5. CASE ~Tells(m) /\ mirror' = mirror /\ ~Finishing /\ (Reading' <=> Reading)
    <2>1. LastIsRight /\ MirrorIsRight  BY <1>5 DEF Told
    <2>2. \A n \in DOMAIN wire' : IsLast(n)' => n \in DOMAIN wire /\ IsLast(n)
      BY <1>1, <1>2, <1>3, <1>5 DEF IsLast
    <2>3. \A n \in DOMAIN wire : Value(wire[n])' <=> Value(wire[n])
      BY <1>1 DEF Value
    <2>4. LastIsRight'  BY <1>5, <2>1, <2>2, <2>3 DEF LastIsRight
    <2>5. MirrorIsRight'  BY <1>1, <1>2, <1>5, <2>1 DEF MirrorIsRight
    <2> QED  BY <2>4, <2>5 DEF Told
  <1> QED  BY <1>4, <1>5 DEF Told

\* The bridge takes a message that tells something as what it says.
LEMMA ReceivesTold == ASSUME Told, TypeOK, Once, Held, Receives PROVE Told'
  <1>1. PICK m \in Messages : m = Head(wire)
    BY SequenceTypes, OneLess DEF Receives
  <1>2. /\ 1 \in DOMAIN wire /\ wire[1] = m /\ DOMAIN wire \subseteq Nat \ {0} /\ DOMAIN wire' \subseteq Nat
        /\ \A n \in DOMAIN wire' : n + 1 \in DOMAIN wire /\ n + 1 # 1 /\ wire'[n] = wire[n + 1]
        /\ \A n \in DOMAIN wire : n # 1 => n - 1 \in DOMAIN wire' /\ wire'[n - 1] = wire[n]
    BY <1>1, SequenceTypes DEF Receives
  <1>3. (Finishing' <=> Finishing) /\ (Reading' <=> Reading)
    BY DEF Receives, Finishing, Reading
  <1>4. \A f \in Callers : f # m.to => pc'[f] = pc[f]
    <2>1. pc' = pc \/ \E x : pc' = [pc EXCEPT ![m.to] = x]
      BY <1>1 DEF Receives, GetsStatus, GetsReply, Requests, Asks
    <2>2. pc \in PcType /\ Callers \subseteq Finders  BY DEF TypeOK, PcType, Finders
    <2> QED  BY <2>1, <2>2 DEF PcType
  <1>5. \A n \in DOMAIN wire' : Tells(wire[n])' <=> Tells(wire[n + 1])
    <2> SUFFICES ASSUME NEW n \in DOMAIN wire' PROVE Tells(wire[n])' <=> Tells(wire[n + 1])
      OBVIOUS
    <2>1. wire'[n] = wire[n + 1] /\ n + 1 \in DOMAIN wire /\ n + 1 # 1  BY <1>2
    <2>2. wire[n + 1].to # None => wire[n + 1].to # m.to /\ wire[n + 1].to \in Callers
      <3>1. wire[n + 1].to = m.to /\ m.to # None => n + 1 = 1
        BY <1>2, <2>1 DEF Once, AnsweredOnce
      <3>2. wire[n + 1].to \in Callers \cup {None}
        <4>1. wire[n + 1] \in Messages  BY <2>1, SequenceTypes
        <4> QED  BY <4>1 DEF Messages
      <3> QED  BY <2>1, <3>1, <3>2
    <2>3. wire[n + 1].to # None => pc'[wire[n + 1].to] = pc[wire[n + 1].to]
      BY <1>4, <2>2
    <2> QED  BY <2>1, <2>3 DEF Tells
  <1>6. Tells(m) => (mirror' <=> Value(m))
    <2>1. CASE m.to = None
      BY <1>1, <2>1, SerialAssumption DEF Receives, Value, Once, WireFits, Fitting
    <2>2. CASE m.to # None
      <3>1. m.type \in {"reply", "status"} /\ m.open \in BOOLEAN
        BY <1>1, <1>2, <2>2 DEF Once, WireFits, Fitting, Messages
      <3> QED  BY <1>1, <2>2, <3>1 DEF Receives, Value, Tells, GetsStatus, GetsReply
    <2> QED  BY <2>1, <2>2
  <1>7. ~Tells(m) => mirror' = mirror
    BY <1>1, <1>2 DEF Receives, Tells, GetsStatus, GetsReply, Once, WireFits, Fitting, TypeOK, Ops
  <1>8. ASSUME LastIsRight, MirrorIsRight PROVE LastIsRight' /\ MirrorIsRight'
    <2>1. LastIsRight'
      <3> SUFFICES ASSUME NEW n \in DOMAIN wire', IsLast(n)' PROVE (Value(wire[n]) <=> Reading)'
        BY DEF LastIsRight
      <3>1. IsLast(n + 1)
        <4>1. Tells(wire[n + 1])  BY <1>5 DEF IsLast
        <4>2. ASSUME NEW k \in DOMAIN wire, k > n + 1 PROVE ~Tells(wire[k])
          <5>1. k # 1 /\ k - 1 \in DOMAIN wire' /\ k - 1 > n /\ (k - 1) + 1 = k
            BY <1>2, <4>2
          <5>2. ~(Tells(wire[k - 1])')  BY <5>1 DEF IsLast
          <5> QED  BY <1>5, <5>1, <5>2
        <4> QED  BY <4>1, <4>2 DEF IsLast
      <3>2. Value(wire[n])' <=> Value(wire[n + 1])  BY <1>2 DEF Value
      <3> QED  BY <1>2, <1>3, <1>8, <3>1, <3>2 DEF LastIsRight
    <2>2. MirrorIsRight'
      <3> SUFFICES ASSUME \A n \in DOMAIN wire' : ~(Tells(wire[n])') PROVE mirror' <=> Reading'
        BY DEF MirrorIsRight
      <3>1. ASSUME NEW k \in DOMAIN wire, k # 1 PROVE ~Tells(wire[k])
        <4>1. k - 1 \in DOMAIN wire' /\ (k - 1) + 1 = k  BY <1>2, <3>1
        <4> QED  BY <1>5, <4>1
      <3>2. CASE Tells(m)
        <4>1. \A k \in DOMAIN wire : k > 1 => ~Tells(wire[k])  BY <1>2, <3>1
        <4>2. IsLast(1)  BY <1>2, <3>2, <4>1 DEF IsLast
        <4> QED  BY <1>2, <1>3, <1>6, <1>8, <3>2, <4>2 DEF LastIsRight
      <3>3. CASE ~Tells(m)
        <4>1. \A k \in DOMAIN wire : ~Tells(wire[k])  BY <1>2, <3>1, <3>3
        <4> QED  BY <1>3, <1>7, <1>8, <3>3, <4>1 DEF MirrorIsRight
      <3> QED  BY <3>2, <3>3
    <2> QED  BY <2>1, <2>2
  <1> QED  BY <1>3, <1>8 DEF Told

LEMMA SameConsoles ==
    ASSUME UNCHANGED consoles PROVE (Finishing' <=> Finishing) /\ (Reading' <=> Reading)
  BY DEF Finishing, Reading

LEMMA ClosesTold ==
    ASSUME TypeOK, NEW i \in Consoles, Closes(i) PROVE Finishing'
  <1>1. consoles'[i].stage = "draining"  BY NewStage DEF Closes, Stages
  <1> QED  BY <1>1 DEF Finishing

\* Steps that tell the bridge nothing and close no console but to finish with it.
LEMMA QuietTold ==
    ASSUME TypeOK, Told, UNCHANGED <<wire, mirror, pc>>, UNCHANGED consoles \/ Finishing'
    PROVE  Told'
  <1>1. CASE UNCHANGED consoles
    <2>1. (Finishing' <=> Finishing) /\ (Reading' <=> Reading)  BY <1>1, SameConsoles
    <2>2. Finishing => Told'  BY <2>1 DEF Told
    <2>3. ~Finishing => Told'  BY <2>1, SilentTold
    <2> QED  BY <2>2, <2>3
  <1>2. CASE Finishing'  BY <1>2 DEF Told
  <1> QED  BY <1>1, <1>2

\* While no console is being closed the service's state says whether one reads.
LEMMA StateTells ==
    ASSUME TypeOK', Held' PROVE Finishing' \/ (serialState' = "open" <=> Reading')
  <1>1. Reading' => serialState' = "open"  BY DEF Held, ReadingServes, Reading
  <1>2. serialState' = "open" => Reading' \/ Finishing'
    BY DEF Held, OpenIsHeld, Holds, Reading, Finishing
  <1> QED  BY <1>1, <1>2

\* A status says what the service's state is.
LEMMA StatusTold ==
    ASSUME TypeOK, Told, TypeOK', Held', NEW c \in Callers, wire' = Append(wire, Status(c)),
           UNCHANGED <<mirror, pc, consoles>>
    PROVE  Told'
  <1>0. Status(c) \in Messages  BY DEF Status, Messages
  <1>1. PICK m \in Messages : m = Status(c)  BY <1>0
  <1>2. /\ m.to = c /\ m.type = "status" /\ m.open = (serialState' = "open")
        /\ wire' = Append(wire, m) /\ pc' = pc /\ mirror' = mirror
    BY <1>1 DEF Status
  <1>3. (Finishing' <=> Finishing) /\ (Reading' <=> Reading)  BY SameConsoles
  <1>4. Finishing' \/ (serialState' = "open" <=> Reading')
    BY StateTells
  <1>5. Value(m) <=> serialState' = "open"  BY <1>2, SerialAssumption DEF Value, Finders
  <1>6. Finishing => Told'  BY <1>3 DEF Told
  <1>7. ~Finishing /\ Tells(m) => Told'  BY <1>2, <1>3, <1>4, <1>5, OneToldMore
  <1>8. ~Finishing /\ ~Tells(m) => Told'  BY <1>2, <1>3, OneToldMore
  <1> QED  BY <1>6, <1>7, <1>8

\* The reply of an operation that opens nothing: only to an open of a console
\* that is open already it says something.
LEMMA EndsTold ==
    ASSUME TypeOK, Once, Told, NEW ok \in BOOLEAN, Ends(ok), job.op # "none",
           job.op = "open" /\ ok => Reading /\ ~Finishing,
           UNCHANGED <<mirror, pc, consoles>>
    PROVE  Told'
  <1>1. job.by \in Callers /\ job.by # None /\ pc[job.by] = job.op
    BY SerialAssumption DEF Once, Works, Finders
  <1>2. PICK m \in Messages : m = Reply(job.by, ok)
    BY <1>1 DEF Reply, Messages
  <1>3. /\ m.to = job.by /\ m.type = "reply" /\ m.open = ok
        /\ wire' = Append(wire, m) /\ pc' = pc /\ mirror' = mirror
    BY <1>2 DEF Reply, Ends
  <1>4. (Finishing' <=> Finishing) /\ (Reading' <=> Reading)  BY SameConsoles
  <1>5. CASE Finishing  BY <1>4, <1>5 DEF Told
  <1>6. CASE ~Finishing /\ job.op = "open" /\ ok
    <2>1. Tells(m) /\ Value(m) /\ Reading'  BY <1>1, <1>3, <1>4, <1>6 DEF Tells, Value
    <2> QED  BY <1>3, <2>1, OneToldMore
  <1>7. CASE ~Finishing /\ ~(job.op = "open" /\ ok)
    <2>1. ~Tells(m)  BY <1>1, <1>3, <1>7 DEF Tells
    <2> QED  BY <1>3, <1>4, <1>7, <2>1, OneToldMore
  <1> QED  BY <1>5, <1>6, <1>7

LastOfTwo(s, b) ==
    \E l \in Nat : l \in DOMAIN s /\ (\A n \in DOMAIN s : n = l \/ l > n) /\ s[l] = b

LEMMA EndOfTwo ==
    ASSUME NEW S, NEW s \in Seq(S), NEW a \in S, NEW b \in S PROVE LastOfTwo(s \o <<a, b>>, b)
  <1>1. /\ Len(s) + 2 \in DOMAIN (s \o <<a, b>>) /\ (s \o <<a, b>>)[Len(s) + 2] = b
        /\ \A n \in DOMAIN (s \o <<a, b>>) : n = Len(s) + 2 \/ Len(s) + 2 > n
    OBVIOUS
  <1>2. Len(s) + 2 \in Nat  OBVIOUS
  <1> QED  BY <1>1, <1>2 DEF LastOfTwo

\* Who opens a console hears of it twice.
LEMMA OpenEndsTold == ASSUME TypeOK, Once, Held, Told, OpenEnds PROVE Told'
  <1>1. PICK i \in Consoles : i = job.console /\ consoles[i].stage = "opening"
    BY DEF OpenEnds, TypeOK, Held, OpeningWorks
  <1>2. /\ job.by \in Callers /\ job.by # None /\ pc[job.by] = "open"
        /\ pc' = pc /\ mirror' = mirror
    BY SerialAssumption DEF OpenEnds, Once, Works, Finders
  <1>3. CASE /\ consoles' = [consoles EXCEPT ![i].stage = "reading"]
             /\ wire' = wire \o <<Event("open"), Reply(job.by, TRUE)>>
    <2>1. consoles'[i].stage = "reading"  BY <1>3, NewStage DEF Stages
    <2>2. Reading'  BY <2>1 DEF Reading
    <2>3. Event("open") \in Messages /\ Reply(job.by, TRUE) \in Messages
      BY <1>2 DEF Event, Reply, Messages
    <2>4. PICK l \in Nat : /\ l \in DOMAIN wire' /\ \A n \in DOMAIN wire' : n = l \/ l > n
                           /\ wire'[l] = Reply(job.by, TRUE)
      <3> DEFINE a == Event("open")
                 b == Reply(job.by, TRUE)
      <3>1. wire' = wire \o <<a, b>> /\ a \in Messages /\ b \in Messages  BY <1>3, <2>3
      <3> HIDE DEF a, b
      <3>2. LastOfTwo(wire \o <<a, b>>, b)  BY <3>1, SequenceTypes, EndOfTwo
      <3> QED  BY <3>1, <3>2 DEF LastOfTwo, b
    <2>5. Tells(wire[l])' /\ Value(wire[l])'  BY <1>2, <2>4 DEF Tells, Value, Reply
    <2>6. LastIsRight'  BY <2>2, <2>4, <2>5 DEF LastIsRight, IsLast
    <2>7. MirrorIsRight'  BY <2>4, <2>5 DEF MirrorIsRight
    <2> QED  BY <2>6, <2>7 DEF Told
  <1>4. CASE /\ consoles' = [consoles EXCEPT ![i].stage = "closed"]
             /\ wire' = Append(wire, Reply(job.by, FALSE))
    <2>1. /\ consoles'[i].stage = "closed"
          /\ \A j \in Consoles : j # i => consoles'[j].stage = consoles[j].stage
      BY <1>4, NewStage DEF Stages
    <2>2. (Finishing' <=> Finishing) /\ (Reading' <=> Reading)
      BY <1>1, <2>1 DEF Finishing, Reading
    <2>3. PICK m \in Messages : m = Reply(job.by, FALSE)  BY <1>2 DEF Reply, Messages
    <2>4. ~Tells(m) /\ wire' = Append(wire, m)  BY <1>2, <1>4, <2>3 DEF Tells, Reply
    <2>5. Finishing => Told'  BY <2>2 DEF Told
    <2>6. ~Finishing => Told'  BY <1>2, <2>2, <2>4, OneToldMore
    <2> QED  BY <2>5, <2>6
  <1> QED  BY <1>1, <1>3, <1>4 DEF OpenEnds

LEMMA OperationTold == ASSUME TypeOK, Once, Held, Told, Operation PROVE Told'
  <1>1. CASE Takes  BY <1>1, QuietTold DEF Takes
  <1>2. CASE OpenRefused
    <2>1. IsOpen(serial) => Reading /\ ~Finishing
      BY DEF IsOpen, TypeOK, Reading, Finishing, Held, OneHolds, Holds
    <2> QED  BY <1>2, <2>1, EndsTold DEF OpenRefused, Starts
  <1>3. CASE OpenStarts
    <2>1. PICK i \in Consoles :
             /\ consoles[i].stage = "closed"
             /\ consoles' = [consoles EXCEPT ![i] =
                                [port |-> serialPort, stage |-> "opening", failed |-> FALSE]]
      BY <1>3, FirstDroppedType DEF OpenStarts, Dropped
    <2>2. /\ consoles'[i].stage = "opening"
          /\ \A j \in Consoles : j # i => consoles'[j].stage = consoles[j].stage
      BY <2>1 DEF TypeOK
    <2>3. (Finishing' <=> Finishing) /\ (Reading' <=> Reading)
      BY <2>1, <2>2 DEF Finishing, Reading
    <2>4. Finishing => Told'  BY <2>3 DEF Told
    <2>5. UNCHANGED <<wire, mirror, pc>>  BY <1>3 DEF OpenStarts
    <2> QED  BY <2>3, <2>4, <2>5, SilentTold
  <1>4. CASE WriteStarts
    <2>1. CASE IsOpen(serial)  BY <1>4, <2>1, QuietTold DEF WriteStarts
    <2>2. CASE ~IsOpen(serial)  BY <1>4, <2>2, EndsTold DEF WriteStarts, Starts
    <2> QED  BY <2>1, <2>2
  <1>5. CASE WriteEnds
    <2>1. job.op = "write" /\ UNCHANGED <<mirror, pc, consoles>>  BY <1>5 DEF WriteEnds
    <2>2. Ends(port[consoles[job.console].port] = "open")  BY <1>5 DEF WriteEnds
    <2> QED  BY <2>1, <2>2, EndsTold
  <1>6. CASE CloseStarts
    <2>1. CASE IsOpen(serial)
      <3>1. serial \in Consoles /\ Closes(serial) /\ UNCHANGED <<wire, mirror, pc>>
        BY <1>6, <2>1 DEF CloseStarts, IsOpen, TypeOK
      <3> QED  BY <3>1, ClosesTold DEF Told
    <2>2. CASE ~IsOpen(serial)  BY <1>6, <2>2, EndsTold DEF CloseStarts, Starts
    <2> QED  BY <2>1, <2>2
  <1>7. CASE CloseEnds  BY <1>7, EndsTold DEF CloseEnds
  <1> QED
    BY <1>1, <1>2, <1>3, <1>4, <1>5, <1>6, <1>7, OpenEndsTold DEF Operation

LEMMA NextTold ==
    ASSUME OnePort, TypeOK, Once, Held, Told, Next, TypeOK', Held' PROVE Told'
  <1>1. ASSUME NEW i \in Consoles, Ending(i) PROVE Told'
    <2>1. CASE Drained(i)
      <3>1. consoles'[i].stage = "closing"  BY <2>1, NewStage DEF Drained, Stages
      <3> QED  BY <3>1 DEF Told, Finishing
    <2>2. CASE ReadFails(i)
      <3>1. consoles'[i].stage = "draining"  BY <2>2 DEF ReadFails, TypeOK
      <3> QED  BY <3>1 DEF Told, Finishing
    <2>3. CASE PortCloses(i)
      <3>1. /\ consoles'[i].stage = "closed"
            /\ \A j \in Consoles : j # i => consoles'[j].stage = consoles[j].stage
        BY <2>3, NewStage DEF PortCloses, Stages
      <3>2. consoles[i].stage = "closing"  BY <2>3 DEF PortCloses
      <3>3. \A j \in Consoles : consoles[j].stage = "reading" => j = i
        BY <3>2 DEF Held, OneHolds, Holds
      <3>4. ~Reading'  BY <3>1, <3>2, <3>3 DEF Reading
      <3>5. PICK m \in Messages : m = Event("close")  BY DEF Event, Messages
      <3>6. Tells(m) /\ ~Value(m) /\ wire' = Append(wire, m) /\ pc' = pc
        BY <2>3, <3>5 DEF Tells, Value, Event, PortCloses
      <3> QED  BY <3>4, <3>6, OneToldMore
    <2> QED  BY <1>1, <2>1, <2>2, <2>3 DEF Ending
  <1>2. ASSUME NEW f \in Finders, Find(f) PROVE Told'
    <2>1. CASE Finds(f)  BY <2>1, QuietTold DEF Finds
    <2>2. CASE FindsNothing(f) \/ SetSerialPort(f)
      <3>1. UNCHANGED <<consoles, mirror>> /\ Done(f)
        <4>1. ASSUME SetSerialPort(f), IsOpen(serial) PROVE consoles[serial].port = found[f]
          <5>1. found[f] \in Ports  BY <4>1 DEF SetSerialPort, TypeOK
          <5>2. consoles[serial].port \in Ports
            BY <4>1 DEF IsOpen, TypeOK, Held, OnPort
          <5> QED  BY <5>1, <5>2 DEF OnePort
        <4> QED  BY <2>2, <4>1 DEF FindsNothing, SetSerialPort
      <3>2. CASE f = Web
        <4>1. wire' = wire /\ pc' = [pc EXCEPT ![Web] = "idle"]  BY <3>1, <3>2 DEF Done
        <4>2. \A n \in DOMAIN wire : wire[n].to # None => pc'[wire[n].to] = pc[wire[n].to]
          <5>1. \A n \in DOMAIN wire : wire[n].to # Web
            BY SerialAssumption DEF Once, WireFits, Fitting, Finders
          <5> QED  BY <4>1, <5>1 DEF TypeOK, Once, WireFits, Fitting, Finders
        <4>3. (Finishing' <=> Finishing) /\ (Reading' <=> Reading)  BY <3>1, SameConsoles
        <4>4. Finishing => Told'  BY <4>3 DEF Told
        <4> QED  BY <3>1, <4>1, <4>2, <4>3, <4>4, SilentTold
      <3>3. CASE f # Web
        <4>1. f \in Callers /\ wire' = Append(wire, Status(f)) /\ pc' = pc
          BY <3>1, <3>3 DEF Done, Finders
        <4> QED  BY <3>1, <4>1, StatusTold
      <3> QED  BY <3>2, <3>3
    <2> QED  BY <1>2, <2>1, <2>2 DEF Find
  <1>3. CASE ConnectEvent
    <2>1. UNCHANGED <<wire, mirror, consoles>> /\ pc' = [pc EXCEPT ![Web] = "reconnect"]
      BY <1>3 DEF ConnectEvent
    <2>2. \A n \in DOMAIN wire : wire[n].to # None => pc'[wire[n].to] = pc[wire[n].to]
      <3>1. \A n \in DOMAIN wire : wire[n].to # Web
        BY SerialAssumption DEF Once, WireFits, Fitting, Finders
      <3> QED  BY <2>1, <3>1 DEF TypeOK, Once, WireFits, Fitting, Finders
    <2>3. (Finishing' <=> Finishing) /\ (Reading' <=> Reading)  BY <2>1, SameConsoles
    <2>4. Finishing => Told'  BY <2>3 DEF Told
    <2> QED  BY <2>1, <2>2, <2>3, <2>4, SilentTold
  <1>4. CASE DisconnectEvent
    <2>1. UNCHANGED <<wire, mirror, pc>>  BY <1>4 DEF DisconnectEvent
    <2>2. UNCHANGED consoles \/ (serial \in Consoles /\ Closes(serial))
      BY <1>4 DEF DisconnectEvent, IsOpen, TypeOK
    <2> QED  BY <2>1, <2>2, QuietTold, ClosesTold
  <1>5. ASSUME NEW c \in Callers, Detaches(c) PROVE Told'
    BY <1>5, StatusTold DEF Detaches
  <1>6. ASSUME NEW c \in Callers, Command(c) PROVE Told'
    <2>1. ~Answered(c)  BY <1>6, IdleIsAlone DEF Command
    <2>2. UNCHANGED <<wire, mirror, consoles>> /\ \E x : pc' = [pc EXCEPT ![c] = x]
      BY <1>6 DEF Command, Requests, Asks
    <2>3. \A n \in DOMAIN wire : wire[n].to # None => pc'[wire[n].to] = pc[wire[n].to]
      BY <2>1, <2>2 DEF Answered, TypeOK, Once, WireFits, Fitting, Finders
    <2>4. (Finishing' <=> Finishing) /\ (Reading' <=> Reading)  BY <2>2, SameConsoles
    <2>5. Finishing => Told'  BY <2>4 DEF Told
    <2> QED  BY <2>2, <2>3, <2>4, <2>5, SilentTold
  <1>7. ASSUME NEW p \in Ports, Unplug(p) \/ Plug(p) PROVE Told'
    BY <1>7, QuietTold DEF Unplug, Plug
  <1> QED
    BY <1>1, <1>2, <1>3, <1>4, <1>5, <1>6, <1>7, OperationTold, ReceivesTold
    DEF Next, System, User

-----------------------------------------------------------------------------
(* The theorems *)

LEMMA InitTypeOnce == Init => TypeOK /\ Once
  <1> HAVE Init
  <1>1. /\ wire = <<>> /\ queue = <<>> /\ job.op = "none" /\ job.by = None
        /\ \A f \in Finders : found[f] = None
    BY DEF Init, NoJob
  <1>2. TypeOK
    <2>1. NoJob \in [by : Callers \cup {None}, op : Ops \cup {"none"}, console : Consoles \cup {None}]
      BY DEF NoJob
    <2>2. \A f \in Finders : (IF f = Web THEN "reconnect" ELSE "idle")
                                \in Ops \cup {"idle", "reconnect", "request", "detach"}
      OBVIOUS
    <2>3. consoles \in [Consoles -> [port : Ports \cup {None}, stage : Stages, failed : BOOLEAN]]
      BY DEF Init, Stages
    <2>4. /\ wire \in Seq([to : Callers \cup {None}, type : {"open", "close", "reply", "status"},
                            open : BOOLEAN, known : BOOLEAN])
          /\ events \in Seq([type : {"connect", "disconnect"}, port : Ports])
          /\ queue \in Seq(Callers)
      BY DEF Init
    <2>5. /\ pc \in [Finders -> Ops \cup {"idle", "reconnect", "request", "detach"}]
          /\ found \in [Finders -> Ports \cup {None}]
      BY <2>2 DEF Init
    <2>6. cables \in 0 .. MaxCables /\ commands \in 0 .. MaxCommands
      BY SerialAssumption DEF Init
    <2>7. /\ port \in [Ports -> {"closed", "opening", "open", "lost"}] /\ plugged \in [Ports -> BOOLEAN]
          /\ losing \subseteq Consoles /\ mirror \in BOOLEAN
      BY DEF Init
    <2> QED  BY <2>1, <2>3, <2>4, <2>5, <2>6, <2>7 DEF Init, TypeOK
  <1>3. Once  BY <1>1 DEF Once, WireFits, AnsweredOnce, WaitsOnce, Works, Looks
  <1> QED  BY <1>2, <1>3

LEMMA NextType == ASSUME TypeOK, Once, Next PROVE TypeOK'
  <1>1. \A n \in DOMAIN queue : pc[queue[n]] \in Ops  BY DEF Once, WaitsOnce
  <1> QED
    BY <1>1, EndingType, OperationType, FindType, EventType, UserType, ReceivesType, DetachesType
    DEF Next, System

LEMMA StuttersTypeOnce == TypeOK /\ Once /\ UNCHANGED vars => (TypeOK /\ Once)'
  <1> SUFFICES ASSUME TypeOK, Once, UNCHANGED vars PROVE (TypeOK /\ Once)'
    OBVIOUS
  <1>1. /\ UNCHANGED <<port, plugged, events, cables, commands, consoles>>
        /\ UNCHANGED <<serial, serialPort, serialState>>
        /\ UNCHANGED <<job, queue, pc, found, losing, wire, mirror>>
    BY DEF vars, browser, user, service, mutex
  <1>2. TypeOK'  BY <1>1 DEF TypeOK
  <1>3. Once'  BY <1>1, StaysOnce
  <1> QED  BY <1>2, <1>3

LEMMA TypeOnce == Spec => [](TypeOK /\ Once)
  <1>1. TypeOK /\ Once /\ [Next]_vars => (TypeOK /\ Once)'
    BY NextType, NextOnce, StuttersTypeOnce
  <1> QED  BY <1>1, InitTypeOnce, PTL DEF Spec

\* Every variable keeps its type: above all, what the mutex hands on is an
\* operation, since who waits for it has not been answered and given up.
THEOREM TypeCorrect == Spec => []TypeOK
  BY TypeOnce, PTL

\* No message on the wire answers anything but what its receiver asked, and
\* nobody has two of them there: the bridge's client never takes the reply of
\* one operation for that of another.
THEOREM AnswersFit == Spec => [](WireFits /\ AnsweredOnce)
  <1>1. Once => WireFits /\ AnsweredOnce  BY DEF Once
  <1> QED  BY <1>1, TypeOnce, PTL

LEMMA HeldTold == ASSUME OnePort PROVE Spec => [](TypeOK /\ Held /\ Told)
  <1>1. Init => Held /\ Told
    <2>1. Init => Told
      BY DEF Init, Told, LastIsRight, MirrorIsRight, Reading
    <2> QED  BY <2>1, InitHeld
  <1>2. (TypeOK /\ Once) /\ (TypeOK /\ Once)' /\ (Held /\ Told) /\ [Next]_vars => (Held /\ Told)'
    <2> SUFFICES ASSUME TypeOK, Once, TypeOK', Held, Told, [Next]_vars PROVE (Held /\ Told)'
      OBVIOUS
    <2>1. CASE Next
      <3>1. Held'  BY <2>1, NextHeld
      <3> QED  BY <2>1, <3>1, NextTold
    <2>2. CASE UNCHANGED vars
      <3>1. UNCHANGED <<port, plugged, events, consoles, serial, serialState>> /\ job' = job
        BY <2>2 DEF vars, browser, service, mutex
      <3>2. UNCHANGED <<wire, mirror, pc, consoles>>  BY <2>2 DEF vars
      <3> QED  BY <3>1, <3>2, StaysHeld, QuietTold
    <2> QED  BY <2>1, <2>2
  <1> QED  BY <1>1, <1>2, TypeOnce, PTL DEF Spec

LEMMA HeldHasNoLeak ==
    ASSUME OnePort, TypeOK, Held, Quiet, NEW p \in Ports, port[p] # "closed"
    PROVE  IsOpen(serial) /\ consoles[serial].port = p
  <1>1. port[p] # "opening"  BY SerialAssumption DEF Held, PortOpening, Opens, Quiet, NoJob
  <1>2. PICK i \in Consoles : Holds(i)  BY <1>1 DEF Held, PortHeld, TypeOK
  <1>3. consoles[i].stage = "reading"  BY <1>2 DEF Quiet, Holds
  <1>4. i = serial /\ consoles[i].port \in Ports  BY <1>3 DEF Held, ReadingServes, OnPort
  <1> QED  BY <1>3, <1>4, SerialAssumption DEF IsOpen, OnePort

LEMMA ToldSettles == ASSUME TypeOK, Held, Told PROVE StatesSettle
  <1> SUFFICES ASSUME Quiet
               PROVE  (serialState = "open" <=> IsOpen(serial)) /\ (mirror <=> serialState = "open")
    BY DEF StatesSettle
  <1>1. \A i \in Consoles : consoles[i].stage \in {"closed", "reading"}  BY DEF Quiet
  <1>2. ~Finishing  BY <1>1 DEF Finishing
  <1>3. serialState = "open" <=> Reading
    <2>1. Reading => serialState = "open"  BY DEF Held, ReadingServes, Reading
    <2>2. serialState = "open" => Reading  BY <1>1 DEF Held, OpenIsHeld, Holds, Reading
    <2> QED  BY <2>1, <2>2
  <1>4. Reading <=> IsOpen(serial)
    <2>1. Reading => IsOpen(serial)
      BY SerialAssumption DEF Held, ReadingServes, Reading, IsOpen
    <2>2. IsOpen(serial) => Reading  BY DEF IsOpen, TypeOK, Reading
    <2> QED  BY <2>1, <2>2
  <1>5. DOMAIN wire = {}  BY DEF Quiet
  <1>6. mirror <=> Reading  BY <1>2, <1>5 DEF Told, MirrorIsRight
  <1> QED  BY <1>3, <1>4, <1>6

\* With one port: whenever all is at rest, the port is closed or it is the one
\* that the service's console reads, so that nobody holds it for ever.
THEOREM NoLeakAlways == ASSUME OnePort PROVE Spec => []NoLeak
  <1>1. TypeOK /\ Held => NoLeak  BY HeldHasNoLeak DEF NoLeak
  <1> QED  BY <1>1, HeldTold, PTL

\* With one port: whenever all is at rest, the service's state is its console's,
\* and the bridge, which was told of it in replies, events and statuses read at
\* other times, has it too.
THEOREM StatesSettleAlways == ASSUME OnePort PROVE Spec => []StatesSettle
  <1>1. TypeOK /\ Held /\ Told => StatesSettle  BY ToldSettles
  <1> QED  BY <1>1, HeldTold, PTL

=============================================================================
