------------------------------- MODULE GdbProofs ------------------------------
(***************************************************************************)
(* Proofs about the GDB server and the probe service below it: types, the  *)
(* poller and what the service believes of the processor; then the memory  *)
(* cache and the release of the target.  These two rest on the probe       *)
(* client's chain: one call at a time is with the worker, it is the head of *)
(* the chain, and what is left of it is known.                             *)
(***************************************************************************)
EXTENDS GdbServer, TLAPS

-----------------------------------------------------------------------------
(* Sequences *)

\* The head and the tail of a sequence are of its kind.
LEMMA HeadTail ==
    ASSUME NEW S, NEW q \in Seq(S), q # <<>>
    PROVE  Head(q) \in S /\ Tail(q) \in Seq(S)
  OBVIOUS

\* So is a longer one.
LEMMA AppendType ==
    ASSUME NEW S, NEW q \in Seq(S), NEW e \in S
    PROVE  Append(q, e) \in Seq(S)
  OBVIOUS

LEMMA ConcatType ==
    ASSUME NEW S, NEW q \in Seq(S), NEW a \in S, NEW b \in S
    PROVE  q \o <<a, b>> \in Seq(S)
  OBVIOUS

\* The jobs that are no calls, and the calls.
LEMMA JobType ==
    /\ \A k \in Kinds \ {"call"} : Job(k) \in Jobs
    /\ \A ops \in Seq(Ops) : ops # <<>> => Call(ops) \in Jobs
  BY DEF Job, Call, Jobs, Kinds

\* Polls of an earlier generation stay jobs.
LEMMA OutdatedType ==
    ASSUME NEW q \in Seq(Jobs)
    PROVE  Outdated(q) \in Seq(Jobs)
  <1>1. Job("stale") \in Jobs
    BY JobType DEF Kinds
  <1> QED BY <1>1 DEF Outdated

\* A sequence with at least two elements has a tail.
LEMMA LongTail ==
    ASSUME NEW S, NEW q \in Seq(S), q # <<>>, Len(q) # 1
    PROVE  Tail(q) \in Seq(S) /\ Tail(q) # <<>>
  <1>1. Tail(q) \in Seq(S) /\ Len(Tail(q)) = Len(q) - 1 /\ Len(q) \in Nat
    OBVIOUS
  <1>2. Len(q) # 0
    OBVIOUS
  <1>3. Len(Tail(q)) # 0
    BY <1>1, <1>2
  <1>4. Len(<<>>) = 0
    OBVIOUS
  <1> QED BY <1>1, <1>3, <1>4

\* What is left of the mutex after an operation.
LEMMA RestType ==
    ASSUME mutex \in Seq(Jobs), Working("call"), NEW ok \in BOOLEAN
    PROVE  Rest(ok) \in Seq(Jobs)
  <1> DEFINE h == Head(mutex)
  <1>1. mutex # <<>> /\ h \in Jobs /\ Tail(mutex) \in Seq(Jobs) /\ h.kind = "call"
    BY HeadTail DEF Working
  <1>2. CASE Ends(ok)
    BY <1>1, <1>2 DEF Rest
  <1>3. CASE ~Ends(ok)
    <2>1. h.ops \in Seq(Ops) /\ h.ops # <<>> /\ Len(h.ops) # 1
      BY <1>1, <1>3 DEF Jobs, Ends
    <2>2. Tail(h.ops) \in Seq(Ops) /\ Tail(h.ops) # <<>>
      <3> HIDE DEF h
      <3> QED BY <2>1, LongTail
    <2>3. Call(Tail(h.ops)) \in Jobs
      BY <2>2, JobType
    <2>4. Rest(ok) = <<Call(Tail(h.ops))>> \o Tail(mutex)
      BY <1>3 DEF Rest
    <2> HIDE DEF h
    <2> QED BY <1>1, <2>3, <2>4
  <1> QED BY <1>2, <1>3

LEMMA MessageType ==
    /\ \A ok \in BOOLEAN : Reply(ok) \in Messages
    /\ \A t \in {"halted", "usb-connect", "usb-disconnect"} : Event(t) \in Messages
  BY DEF Messages

-----------------------------------------------------------------------------
(* Types *)

PollerType == poller \in {"off", "timer", "queued"} /\ pollTimer \in BOOLEAN
              /\ stray \in BOOLEAN

\* Whatever is done with the poller, it and the mutex are of their types.
LEMMA PollerStep ==
    ASSUME PollerType, NEW q \in Seq(Jobs),
           StopPoller(q) \/ StartPoller(q) \/ RestartPoller(q) \/ LeavePoller(q)
    PROVE  PollerType' /\ mutex' \in Seq(Jobs)
  <1>1. Outdated(q) \in Seq(Jobs)
    BY OutdatedType
  <1> QED BY <1>1 DEF PollerType, StopPoller, StartPoller, RestartPoller,
                      LeavePoller, polling, Orphan

\* What an operation has to say is of its type.
LEMMA AnswerStep ==
    ASSUME wire \in Seq(Messages), NEW ok \in BOOLEAN, Answers(ok)
    PROVE  wire' \in Seq(Messages)
  BY MessageType, AppendType DEF Answers

\* A call keeps the types.
LEMMA CallTypes ==
    ASSUME ProbeTypeOK, NEW o \in Ops,
           Halts(o) \/ Starts(o) \/ Accesses(o) \/ Refused(o) \/ NoDevice(o)
             \/ Breaks(o) \/ GetState
    PROVE  ProbeTypeOK'
  <1> USE DEF ProbeTypeOK
  <1>0. Working("call") /\ PollerType
    BY DEF Halts, Starts, Accesses, Refused, NoDevice, Breaks, GetState,
           Reaches, AtOp, PollerType
  <1>r. \A ok \in BOOLEAN : Rest(ok) \in Seq(Jobs)
    BY <1>0, RestType
  <1>1. CASE Halts(o)
    <2>1. StopPoller(Rest(TRUE)) /\ Answers(TRUE)
      BY <1>1 DEF Halts
    <2>2. PollerType' /\ mutex' \in Seq(Jobs) /\ wire' \in Seq(Messages)
      BY <2>1, <1>0, <1>r, PollerStep, AnswerStep
    <2>3. astray' \in BOOLEAN
      BY <1>1 DEF Halts, Strayed
    <2> QED BY <1>1, <2>2, <2>3 DEF Halts, PollerType
  <1>2. CASE Starts(o)
    <2>1. (StartPoller(Rest(TRUE)) \/ RestartPoller(Rest(TRUE))) /\ Answers(TRUE)
      BY <1>2 DEF Starts
    <2>2. PollerType' /\ mutex' \in Seq(Jobs) /\ wire' \in Seq(Messages)
      BY <2>1, <1>0, <1>r, PollerStep, AnswerStep
    <2> QED BY <1>2, <2>2 DEF Starts, PollerType
  <1>3. CASE Accesses(o)
    <2>1. LeavePoller(Rest(TRUE)) /\ Answers(TRUE)
      BY <1>3 DEF Accesses
    <2>2. PollerType' /\ mutex' \in Seq(Jobs) /\ wire' \in Seq(Messages)
      BY <2>1, <1>0, <1>r, PollerStep, AnswerStep
    <2>3. armed' \in BOOLEAN /\ astray' \in BOOLEAN
      BY <1>3 DEF Accesses, Strayed
    <2> QED BY <1>3, <2>2, <2>3 DEF Accesses, PollerType
  <1>4. CASE Refused(o)
    <2>1. (StopPoller(Rest(FALSE)) \/ LeavePoller(Rest(FALSE))) /\ Answers(FALSE)
      BY <1>4 DEF Refused
    <2>2. PollerType' /\ mutex' \in Seq(Jobs) /\ wire' \in Seq(Messages)
      BY <2>1, <1>0, <1>r, PollerStep, AnswerStep
    <2>3. core' \in {"run", "halt", "off"} /\ armed' \in BOOLEAN /\ astray' \in BOOLEAN
      BY <1>4 DEF Refused, Perhaps, Strayed
    <2> QED BY <1>4, <2>2, <2>3 DEF Refused, PollerType
  <1>5. CASE NoDevice(o)
    <2>1. LeavePoller(Rest(FALSE)) /\ Answers(FALSE)
      BY <1>5 DEF NoDevice
    <2>2. PollerType' /\ mutex' \in Seq(Jobs) /\ wire' \in Seq(Messages)
      BY <2>1, <1>0, <1>r, PollerStep, AnswerStep
    <2> QED BY <1>5, <2>2 DEF NoDevice, PollerType
  <1>6. CASE Breaks(o)
    <2>1. StopPoller(Rest(FALSE))
      BY <1>6 DEF Breaks
    <2>2. PollerType' /\ mutex' \in Seq(Jobs)
      BY <2>1, <1>0, <1>r, PollerStep
    <2>3. wire' \in Seq(Messages)
      <3>1. Event("usb-disconnect") \in Messages /\ Reply(FALSE) \in Messages
        BY MessageType
      <3>2. wire' = wire \o <<Event("usb-disconnect"), Reply(FALSE)>>
        BY <1>6 DEF Breaks
      <3>3. wire \o <<Event("usb-disconnect"), Reply(FALSE)>> \in Seq(Messages)
        BY <3>1, ConcatType
      <3> QED BY <3>2, <3>3
    <2> QED BY <1>6, <2>2, <2>3 DEF Breaks, PollerType
  <1>7. CASE GetState
    <2>1. (StopPoller(Rest(TRUE)) \/ StartPoller(Rest(TRUE)) \/ LeavePoller(Rest(TRUE)))
            /\ Answers(TRUE)
      BY <1>7 DEF GetState
    <2>2. PollerType' /\ mutex' \in Seq(Jobs) /\ wire' \in Seq(Messages)
      BY <2>1, <1>0, <1>r, PollerStep, AnswerStep
    <2> QED BY <1>7, <2>2 DEF GetState, PollerType
  <1> QED BY <1>1, <1>2, <1>3, <1>4, <1>5, <1>6, <1>7

\* A poll keeps them.
LEMMA PollTypes ==
    ASSUME ProbeTypeOK, Polls \/ PollRefused \/ PollBreaks \/ PollSkips \/ StalePoll
    PROVE  ProbeTypeOK'
  <1> USE DEF ProbeTypeOK
  <1>0. mutex # <<>> /\ PollerType
    BY DEF Polls, PollRefused, PollBreaks, PollSkips, StalePoll, Working, PollerType
  <1>t. Tail(mutex) \in Seq(Jobs)
    BY <1>0, HeadTail
  <1>1. CASE Polls
    <2>1. wire' \in Seq(Messages)
      BY <1>1, MessageType, AppendType DEF Polls
    <2> QED BY <1>1, <1>t, <2>1 DEF Polls
  <1>2. CASE PollRefused
    BY <1>2, <1>t DEF PollRefused
  <1>3. CASE PollBreaks
    <2>1. PollerType' /\ mutex' \in Seq(Jobs)
      BY <1>0, <1>3, <1>t, PollerStep DEF PollBreaks
    <2>2. wire' \in Seq(Messages)
      BY <1>3, MessageType, AppendType DEF PollBreaks
    <2> QED BY <1>3, <2>1, <2>2 DEF PollBreaks, PollerType
  <1>4. CASE PollSkips
    BY <1>4, <1>t DEF PollSkips
  <1>5. CASE StalePoll
    BY <1>5, <1>t DEF StalePoll
  <1> QED BY <1>1, <1>2, <1>3, <1>4, <1>5

\* Attaching, detaching, timers, the browser's events and the world keep them.
LEMMA OtherTypes ==
    ASSUME ProbeTypeOK,
           Attaches \/ Attached \/ Detaches \/ Goes \/ TimerFires \/ StrayFires
             \/ DisconnectEvent \/ ConnectEvent \/ World
    PROVE  ProbeTypeOK'
  <1> USE DEF ProbeTypeOK
  <1>0. PollerType
    BY DEF PollerType
  <1>w. \A was, t : t \in {"none", "usb-connect"} => Told(was, t) \in Seq(Messages)
    BY MessageType DEF Told
  <1>m. ASSUME NEW k, mutex # <<>> PROVE Tail(mutex) \in Seq(Jobs)
    BY <1>m, HeadTail
  <1>j. \A k \in Kinds \ {"call"} : Append(mutex, Job(k)) \in Seq(Jobs)
    BY JobType, AppendType
  <1>1. CASE Attaches
    <2>1. StopPoller(Tail(mutex)) \/ RestartPoller(Tail(mutex))
      BY <1>1 DEF Attaches
    <2>2. PollerType' /\ mutex' \in Seq(Jobs)
      BY <1>0, <1>1, <1>m, <2>1, PollerStep DEF Attaches, Working
    <2>3. wire' \in Seq(Messages)
      BY <1>1, <1>w DEF Attaches
    <2> QED BY <1>1, <2>2, <2>3 DEF Attaches, PollerType
  <1>2. CASE Attached
    BY <1>2, <1>m DEF Attached, LeavePoller, polling, Working
  <1>3. CASE Detaches
    <2>1. PollerType' /\ mutex' \in Seq(Jobs)
      BY <1>0, <1>3, <1>m, PollerStep DEF Detaches, Working
    <2>2. wire' \in Seq(Messages)
      BY <1>3, <1>w DEF Detaches
    <2> QED BY <1>3, <2>1, <2>2 DEF Detaches, PollerType
  <1>4. CASE Goes
    <2>1. wire' \in Seq(Messages)
      BY <1>4, MessageType, AppendType DEF Goes
    <2> QED BY <1>4, <1>m, <2>1 DEF Goes, LeavePoller, polling, Working
  <1>5. CASE TimerFires
    BY <1>5, <1>j DEF TimerFires, Kinds
  <1>6. CASE StrayFires
    BY <1>6 DEF StrayFires
  <1>7. CASE DisconnectEvent
    <2>1. PollerType' /\ mutex' \in Seq(Jobs)
      BY <1>0, <1>7, <1>j, PollerStep DEF DisconnectEvent, Kinds
    <2>2. events' \in Seq({"connect", "disconnect"})
      BY <1>7, HeadTail DEF DisconnectEvent
    <2> QED BY <1>7, <2>1, <2>2 DEF DisconnectEvent, PollerType
  <1>8. CASE ConnectEvent
    <2>1. mutex' \in Seq(Jobs)
      BY <1>8, <1>j DEF ConnectEvent, Requests, Kinds
    <2>2. events' \in Seq({"connect", "disconnect"})
      BY <1>8, HeadTail DEF ConnectEvent
    <2> QED BY <1>8, <2>1, <2>2 DEF ConnectEvent, polling
  <1>9. CASE World
    <2>1. mutex' \in Seq(Jobs)
      BY <1>9, <1>j DEF World, Unplug, Plug, Hit, UserAsks, Requests, Kinds
    <2>2. events' \in Seq({"connect", "disconnect"})
      BY <1>9, AppendType DEF World, Unplug, Plug, Hit, UserAsks
    <2> QED BY <1>9, <2>1, <2>2 DEF World, Unplug, Plug, Hit, UserAsks, polling
  <1> QED BY <1>1, <1>2, <1>3, <1>4, <1>5, <1>6, <1>7, <1>8, <1>9

\* The probe's part of a step.
ProbeStep ==
    Work \/ TimerFires \/ StrayFires \/ DisconnectEvent \/ ConnectEvent \/ World

LEMMA ProbeTypes == ProbeTypeOK /\ ProbeStep => ProbeTypeOK'
  BY CallTypes, PollTypes, OtherTypes DEF ProbeStep, Work, Ops

\* The handlers call the probe with sequences of its operations.
LEMMA StepsType ==
    /\ \A c \in AllCmds \ {"drop"} : Steps[c][1] \in Seq(Ops) /\ Steps[c][1] # <<>>
    /\ \A c \in {"reset", "k"} : Steps[c][2] \in Seq(Ops) /\ Steps[c][2] # <<>>
    /\ Release(TRUE) \in Seq(Ops) /\ Release(TRUE) # <<>>
  <1>1. \A o \in Ops : <<o>> \in Seq(Ops) /\ <<o>> # <<>>
    OBVIOUS
  <1>2. \A a, b \in Ops : <<a, b>> \in Seq(Ops) /\ <<a, b>> # <<>>
    OBVIOUS
  <1>3. \A a, b, c \in Ops : <<a, b, c>> \in Seq(Ops) /\ <<a, b, c>> # <<>>
    OBVIOUS
  <1>o. "clearAll" \in Ops /\ "catchOff" \in Ops /\ "run" \in Ops
    BY DEF Ops, Starting, Access, Arming
  <1>4. Release(TRUE) \in Seq(Ops) /\ Release(TRUE) # <<>>
    BY <1>3, <1>o DEF Release
  <1>5. Release(FALSE) \in Seq(Ops) /\ Release(FALSE) # <<>>
    BY <1>2, <1>o DEF Release
  <1>6. ASSUME NEW c \in AllCmds \ {"drop"}
        PROVE  Steps[c][1] \in Seq(Ops) /\ Steps[c][1] # <<>>
    BY <1>1, <1>4, <1>5, <1>6 DEF Steps, AllCmds, Ops, Halting, Starting, Access, Arming
  <1>7. ASSUME NEW c \in {"reset", "k"}
        PROVE  Steps[c][2] \in Seq(Ops) /\ Steps[c][2] # <<>>
    BY <1>1, <1>7 DEF Steps, AllCmds, Ops, Halting, Starting, Access, Arming
  <1> QED BY <1>4, <1>6, <1>7

LEMMA CallsType ==
    ASSUME chain \in Seq(Requested), NEW by \in Callers,
           NEW ops \in Seq(Ops), ops # <<>>
    PROVE  /\ Append(chain, [by |-> by, ops |-> ops]) \in Seq(Requested)
           /\ Append(Tail(chain), [by |-> by, ops |-> ops]) \in Seq(Requested)
           /\ Tail(chain) \in Seq(Requested)
  <1>1. [by |-> by, ops |-> ops] \in Requested
    BY DEF Requested
  <1>2. Tail(chain) \in Seq(Requested)
    <2>1. CASE chain = <<>>
      BY <2>1
    <2>2. CASE chain # <<>>
      BY <2>2, HeadTail
    <2> QED BY <2>1, <2>2
  <1> QED BY <1>1, <1>2, AppendType

\* A message taken off the wire leaves the probe's types.
LEMMA ReceivesTypes ==
    ASSUME ProbeTypeOK, NEW type, Receives(type)
    PROVE  ProbeTypeOK'
  <1>1. wire' \in Seq(Messages)
    BY HeadTail DEF ProbeTypeOK, Receives
  <1> QED BY <1>1 DEF ProbeTypeOK, Receives, polling

\* The result of a call, and what its caller does to the session.
LEMMA ResultTypes ==
    ASSUME TypeOK, NEW by, NEW ok \in BOOLEAN, Result(by, ok)
    PROVE  /\ ProbeTypeOK' /\ sent' \in BOOLEAN /\ held' \in BOOLEAN
           /\ chain # <<>> /\ Tail(chain) \in Seq(Requested)
  <1>1. ProbeTypeOK'
    BY ReceivesTypes DEF Result, TypeOK
  <1>2. Tail(chain) \in Seq(Requested)
    BY HeadTail DEF Result, TypeOK
  <1> QED BY <1>1, <1>2 DEF Result, TypeOK

LEMMA HandledTypes ==
    ASSUME TypeOK, queue # <<>>
    PROVE  Tail(queue) \in Seq(AllCmds \ {"drop"})
  BY HeadTail DEF TypeOK

\* The handlers' last steps keep the types.
LEMMA AnsweredTypes ==
    ASSUME TypeOK, NEW ok \in BOOLEAN, NEW c \in AllCmds,
           \/ Resumed(ok) \/ Stepped(ok) \/ Read(ok) \/ HaltedAgain(ok)
           \/ Interrupted(ok) \/ Killed(ok)
           \/ Wrote(c, ok) \/ Monitored(c, ok) \/ Detached(c, ok)
    PROVE  TypeOK'
  <1>1. PICK d \in AllCmds : Answered(d, ok) /\ Handled
    BY DEF Resumed, Stepped, Read, HaltedAgain, Interrupted, Killed, Wrote,
           Monitored, Detached, AllCmds
  <1>2. queue # <<>> /\ Result("handler", ok) /\ chain' = Tail(chain)
    BY <1>1 DEF Answered, Handling
  <1>3. ProbeTypeOK' /\ sent' \in BOOLEAN /\ held' \in BOOLEAN
        /\ chain' \in Seq(Requested)
    BY <1>2, ResultTypes
  <1>4. queue' \in Seq(AllCmds \ {"drop"}) /\ at' = 0
    BY <1>1, <1>2, HandledTypes DEF Handled
  <1>5. /\ conn' \in {"none", "open", "ended", "down", "over"}
        /\ web' = web /\ left' = left /\ freed' = freed
    BY DEF TypeOK, Resumed, Stepped, Read, HaltedAgain, Interrupted, Killed, Wrote,
           Monitored, Detached, Rested
  <1>6. running' \in BOOLEAN
    BY DEF TypeOK, Resumed, Stepped, Read, HaltedAgain, Interrupted, Killed, Wrote,
           Monitored, Detached
  <1>7. cache' \in {"none", "fresh", "stale"}
    BY DEF TypeOK, Resumed, Stepped, Read, HaltedAgain, Interrupted, Killed, Wrote,
           Monitored, Detached, Kept, Invalidated
  <1>8. gdb' \in {"nothing", "answer", "stop", "over"}
    BY DEF TypeOK, Resumed, Stepped, Read, HaltedAgain, Interrupted, Killed, Wrote,
           Monitored, Detached, Replies, Stops, Fails, Silent
  <1> QED BY <1>3, <1>4, <1>5, <1>6, <1>7, <1>8 DEF TypeOK

\* So do the steps after which a handler, or the controller, calls again,
\* and the ends of the calls outside the queue.
LEMMA OtherResultTypes ==
    ASSUME TypeOK, NEW ok \in BOOLEAN,
           Restarted(ok) \/ KillResets(ok) \/ Released(ok) \/ Started(ok) \/ WebResult(ok)
    PROVE  TypeOK'
  <1>1. PICK by \in Callers : Result(by, ok)
    BY DEF Restarted, KillResets, Released, Started, WebResult, Callers
  <1>2. ProbeTypeOK' /\ sent' \in BOOLEAN /\ held' \in BOOLEAN
        /\ Tail(chain) \in Seq(Requested)
    BY <1>1, ResultTypes
  <1>c. chain \in Seq(Requested)
    BY DEF TypeOK
  <1>3. CASE Restarted(ok)
    <2>1. Append(Tail(chain), [by |-> "handler", ops |-> Steps["reset"][2]]) \in Seq(Requested)
      BY <1>c, CallsType, StepsType DEF Callers
    <2>2. chain' \in Seq(Requested)
      BY <1>2, <1>3, <2>1 DEF Restarted
    <2>3. queue # <<>>
      BY <1>3 DEF Restarted, Handling
    <2>4. queue' \in Seq(AllCmds \ {"drop"}) /\ at' \in 0 .. 2
      <3>1. Tail(queue) \in Seq(AllCmds \ {"drop"})
        BY <2>3, HandledTypes
      <3>2. \/ queue' = queue /\ at' = 2
            \/ queue' = Tail(queue) /\ at' = 0
        BY <1>3, Zenon DEF Restarted, Handled
      <3> QED BY <3>1, <3>2 DEF TypeOK
    <2> QED BY <1>2, <1>3, <2>2, <2>4
            DEF Restarted, TypeOK, Invalidated, Rested, Replies
  <1>4. CASE KillResets(ok)
    <2>1. Append(Tail(chain), [by |-> "handler", ops |-> Steps["k"][2]]) \in Seq(Requested)
      BY <1>c, CallsType, StepsType DEF Callers
    <2>2. chain' \in Seq(Requested)
      BY <1>4, <2>1 DEF KillResets
    <2> QED BY <1>2, <1>4, <2>2 DEF KillResets, TypeOK
  <1>5. CASE Released(ok)
    BY <1>2, <1>5 DEF Released, TypeOK
  <1>6. CASE Started(ok)
    BY <1>2, <1>6 DEF Started, TypeOK
  <1>7. CASE WebResult(ok)
    <2>1. <<"resetRun">> \in Seq(Ops) /\ <<"resetRun">> # <<>>
      BY DEF Ops, Starting
    <2>2. Append(Tail(chain), [by |-> "web", ops |-> <<"resetRun">>]) \in Seq(Requested)
      BY <1>c, <2>1, CallsType DEF Callers
    <2>3. chain' \in Seq(Requested)
      BY <1>2, <1>7, <2>2 DEF WebResult
    <2> QED BY <1>2, <1>7, <2>3 DEF WebResult, TypeOK
  <1> QED BY <1>3, <1>4, <1>5, <1>6, <1>7

\* Events, and packets as they are taken up.
LEMMA TurnTypes ==
    ASSUME TypeOK,
           Turns \/ HaltedEvent \/ \E t \in {"usb-connect", "usb-disconnect"} : UsbEvent(t)
    PROVE  TypeOK'
  <1>1. ASSUME NEW c \in AllCmds, Begins(c) PROVE TypeOK'
    <2>1. c \in AllCmds \ {"drop"}
      BY <1>1, HeadTail DEF Begins, TypeOK
    <2>2. Steps[c][1] \in Seq(Ops) /\ Steps[c][1] # <<>>
      BY <2>1, StepsType
    <2>3. chain' \in Seq(Requested)
      BY <1>1, <2>2, CallsType DEF Begins, Calls, TypeOK, Callers
    <2>4. ProbeTypeOK'
      BY <1>1 DEF Begins, TypeOK, ProbeTypeOK, probeVars, polling
    <2> QED BY <1>1, <2>3, <2>4 DEF Begins, TypeOK, Invalidated, Kept, history
  <1>2. CASE ReadsCache
    <2>1. queue' \in Seq(AllCmds \ {"drop"}) /\ at' = 0
      BY <1>2, HandledTypes DEF ReadsCache, Handled
    <2>2. ProbeTypeOK'
      BY <1>2 DEF ReadsCache, TypeOK, ProbeTypeOK, probeVars, polling
    <2> QED BY <1>2, <2>1, <2>2 DEF ReadsCache, TypeOK, Replies, history
  <1>3. CASE IgnoresInterrupt
    <2>1. queue' \in Seq(AllCmds \ {"drop"}) /\ at' = 0
      BY <1>3, HandledTypes DEF IgnoresInterrupt, Handled
    <2>2. ProbeTypeOK'
      BY <1>3 DEF IgnoresInterrupt, TypeOK, ProbeTypeOK, probeVars, polling
    <2> QED BY <1>3, <2>1, <2>2 DEF IgnoresInterrupt, TypeOK, history
  <1>4. CASE HaltedEvent
    <2>1. ProbeTypeOK'
      BY <1>4, ReceivesTypes DEF HaltedEvent, TypeOK
    <2>2. /\ running' = FALSE \/ running' = running
          /\ cache' = "none" \/ cache' = cache
          /\ gdb' = "nothing" \/ gdb' = gdb
      BY <1>4, Zenon DEF HaltedEvent, Invalidated, Stops
    <2>3. UNCHANGED <<chain, sent, conn, queue, at, web, left, freed, held>>
      BY <1>4, Zenon DEF HaltedEvent, history
    <2>4. running' \in BOOLEAN
      BY <2>2 DEF TypeOK
    <2>5. cache' \in {"none", "fresh", "stale"} /\ gdb' \in {"nothing", "answer", "stop", "over"}
      BY <2>2 DEF TypeOK
    <2> QED BY <2>1, <2>3, <2>4, <2>5 DEF TypeOK
  <1>5. ASSUME NEW type, UsbEvent(type) PROVE TypeOK'
    <2>1. ProbeTypeOK'
      BY <1>5, ReceivesTypes DEF UsbEvent, TypeOK
    <2>2. /\ running' = FALSE \/ running' = running
          /\ gdb' = "nothing" \/ gdb' = gdb
      BY <1>5, Zenon DEF UsbEvent, Stops
    <2>3. UNCHANGED <<chain, sent, cache, conn, queue, at, web, left, freed, held>>
      BY <1>5, Zenon DEF UsbEvent, history
    <2>4. running' \in BOOLEAN
      BY <2>2 DEF TypeOK
    <2>5. gdb' \in {"nothing", "answer", "stop", "over"}
      BY <2>2 DEF TypeOK
    <2> QED BY <2>1, <2>3, <2>4, <2>5 DEF TypeOK
  <1> QED BY <1>1, <1>2, <1>3, <1>4, <1>5 DEF Turns

\* Sockets, GDB and the controller.
LEMMA RequestTypes ==
    ASSUME TypeOK,
           \/ Sends \/ Connect \/ Drops \/ GdbInterrupts
           \/ (\E c \in AllCmds : GdbSends(c)) \/ (\E o \in WebOps : WebCalls(o))
    PROVE  TypeOK'
  <1>p. ASSUME UNCHANGED probeVars PROVE ProbeTypeOK'
    BY <1>p DEF TypeOK, ProbeTypeOK, probeVars, polling
  <1>c. chain \in Seq(Requested)
    BY DEF TypeOK
  <1>1. CASE Sends
    <2>1. Head(chain).ops \in Seq(Ops) /\ Head(chain).ops # <<>>
      BY <1>1, <1>c, HeadTail DEF Sends, Requested
    <2>2. Call(Head(chain).ops) \in Jobs
      BY <2>1, JobType
    <2>3. mutex' \in Seq(Jobs)
      BY <1>1, <2>2, AppendType DEF Sends, LeavePoller, TypeOK, ProbeTypeOK
    <2> QED BY <1>1, <2>3
            DEF Sends, LeavePoller, TypeOK, ProbeTypeOK, polling, sessVars, history
  <1>2. CASE Connect
    <2>1. \A a, b, c \in Ops : <<a, b, c>> \in Seq(Ops) /\ <<a, b, c>> # <<>>
      OBVIOUS
    <2>2. "halt" \in Ops /\ "clearAll" \in Ops /\ "catchOn" \in Ops
      BY DEF Ops, Halting, Access, Arming
    <2>3. chain' \in Seq(Requested)
      BY <1>2, <1>c, <2>1, <2>2, CallsType DEF Connect, Calls, Callers
    <2> QED BY <1>2, <1>p, <2>3 DEF Connect, TypeOK, Invalidated
  <1>3. CASE Drops
    <2>1. chain' \in Seq(Requested)
      BY <1>3, <1>c, StepsType, CallsType DEF Drops, Calls, Callers
    <2> QED BY <1>3, <1>p, <2>1 DEF Drops, TypeOK
  <1>4. CASE GdbInterrupts
    <2>1. queue' \in Seq(AllCmds \ {"drop"})
      BY <1>4, AppendType DEF GdbInterrupts, TypeOK, AllCmds
    <2> QED BY <1>4, <1>p, <2>1 DEF GdbInterrupts, TypeOK, history
  <1>5. ASSUME NEW c \in AllCmds, GdbSends(c) PROVE TypeOK'
    <2>1. queue' \in Seq(AllCmds \ {"drop"})
      BY <1>5, AppendType DEF GdbSends, TypeOK
    <2> QED BY <1>5, <1>p, <2>1 DEF GdbSends, TypeOK, history
  <1>6. ASSUME NEW o \in WebOps, WebCalls(o) PROVE TypeOK'
    <2>1. <<o>> \in Seq(Ops) /\ <<o>> # <<>>
      BY GdbAssumption DEF Ops, Halting, Starting
    <2>2. chain' \in Seq(Requested)
      BY <1>6, <1>c, <2>1, CallsType DEF WebCalls, Calls, Callers
    <2> QED BY <1>6, <1>p, <2>2 DEF WebCalls, TypeOK, history
  <1> QED BY <1>1, <1>2, <1>3, <1>4, <1>5, <1>6

\* What the probe does, with what the session's history notes of it.
LEMMA ByProbeTypes ==
    ASSUME TypeOK,
           \/ ByProbe(Work) \/ ByProbe(TimerFires) \/ ByProbe(StrayFires)
           \/ ByProbe(DisconnectEvent) \/ ByProbe(ConnectEvent) \/ ByProbe(World)
    PROVE  TypeOK'
  <1>1. ProbeTypeOK'
    BY ProbeTypes DEF TypeOK, ByProbe, ProbeStep
  <1> QED BY <1>1 DEF TypeOK, ProbeTypeOK, ByProbe, Aged

\* Everything keeps its type: in particular, the worker is never asked for an
\* empty call, and no handler runs past its last call.
THEOREM GdbTypeCorrect == Spec => []TypeOK
  <1>1. Init => TypeOK
    <2>1. <<"connect">> \in Seq({"connect", "disconnect"})
      OBVIOUS
    <2>2. ProbeInit => ProbeTypeOK
      <3>1. <<>> \in Seq(Jobs) /\ <<>> \in Seq(Messages)
        OBVIOUS
      <3> QED BY <2>1, <3>1 DEF ProbeInit, ProbeTypeOK
    <2>3. <<>> \in Seq(Requested) /\ <<>> \in Seq(AllCmds \ {"drop"})
      OBVIOUS
    <2>4. Init => chain \in Seq(Requested) /\ queue \in Seq(AllCmds \ {"drop"}) /\ ProbeTypeOK
      BY <2>2, <2>3 DEF Init
    <2>5. Init => sent \in BOOLEAN /\ running \in BOOLEAN /\ freed \in BOOLEAN /\ held \in BOOLEAN
      BY DEF Init
    <2>6. Init => /\ at = 0 /\ conn = "none" /\ cache = "none" /\ gdb = "nothing"
                  /\ web = "none" /\ left = "open"
      BY DEF Init
    <2> QED BY <2>4, <2>5, <2>6 DEF TypeOK
  <1>2. TypeOK /\ [Next]_vars => TypeOK'
    <2> SUFFICES ASSUME TypeOK, [Next]_vars PROVE TypeOK'
      OBVIOUS
    <2>1. CASE Arrives
      <3>1. ASSUME NEW ok \in BOOLEAN,
                   \/ Resumed(ok) \/ Stepped(ok) \/ Read(ok) \/ HaltedAgain(ok)
                   \/ Interrupted(ok) \/ Killed(ok)
            PROVE  TypeOK'
        BY <3>1, AnsweredTypes DEF AllCmds
      <3>2. ASSUME NEW ok \in BOOLEAN, NEW c \in AllCmds,
                   Wrote(c, ok) \/ Monitored(c, ok) \/ Detached(c, ok)
            PROVE  TypeOK'
        BY <3>2, AnsweredTypes
      <3> QED BY <2>1, <3>1, <3>2, OtherResultTypes, TurnTypes DEF Arrives
    <2>2. CASE UNCHANGED vars
      BY <2>2 DEF vars, probeVars, polling, sessVars, history, TypeOK, ProbeTypeOK
    <2> QED BY <2>1, <2>2, ByProbeTypes, TurnTypes, RequestTypes DEF Next
  <1> QED BY <1>1, <1>2, PTL DEF Spec

-----------------------------------------------------------------------------
(* The poller *)

\* A poll, or the job that says the device is gone, waits.
Waits(q) == \E i \in DOMAIN q : q[i].kind \in {"poll", "gone"}

\* pollTimer is the timer of the current generation, if any.
HandleRight == pollTimer => poller = "timer"

LEMMA WaitsTail ==
    ASSUME NEW S, NEW q \in Seq(S), q # <<>>, Waits(q), Head(q).kind \notin {"poll", "gone"}
    PROVE  Waits(Tail(q))
  <1>1. PICK i \in 1 .. Len(q) : q[i].kind \in {"poll", "gone"}
    BY DEF Waits
  <1>2. i # 1
    BY <1>1
  <1>3. i - 1 \in 1 .. Len(q) - 1
    BY <1>2
  <1>4. DOMAIN Tail(q) = 1 .. Len(q) - 1 /\ Tail(q)[i - 1] = q[i]
    BY <1>3
  <1> QED BY <1>1, <1>3, <1>4 DEF Waits

LEMMA WaitsAppend ==
    ASSUME NEW S, NEW q \in Seq(S), NEW j \in S
    PROVE  /\ Waits(q) => Waits(Append(q, j))
           /\ j.kind \in {"poll", "gone"} => Waits(Append(q, j))
  <1>1. /\ DOMAIN Append(q, j) = 1 .. Len(q) + 1
        /\ Append(q, j)[Len(q) + 1] = j
        /\ \A i \in 1 .. Len(q) : Append(q, j)[i] = q[i]
    OBVIOUS
  <1> QED BY <1>1 DEF Waits

LEMMA WaitsRest ==
    ASSUME mutex \in Seq(Jobs), Working("call"), Waits(mutex), NEW ok \in BOOLEAN
    PROVE  Waits(Rest(ok))
  <1>1. Tail(mutex) \in Seq(Jobs) /\ Waits(Tail(mutex))
    BY HeadTail, WaitsTail DEF Working
  <1>2. CASE Ends(ok)
    BY <1>1, <1>2 DEF Rest
  <1>3. CASE ~Ends(ok)
    <2> DEFINE r == <<Call(Tail(Head(mutex).ops))>> \o Tail(mutex)
    <2>1. PICK i \in DOMAIN Tail(mutex) : Tail(mutex)[i].kind \in {"poll", "gone"}
      BY <1>1 DEF Waits
    <2>2. i + 1 \in DOMAIN r /\ r[i + 1] = Tail(mutex)[i]
      BY <1>1
    <2>3. Waits(r)
      BY <2>1, <2>2 DEF Waits
    <2> QED BY <1>3, <2>3 DEF Rest
  <1> QED BY <1>2, <1>3

\* "gone" is not outdated.
LEMMA GoneStays ==
    ASSUME NEW q \in Seq(Jobs)
    PROVE  Waits(Outdated(Append(q, Job("gone"))))
  <1> DEFINE a == Append(q, Job("gone"))
  <1>1. Job("gone") \in Jobs
    BY JobType DEF Kinds
  <1>2. Len(q) + 1 \in DOMAIN a /\ a[Len(q) + 1] = Job("gone")
    BY <1>1
  <1>3. Job("gone") # Job("poll") /\ Job("gone").kind = "gone"
    BY DEF Job
  <1>4. Outdated(a)[Len(q) + 1] = Job("gone") /\ DOMAIN Outdated(a) = DOMAIN a
    BY <1>2, <1>3 DEF Outdated
  <1> HIDE DEF a
  <1>5. Waits(Outdated(a))
    BY <1>2, <1>3, <1>4 DEF Waits
  <1> QED BY <1>5 DEF a

\* Leaving the poller alone, or starting it, loses nothing.
LEMMA PollerKept ==
    ASSUME HandleRight, PollerAlive, NEW q, Waits(mutex) => Waits(q),
           LeavePoller(q) \/ StartPoller(q) \/ RestartPoller(q)
    PROVE  /\ HandleRight'
           /\ StartPoller(q) \/ RestartPoller(q) => poller' = "timer"
           /\ coreState = "running" => (poller' = "timer" \/ Waits(mutex'))
  BY DEF HandleRight, PollerAlive, LeavePoller, StartPoller, RestartPoller, polling, Waits

PollerInv == HandleRight /\ PollerAlive

LEMMA AliveWaits == PollerAlive <=> (coreState = "running" => poller = "timer" \/ Waits(mutex))
  BY DEF PollerAlive, Waits

LEMMA PollerWork ==
    ASSUME "target" \notin Faults, ProbeTypeOK, PollerInv, Work
    PROVE  PollerInv'
  <1>r. \A ok \in BOOLEAN : Working("call") /\ Waits(mutex) => Waits(Rest(ok))
    BY WaitsRest DEF ProbeTypeOK
  <1>t. ASSUME mutex # <<>>, Head(mutex).kind \notin {"poll", "gone"}
        PROVE  Waits(mutex) => Waits(Tail(mutex))
    BY <1>t, WaitsTail DEF ProbeTypeOK
  <1>a. PollerAlive' <=> (coreState' = "running" => poller' = "timer" \/ Waits(mutex'))
    BY DEF PollerAlive, Waits
  <1>1. ASSUME NEW o \in Ops, Halts(o) PROVE PollerInv'
    BY <1>1 DEF Halts, StopPoller, PollerInv, HandleRight, PollerAlive
  <1>2. ASSUME NEW o \in Ops, Starts(o) PROVE PollerInv'
    <2>1. StartPoller(Rest(TRUE)) \/ RestartPoller(Rest(TRUE))
      BY <1>2 DEF Starts
    <2>2. Working("call")
      BY <1>2 DEF Starts, Reaches, AtOp
    <2> QED BY <1>r, <1>a, <2>1, <2>2, PollerKept DEF PollerInv
  <1>3. ASSUME NEW o \in Ops, Accesses(o) \/ NoDevice(o) PROVE PollerInv'
    <2>1. PICK ok \in BOOLEAN : LeavePoller(Rest(ok))
      BY <1>3 DEF Accesses, NoDevice
    <2>2. Working("call") /\ coreState' = coreState
      BY <1>3 DEF Accesses, NoDevice, Reaches, AtOp
    <2> QED BY <1>r, <1>a, <2>1, <2>2, PollerKept DEF PollerInv
  <1>4. ASSUME NEW o \in Ops, Breaks(o) PROVE PollerInv'
    BY <1>4 DEF Breaks, StopPoller, PollerInv, HandleRight, PollerAlive
  <1>5. CASE GetState
    <2>1. Working("call")
      BY <1>5 DEF GetState, Reaches, AtOp
    <2>2. CASE coreState' = "halted" /\ StopPoller(Rest(TRUE))
      BY <2>2 DEF StopPoller, PollerInv, HandleRight, PollerAlive
    <2>3. CASE coreState' = coreState /\ LeavePoller(Rest(TRUE))
      BY <1>r, <1>a, <2>1, <2>3, PollerKept DEF PollerInv
    <2>4. CASE StartPoller(Rest(TRUE))
      BY <1>r, <1>a, <2>1, <2>4, PollerKept DEF PollerInv
    <2> QED BY <1>5, <2>2, <2>3, <2>4 DEF GetState
  <1>6. CASE Polls
    BY <1>6 DEF Polls, PollerInv, HandleRight, PollerAlive
  <1>7. CASE PollBreaks
    BY <1>7 DEF PollBreaks, StopPoller, PollerInv, HandleRight, PollerAlive
  <1>8. CASE PollSkips
    BY <1>8 DEF PollSkips, PollerInv, HandleRight, PollerAlive
  <1>9. CASE StalePoll
    <2>1. Waits(mutex) => Waits(mutex')
      BY <1>9, <1>t DEF StalePoll, Working
    <2> QED BY <1>9, <1>a, <2>1, AliveWaits DEF StalePoll, PollerInv, HandleRight
  <1>10. CASE Attaches
    <2>1. CASE coreState' = "running"
      <3>1. RestartPoller(Tail(mutex))
        BY <1>10, <2>1 DEF Attaches
      <3> QED BY <3>1 DEF RestartPoller, PollerInv, HandleRight, PollerAlive
    <2>2. CASE coreState' # "running"
      <3>1. StopPoller(Tail(mutex))
        BY <1>10, <2>2 DEF Attaches
      <3> QED BY <2>2, <3>1 DEF StopPoller, PollerInv, HandleRight, PollerAlive
    <2> QED BY <2>1, <2>2
  <1>11. CASE Attached
    <2>1. Waits(mutex) => Waits(Tail(mutex))
      BY <1>11, <1>t DEF Attached, Working
    <2>2. LeavePoller(Tail(mutex)) /\ coreState' = coreState
      BY <1>11 DEF Attached
    <2> QED BY <1>a, <2>1, <2>2, PollerKept DEF PollerInv
  <1>12. CASE Detaches
    BY <1>12 DEF Detaches, StopPoller, PollerInv, HandleRight, PollerAlive
  <1>13. CASE Goes
    BY <1>13 DEF Goes, LeavePoller, polling, PollerInv, HandleRight, PollerAlive
  <1>14. (\A o \in Ops : ~Refused(o)) /\ ~PollRefused
    BY DEF Refused, PollRefused
  <1> QED BY <1>1, <1>2, <1>3, <1>4, <1>5, <1>6, <1>7, <1>8, <1>9, <1>10, <1>11,
             <1>12, <1>13, <1>14 DEF Work

\* Timers, events and the world, and calls that queue for the mutex.
LEMMA PollerOther ==
    ASSUME ProbeTypeOK, PollerInv,
           \/ TimerFires \/ StrayFires \/ DisconnectEvent \/ ConnectEvent \/ World
    PROVE  PollerInv'
  <1>q. mutex \in Seq(Jobs)
    BY DEF ProbeTypeOK
  <1>a. PollerAlive' <=> (coreState' = "running" => poller' = "timer" \/ Waits(mutex'))
    BY DEF PollerAlive, Waits
  <1>j. \A k \in Kinds \ {"call"} : Waits(mutex) => Waits(Append(mutex, Job(k)))
    BY <1>q, JobType, WaitsAppend
  <1>1. CASE TimerFires
    <2>1. Job("poll") \in Jobs /\ Job("poll").kind = "poll"
      BY JobType DEF Kinds, Job
    <2>2. Waits(Append(mutex, Job("poll")))
      BY <1>q, <2>1, WaitsAppend
    <2> QED BY <1>1, <1>a, <2>2 DEF TimerFires, PollerInv, HandleRight
  <1>2. CASE StrayFires
    BY <1>2 DEF StrayFires, PollerInv, HandleRight, PollerAlive
  <1>3. CASE DisconnectEvent
    <2>1. Waits(mutex') /\ ~pollTimer'
      BY <1>3, <1>q, GoneStays DEF DisconnectEvent, StopPoller
    <2> QED BY <1>a, <2>1 DEF PollerInv, HandleRight
  <1>4. CASE ConnectEvent \/ World
    <2>1. UNCHANGED <<coreState, poller, pollTimer>>
      BY <1>4 DEF ConnectEvent, World, Unplug, Plug, Hit, UserAsks, polling
    <2>2. Waits(mutex) => Waits(mutex')
      BY <1>4, <1>j DEF ConnectEvent, World, Unplug, Plug, Hit, UserAsks, Requests, Kinds
    <2> QED BY <1>a, <2>1, <2>2, AliveWaits DEF PollerInv, HandleRight
  <1> QED BY <1>1, <1>2, <1>3, <1>4

\* The session never touches the poller, and only adds to the mutex.
LEMMA SessionStep ==
    ASSUME TypeOK,
           \/ Sends \/ Turns \/ Arrives \/ Connect \/ Drops \/ GdbInterrupts
           \/ (\E c \in AllCmds : GdbSends(c)) \/ (\E o \in WebOps : WebCalls(o))
    PROVE  /\ UNCHANGED <<core, armed, astray, link, usbState, coreState, poller, pollTimer>>
           /\ Waits(mutex) => Waits(mutex')
  <1>1. CASE Sends
    <2>1. Head(chain).ops \in Seq(Ops) /\ Head(chain).ops # <<>>
      BY <1>1, HeadTail DEF Sends, Requested, TypeOK
    <2>2. Call(Head(chain).ops) \in Jobs
      BY <2>1, JobType
    <2>3. Waits(mutex) => Waits(mutex')
      BY <1>1, <2>2, WaitsAppend DEF Sends, LeavePoller, TypeOK, ProbeTypeOK
    <2> QED BY <1>1, <2>3 DEF Sends, LeavePoller, polling
  <1>2. CASE Arrives
    <2>1. ASSUME NEW by, NEW ok, Result(by, ok)
          PROVE  UNCHANGED <<core, armed, astray, link, usbState, coreState, poller, pollTimer, mutex>>
      BY <2>1 DEF Result, Receives, polling
    <2>2. ASSUME NEW c, NEW ok, Answered(c, ok)
          PROVE  UNCHANGED <<core, armed, astray, link, usbState, coreState, poller, pollTimer, mutex>>
      BY <2>1, <2>2 DEF Answered
    <2>3. UNCHANGED <<core, armed, astray, link, usbState, coreState, poller, pollTimer, mutex>>
      BY <1>2, <2>1, <2>2, Zenon
         DEF Arrives, Resumed, Stepped, Read, Restarted, HaltedAgain, Interrupted, Killed,
             KillResets, Wrote, Monitored, Detached, Released, Started, WebResult,
             HaltedEvent, UsbEvent, Receives, polling
    <2> QED BY <2>3
  <1>3. CASE Turns
    BY <1>3 DEF Turns, Begins, ReadsCache, IgnoresInterrupt, probeVars, polling
  <1>4. CASE Connect \/ Drops
    BY <1>4 DEF Connect, Drops, probeVars, polling
  <1>5. CASE GdbInterrupts \/ (\E c \in AllCmds : GdbSends(c)) \/ (\E o \in WebOps : WebCalls(o))
    BY <1>5 DEF GdbInterrupts, GdbSends, WebCalls, probeVars, polling
  <1> QED BY <1>1, <1>2, <1>3, <1>4, <1>5

\* As long as the target takes what it is asked for, no order of calls,
\* polls, timers, attaching and pulling the cable leaves a processor that is
\* believed to run without a poller (probe.ts startPoller, stopPoller, poll).
THEOREM PollerLives ==
    ASSUME "target" \notin Faults
    PROVE  Spec => []PollerAlive
  <1>1. Init => PollerInv
    BY DEF Init, ProbeInit, PollerInv, HandleRight, PollerAlive
  <1>2. TypeOK /\ PollerInv /\ [Next]_vars => PollerInv'
    <2> SUFFICES ASSUME TypeOK, PollerInv, [Next]_vars PROVE PollerInv'
      OBVIOUS
    <2>t. ProbeTypeOK
      BY DEF TypeOK
    <2>a. PollerAlive' <=> (coreState' = "running" => poller' = "timer" \/ Waits(mutex'))
      BY DEF PollerAlive, Waits
    <2>1. CASE ByProbe(Work)
      BY <2>1, <2>t, PollerWork DEF ByProbe
    <2>2. CASE \/ ByProbe(TimerFires) \/ ByProbe(StrayFires)
               \/ ByProbe(DisconnectEvent) \/ ByProbe(ConnectEvent) \/ ByProbe(World)
      BY <2>2, <2>t, PollerOther DEF ByProbe
    <2>3. CASE \/ Sends \/ Turns \/ Arrives \/ Connect \/ Drops \/ GdbInterrupts
               \/ (\E c \in AllCmds : GdbSends(c)) \/ (\E o \in WebOps : WebCalls(o))
      BY <2>3, <2>a, SessionStep, AliveWaits DEF PollerInv, HandleRight
    <2>4. CASE UNCHANGED vars
      BY <2>4 DEF vars, probeVars, polling, PollerInv, HandleRight, PollerAlive
    <2> QED BY <2>1, <2>2, <2>3, <2>4 DEF Next
  <1>3. PollerInv => PollerAlive
    BY DEF PollerInv
  <1> QED BY <1>1, <1>2, <1>3, GdbTypeCorrect, PTL DEF Spec

-----------------------------------------------------------------------------
(* What the service believes of the processor *)

\* A device that is there has power.
BeliefInv == BeliefRight /\ (link => core # "off")

LEMMA BeliefProbe ==
    ASSUME "target" \notin Faults, ProbeTypeOK, BeliefInv, ProbeStep
    PROVE  BeliefInv'
  <1> USE DEF BeliefInv, BeliefRight
  <1>1. ASSUME NEW o \in Ops, Halts(o) \/ Starts(o) PROVE BeliefInv'
    BY <1>1 DEF Halts, Starts
  <1>2. ASSUME NEW o \in Ops, Accesses(o) \/ NoDevice(o) \/ Breaks(o) PROVE BeliefInv'
    <2>1. CASE Breaks(o)
      BY <2>1 DEF Breaks
    <2>2. CASE Accesses(o) \/ NoDevice(o)
      <3>1. UNCHANGED <<core, link, usbState, coreState>>
        BY <2>2 DEF Accesses, NoDevice
      <3> QED BY <3>1
    <2> QED BY <1>2, <2>1, <2>2
  <1>3. CASE GetState
    BY <1>3 DEF GetState, Reaches, ProbeTypeOK
  <1>4. CASE Polls
    BY <1>4 DEF Polls
  <1>5. CASE PollBreaks
    BY <1>5 DEF PollBreaks
  <1>6. CASE PollSkips \/ StalePoll
    BY <1>6 DEF PollSkips, StalePoll
  <1>7. CASE Attaches
    <2>1. CASE link'
      <3>1. core' # "off"
        BY <1>7, <2>1 DEF Attaches
      <3>2. coreState' = IF core' = "halt" THEN "halted" ELSE "running"
        BY <1>7, <2>1 DEF Attaches
      <3> QED BY <3>1, <3>2
    <2>2. CASE ~link'
      BY <2>2
    <2> QED BY <2>1, <2>2
  <1>8. CASE Attached \/ Detaches \/ Goes
    BY <1>8 DEF Attached, Detaches, Goes
  <1>9. CASE TimerFires \/ StrayFires \/ DisconnectEvent \/ ConnectEvent
    BY <1>9 DEF TimerFires, StrayFires, DisconnectEvent, ConnectEvent
  <1>10. CASE World
    BY <1>10 DEF World, Unplug, Plug, Hit, UserAsks
  <1>11. (\A o \in Ops : ~Refused(o)) /\ ~PollRefused
    BY DEF Refused, PollRefused
  <1> QED BY <1>1, <1>2, <1>3, <1>4, <1>5, <1>6, <1>7, <1>8, <1>9, <1>10, <1>11
          DEF ProbeStep, Work

\* And it never reports a processor halted that runs, whoever halted, started,
\* flashed or reset it last (probe.ts coreState and what op reports).
THEOREM BeliefsRight ==
    ASSUME "target" \notin Faults
    PROVE  Spec => []BeliefRight
  <1>1. Init => BeliefInv
    BY DEF Init, ProbeInit, BeliefInv, BeliefRight
  <1>2. TypeOK /\ BeliefInv /\ [Next]_vars => BeliefInv'
    <2> SUFFICES ASSUME TypeOK, BeliefInv, [Next]_vars PROVE BeliefInv'
      OBVIOUS
    <2>t. ProbeTypeOK
      BY DEF TypeOK
    <2>1. CASE \/ ByProbe(Work) \/ ByProbe(TimerFires) \/ ByProbe(StrayFires)
               \/ ByProbe(DisconnectEvent) \/ ByProbe(ConnectEvent) \/ ByProbe(World)
      BY <2>1, <2>t, BeliefProbe DEF ByProbe, ProbeStep
    <2>2. CASE \/ Sends \/ Turns \/ Arrives \/ Connect \/ Drops \/ GdbInterrupts
               \/ (\E c \in AllCmds : GdbSends(c)) \/ (\E o \in WebOps : WebCalls(o))
      BY <2>2, SessionStep DEF BeliefInv, BeliefRight
    <2>3. CASE UNCHANGED vars
      BY <2>3 DEF vars, probeVars, BeliefInv, BeliefRight
    <2> QED BY <2>1, <2>2, <2>3 DEF Next
  <1>3. BeliefInv => BeliefRight
    BY DEF BeliefInv
  <1> QED BY <1>1, <1>2, <1>3, GdbTypeCorrect, PTL DEF Spec

-----------------------------------------------------------------------------
(* The calls in the mutex and the replies on the wire *)

CallOps(q) == {q[i].ops : i \in {j \in DOMAIN q : q[j].kind = "call"}}
OneCallIn(q) == \A i, j \in DOMAIN q : q[i].kind = "call" /\ q[j].kind = "call" => i = j

RepliesIn(w) == {w[i].ok : i \in {j \in DOMAIN w : w[j].type = "reply"}}
OneReplyIn(w) == \A i, j \in DOMAIN w : w[i].type = "reply" /\ w[j].type = "reply" => i = j

\* What the lemmas below need of sequences.
LEMMA TailAt ==
    ASSUME NEW S, NEW q \in Seq(S), q # <<>>
    PROVE  /\ Len(q) \in Nat \ {0} /\ Head(q) = q[1] /\ 1 \in DOMAIN q
           /\ DOMAIN Tail(q) = 1 .. Len(q) - 1
           /\ \A i \in DOMAIN Tail(q) : i + 1 \in DOMAIN q /\ Tail(q)[i] = q[i + 1]
           /\ \A i \in DOMAIN q \ {1} : i - 1 \in DOMAIN Tail(q) /\ Tail(q)[i - 1] = q[i]
  OBVIOUS

LEMMA AppendAt ==
    ASSUME NEW S, NEW q \in Seq(S), NEW e
    PROVE  /\ Len(q) \in Nat /\ DOMAIN q = 1 .. Len(q)
           /\ DOMAIN Append(q, e) = 1 .. Len(q) + 1
           /\ Append(q, e)[Len(q) + 1] = e
           /\ \A i \in DOMAIN q : i \in DOMAIN Append(q, e) /\ Append(q, e)[i] = q[i]
           /\ \A i \in DOMAIN Append(q, e) : i \in DOMAIN q \/ i = Len(q) + 1
  OBVIOUS

LEMMA OutdatedCalls ==
    ASSUME NEW q
    PROVE  CallOps(Outdated(q)) = CallOps(q) /\ (OneCallIn(q) => OneCallIn(Outdated(q)))
  <1> DEFINE o == Outdated(q)
  <1>1. DOMAIN o = DOMAIN q
        /\ \A i \in DOMAIN q : /\ o[i].kind = "call" <=> q[i].kind = "call"
                               /\ q[i].kind = "call" => o[i] = q[i]
    BY DEF Outdated, Job
  <1> HIDE DEF o
  <1>2. CallOps(o) = CallOps(q) /\ (OneCallIn(q) => OneCallIn(o))
    BY <1>1 DEF CallOps, OneCallIn
  <1>3. QED BY <1>2 DEF o

LEMMA AppendCalls ==
    ASSUME NEW q \in Seq(Jobs), OneCallIn(q), NEW k \in Kinds \ {"call"}
    PROVE  CallOps(Append(q, Job(k))) = CallOps(q) /\ OneCallIn(Append(q, Job(k)))
  <1> DEFINE a == Append(q, Job(k))
  <1>1. Job(k).kind # "call"
    BY DEF Job
  <1>2. /\ \A i \in DOMAIN q : i \in DOMAIN a /\ a[i] = q[i]
        /\ \A i \in DOMAIN a : a[i].kind = "call" => i \in DOMAIN q
    BY <1>1, AppendAt
  <1> HIDE DEF a
  <1>3. CallOps(a) = CallOps(q) /\ OneCallIn(a)
    BY <1>2 DEF CallOps, OneCallIn
  <1>4. QED BY <1>3 DEF a

LEMMA SentCall ==
    ASSUME NEW q \in Seq(Jobs), CallOps(q) = {}, NEW ops
    PROVE  CallOps(Append(q, Call(ops))) = {ops} /\ OneCallIn(Append(q, Call(ops)))
  <1> DEFINE a == Append(q, Call(ops))
  <1>1. /\ Len(q) + 1 \in DOMAIN a /\ a[Len(q) + 1].kind = "call" /\ a[Len(q) + 1].ops = ops
        /\ \A i \in DOMAIN a : i = Len(q) + 1 \/ (i \in DOMAIN q /\ a[i] = q[i])
    BY AppendAt DEF Call
  <1>2. \A i \in DOMAIN q : q[i].kind # "call"
    BY DEF CallOps
  <1> HIDE DEF a
  <1>3. CallOps(a) = {ops} /\ OneCallIn(a)
    BY <1>1, <1>2 DEF CallOps, OneCallIn
  <1>4. QED BY <1>3 DEF a

\* The job at the head is done, and was no call.
LEMMA TailCalls ==
    ASSUME NEW q \in Seq(Jobs), q # <<>>, OneCallIn(q), Head(q).kind # "call"
    PROVE  CallOps(Tail(q)) = CallOps(q) /\ OneCallIn(Tail(q))
  <1> DEFINE t == Tail(q)
  <1>1. /\ \A i \in DOMAIN t : i + 1 \in DOMAIN q /\ t[i] = q[i + 1]
        /\ \A i \in DOMAIN q : q[i].kind = "call" => i - 1 \in DOMAIN t /\ t[i - 1] = q[i]
        /\ DOMAIN t \subseteq Int
    BY TailAt
  <1> HIDE DEF t
  <1>2. CallOps(t) = CallOps(q)
    <2>1. ASSUME NEW x \in CallOps(t) PROVE x \in CallOps(q)
      BY <1>1, <2>1 DEF CallOps
    <2>2. ASSUME NEW x \in CallOps(q) PROVE x \in CallOps(t)
      BY <1>1, <2>2 DEF CallOps
    <2>3. QED BY <2>1, <2>2
  <1>3. OneCallIn(t)
    <2> SUFFICES ASSUME NEW i \in DOMAIN t, NEW j \in DOMAIN t,
                        t[i].kind = "call", t[j].kind = "call"
                 PROVE  i = j
      BY DEF OneCallIn
    <2>1. i + 1 = j + 1
      BY <1>1 DEF OneCallIn
    <2>2. QED BY <1>1, <2>1
  <1>4. QED BY <1>2, <1>3 DEF t

\* It was the call.
LEMMA HeadCall ==
    ASSUME NEW q \in Seq(Jobs), q # <<>>, OneCallIn(q), Head(q).kind = "call"
    PROVE  /\ CallOps(q) = {Head(q).ops}
           /\ CallOps(Tail(q)) = {} /\ OneCallIn(Tail(q))
           /\ \A ops : /\ CallOps(<<Call(ops)>> \o Tail(q)) = {ops}
                       /\ OneCallIn(<<Call(ops)>> \o Tail(q))
  <1>1. 1 \in DOMAIN q /\ q[1].kind = "call" /\ Head(q) = q[1] /\ DOMAIN q \subseteq Int
    BY TailAt
  <1>2. \A i \in DOMAIN q : q[i].kind = "call" => i = 1
    BY <1>1 DEF OneCallIn
  <1>3. CallOps(q) = {Head(q).ops}
    BY <1>1, <1>2 DEF CallOps
  <1>4. \A i \in DOMAIN Tail(q) : Tail(q)[i].kind # "call"
    <2> SUFFICES ASSUME NEW i \in DOMAIN Tail(q), Tail(q)[i].kind = "call" PROVE FALSE
      OBVIOUS
    <2>1. i \in Nat \ {0} /\ i + 1 \in DOMAIN q /\ q[i + 1].kind = "call"
      BY TailAt
    <2>2. QED BY <1>2, <2>1
  <1>5. CallOps(Tail(q)) = {} /\ OneCallIn(Tail(q))
    BY <1>4 DEF CallOps, OneCallIn
  <1>6. ASSUME NEW ops
        PROVE  CallOps(<<Call(ops)>> \o Tail(q)) = {ops} /\ OneCallIn(<<Call(ops)>> \o Tail(q))
    <2> DEFINE c == <<Call(ops)>> \o Tail(q)
    <2>1. Tail(q) \in Seq(Jobs) /\ Len(Tail(q)) \in Nat
      BY HeadTail
    <2>2. /\ DOMAIN c = 1 .. Len(Tail(q)) + 1 /\ c[1] = Call(ops)
          /\ \A i \in DOMAIN c \ {1} : i - 1 \in DOMAIN Tail(q) /\ c[i] = Tail(q)[i - 1]
      BY <2>1
    <2>3. c[1].kind = "call" /\ c[1].ops = ops /\ 1 \in DOMAIN c
      BY <2>1, <2>2 DEF Call
    <2>4. \A i \in DOMAIN c : c[i].kind = "call" => i = 1
      BY <1>4, <2>2
    <2> HIDE DEF c
    <2>5. CallOps(c) = {ops} /\ OneCallIn(c)
      BY <2>3, <2>4 DEF CallOps, OneCallIn
    <2>6. QED BY <2>5 DEF c
  <1>7. QED BY <1>3, <1>5, <1>6

\* The same for the wire.  Alarms end a session's wait for a stop.
Alarm == {"halted", "usb-disconnect"}
NoAlarmIn(w) == \A i \in DOMAIN w : w[i].type \notin Alarm
NoAlarmBehind(w) ==
    \A i, j \in DOMAIN w : w[i].type = "reply" /\ w[j].type \in Alarm => j < i

LEMMA EventSent ==
    ASSUME NEW w \in Seq(Messages), OneReplyIn(w),
           NEW t \in {"halted", "usb-connect", "usb-disconnect"}
    PROVE  /\ RepliesIn(Append(w, Event(t))) = RepliesIn(w) /\ OneReplyIn(Append(w, Event(t)))
           /\ Append(w, Event(t)) \in Seq(Messages)
           /\ t = "usb-connect" =>
                /\ NoAlarmIn(w) => NoAlarmIn(Append(w, Event(t)))
                /\ NoAlarmBehind(w) => NoAlarmBehind(Append(w, Event(t)))
  <1> DEFINE a == Append(w, Event(t))
  <1>1. Event(t).type = t
    BY DEF Event
  <1>2. /\ \A i \in DOMAIN w : i \in DOMAIN a /\ a[i] = w[i]
        /\ \A i \in DOMAIN a : i \notin DOMAIN w => a[i].type = t
    BY <1>1, AppendAt
  <1>3. a \in Seq(Messages)
    BY MessageType, AppendType
  <1> HIDE DEF a
  <1>4. RepliesIn(a) = RepliesIn(w) /\ OneReplyIn(a)
    BY <1>2 DEF RepliesIn, OneReplyIn
  <1>5. t = "usb-connect" => /\ NoAlarmIn(w) => NoAlarmIn(a)
                             /\ NoAlarmBehind(w) => NoAlarmBehind(a)
    BY <1>2 DEF NoAlarmIn, NoAlarmBehind, Alarm
  <1>6. QED BY <1>3, <1>4, <1>5 DEF a

LEMMA ReplySent ==
    ASSUME NEW w \in Seq(Messages), RepliesIn(w) = {}, NEW ok \in BOOLEAN
    PROVE  /\ RepliesIn(Append(w, Reply(ok))) = {ok} /\ OneReplyIn(Append(w, Reply(ok)))
           /\ NoAlarmBehind(Append(w, Reply(ok)))
           /\ NoAlarmIn(w) => NoAlarmIn(Append(w, Reply(ok)))
  <1> DEFINE a == Append(w, Reply(ok))
  <1>1. Reply(ok).type = "reply" /\ Reply(ok).ok = ok
    BY DEF Reply
  <1>2. /\ Len(w) + 1 \in DOMAIN a /\ a[Len(w) + 1] = Reply(ok)
        /\ \A i \in DOMAIN w : i \in DOMAIN a /\ a[i] = w[i] /\ i < Len(w) + 1
        /\ \A i \in DOMAIN a : i \in DOMAIN w \/ i = Len(w) + 1
    BY AppendAt
  <1>3. \A i \in DOMAIN w : w[i].type # "reply"
    BY DEF RepliesIn
  <1> HIDE DEF a
  <1>4. RepliesIn(a) = {ok} /\ OneReplyIn(a)
    BY <1>1, <1>2, <1>3 DEF RepliesIn, OneReplyIn
  <1>5. NoAlarmBehind(a) /\ (NoAlarmIn(w) => NoAlarmIn(a))
    BY <1>1, <1>2, <1>3 DEF NoAlarmIn, NoAlarmBehind, Alarm
  <1>6. QED BY <1>4, <1>5 DEF a

\* A message is received.
LEMMA TailReplies ==
    ASSUME NEW w \in Seq(Messages), w # <<>>, OneReplyIn(w)
    PROVE  /\ Head(w).type # "reply" => RepliesIn(Tail(w)) = RepliesIn(w)
           /\ Head(w).type = "reply" =>
                /\ RepliesIn(w) = {Head(w).ok} /\ RepliesIn(Tail(w)) = {}
                /\ NoAlarmBehind(w) => NoAlarmIn(Tail(w))
           /\ OneReplyIn(Tail(w))
           /\ NoAlarmIn(w) => NoAlarmIn(Tail(w)) /\ Head(w).type \notin Alarm
           /\ NoAlarmBehind(w) => NoAlarmBehind(Tail(w))
  <1> DEFINE t == Tail(w)
  <1>1. /\ 1 \in DOMAIN w /\ Head(w) = w[1] /\ DOMAIN w \subseteq Nat \ {0}
        /\ DOMAIN t \subseteq Nat \ {0}
        /\ \A i \in DOMAIN t : i + 1 \in DOMAIN w /\ t[i] = w[i + 1]
        /\ \A i \in DOMAIN w \ {1} : i - 1 \in DOMAIN t /\ t[i - 1] = w[i]
    BY TailAt
  <1> HIDE DEF t
  <1>2. ASSUME Head(w).type # "reply" PROVE RepliesIn(t) = RepliesIn(w)
    <2>1. ASSUME NEW x \in RepliesIn(t) PROVE x \in RepliesIn(w)
      BY <1>1, <2>1 DEF RepliesIn
    <2>2. ASSUME NEW x \in RepliesIn(w) PROVE x \in RepliesIn(t)
      <3>1. PICK i \in DOMAIN w : w[i].type = "reply" /\ w[i].ok = x
        BY <2>2 DEF RepliesIn
      <3>2. i \in DOMAIN w \ {1}
        BY <1>1, <1>2, <3>1
      <3>3. QED BY <1>1, <3>1, <3>2 DEF RepliesIn
    <2>3. QED BY <2>1, <2>2
  <1>3. ASSUME Head(w).type = "reply"
        PROVE  /\ RepliesIn(w) = {Head(w).ok} /\ RepliesIn(t) = {}
               /\ NoAlarmBehind(w) => NoAlarmIn(t)
    <2>1. \A i \in DOMAIN w : w[i].type = "reply" => i = 1
      BY <1>1, <1>3 DEF OneReplyIn
    <2>2. RepliesIn(w) = {Head(w).ok}
      BY <1>1, <1>3, <2>1 DEF RepliesIn
    <2>3. \A i \in DOMAIN t : i + 1 # 1 /\ ~(i + 1 < 1)
      BY <1>1
    <2>4. RepliesIn(t) = {}
      BY <1>1, <2>1, <2>3 DEF RepliesIn
    <2>5. NoAlarmBehind(w) => NoAlarmIn(t)
      BY <1>1, <1>3, <2>3 DEF NoAlarmBehind, NoAlarmIn
    <2>6. QED BY <2>2, <2>4, <2>5
  <1>4. OneReplyIn(t)
    <2> SUFFICES ASSUME NEW i \in DOMAIN t, NEW j \in DOMAIN t,
                        t[i].type = "reply", t[j].type = "reply"
                 PROVE  i = j
      BY DEF OneReplyIn
    <2>1. i + 1 = j + 1
      BY <1>1 DEF OneReplyIn
    <2>2. QED BY <1>1, <2>1
  <1>5. NoAlarmIn(w) => NoAlarmIn(t) /\ Head(w).type \notin Alarm
    BY <1>1 DEF NoAlarmIn
  <1>6. NoAlarmBehind(w) => NoAlarmBehind(t)
    <2> SUFFICES ASSUME NoAlarmBehind(w), NEW i \in DOMAIN t, NEW j \in DOMAIN t,
                        t[i].type = "reply", t[j].type \in Alarm
                 PROVE  j < i
      BY DEF NoAlarmBehind
    <2>1. j + 1 < i + 1
      BY <1>1 DEF NoAlarmBehind
    <2>2. QED BY <1>1, <2>1
  <1>7. QED BY <1>2, <1>3, <1>4, <1>5, <1>6 DEF t

-----------------------------------------------------------------------------
(* What a step of the probe does to the call it works on *)

LEMMA PollerCalls ==
    ASSUME NEW q, OneCallIn(q),
           StopPoller(q) \/ StartPoller(q) \/ RestartPoller(q) \/ LeavePoller(q)
    PROVE  CallOps(mutex') = CallOps(q) /\ OneCallIn(mutex')
  BY OutdatedCalls DEF StopPoller, StartPoller, RestartPoller, LeavePoller

LEMMA RestCalls ==
    ASSUME mutex \in Seq(Jobs), OneCallIn(mutex), Working("call"), NEW ok \in BOOLEAN
    PROVE  /\ CallOps(mutex) = {Head(mutex).ops} /\ OneCallIn(Rest(ok))
           /\ CallOps(Rest(ok)) = IF Ends(ok) THEN {} ELSE {Tail(Head(mutex).ops)}
  BY HeadCall DEF Working, Rest

\* What is known of the processor and of what may halt it after operation o.
Effect(o, ok) ==
    /\ IF ok THEN /\ o \in Halting => core' = "halt"
                  /\ o \in Starting => core' = "run"
                  /\ o \notin Halting \cup Starting => core' = core
                  /\ o = "catchOff" => ~armed'
       ELSE core' \in Perhaps(o) \cup {core}
    /\ o \notin Arming \cup {"catchOff"} => armed' = armed
    /\ astray => astray'

\* An operation of the call ops: it goes on with the next, or is answered.
Served(ops, ok) ==
    /\ CallOps(mutex) = {ops}
    /\ IF ~ok \/ Len(ops) = 1
       THEN CallOps(mutex') = {} /\ RepliesIn(wire') = {ok} /\ (ok => NoAlarmBehind(wire'))
       ELSE CallOps(mutex') = {Tail(ops)} /\ RepliesIn(wire') = {}
    /\ Effect(Head(ops), ok)

ServedAt(o) ==
    \/ \E ops : Head(ops) = o /\ Served(ops, TRUE)
    \/ \E ops : Head(ops) = o /\ Served(ops, FALSE)

\* Nothing is done for the call.
Aside ==
    /\ CallOps(mutex') = CallOps(mutex) /\ RepliesIn(wire') = RepliesIn(wire)
    /\ armed' \in {armed, FALSE}
    /\ \/ core' = core
       \/ core' = "halt" /\ ((core = "run" /\ (armed \/ astray))
                              \/ ~(usbState = "connected" /\ link))
       \/ core = "off" \/ (core' = "off" /\ ~link' /\ "unplug" \in Faults)
    /\ astray => astray' \/ ~link'

\* An alarm is raised for a processor that does not run, or a device that is gone.
WireSafe ==
    core' = "run" /\ link' /\ (usbState = "connected" => link) =>
        /\ NoAlarmIn(wire) => NoAlarmIn(wire')
        /\ NoAlarmBehind(wire) => NoAlarmBehind(wire')

SingleCall ==
    /\ OneCallIn(mutex) /\ OneReplyIn(wire)
    /\ CallOps(mutex) = {} \/ RepliesIn(wire) = {}

LEMMA OpMove ==
    ASSUME ProbeTypeOK, SingleCall, NEW o \in Ops, NEW ok \in BOOLEAN, AtOp(o),
           Effect(o, ok),
           \/ StopPoller(Rest(ok)) \/ StartPoller(Rest(ok))
           \/ RestartPoller(Rest(ok)) \/ LeavePoller(Rest(ok)),
           Answers(ok)
    PROVE  /\ \E ops : Head(ops) = o /\ Served(ops, ok)
           /\ SingleCall' /\ WireSafe
  <1>1. Working("call") /\ mutex \in Seq(Jobs) /\ wire \in Seq(Messages) /\ OneCallIn(mutex)
    BY DEF AtOp, ProbeTypeOK, SingleCall
  <1> DEFINE ops == Head(mutex).ops
  <1>2. Head(ops) = o
    BY DEF AtOp
  <1>3. CallOps(mutex) = {ops} /\ OneCallIn(Rest(ok))
        /\ CallOps(Rest(ok)) = IF Ends(ok) THEN {} ELSE {Tail(ops)}
    BY <1>1, RestCalls
  <1>4. CallOps(mutex') = CallOps(Rest(ok)) /\ OneCallIn(mutex')
    BY <1>3, PollerCalls
  <1>5. Ends(ok) <=> ~ok \/ Len(ops) = 1
    BY DEF Ends
  <1>6. RepliesIn(wire) = {} /\ OneReplyIn(wire)
    BY <1>3 DEF SingleCall
  <1>7. /\ RepliesIn(wire') = IF Ends(ok) THEN {ok} ELSE {}
        /\ OneReplyIn(wire') /\ (Ends(ok) => NoAlarmBehind(wire'))
        /\ NoAlarmIn(wire) => NoAlarmIn(wire')
        /\ ~Ends(ok) => wire' = wire
    BY <1>1, <1>6, ReplySent DEF Answers
  <1> HIDE DEF ops
  <1>8. Served(ops, ok)
    BY <1>2, <1>3, <1>4, <1>5, <1>7 DEF Served
  <1>9. SingleCall'
    BY <1>3, <1>4, <1>7 DEF SingleCall
  <1>10. WireSafe
    BY <1>7 DEF WireSafe
  <1>11. QED BY <1>2, <1>8, <1>9, <1>10

LEMMA CallMove ==
    ASSUME ProbeTypeOK, SingleCall, NEW o \in Ops,
           \/ Halts(o) \/ Starts(o) \/ Accesses(o) \/ Refused(o) \/ NoDevice(o)
           \/ GetState /\ o = "getState"
    PROVE  /\ ServedAt(o)
           /\ SingleCall' /\ WireSafe /\ link' = link /\ usbState' = usbState
  <1>1. link' = link /\ usbState' = usbState
    BY DEF Halts, Starts, Accesses, Refused, NoDevice, GetState
  <1>2. CASE Halts(o)
    <2>0. AtOp(o) /\ StopPoller(Rest(TRUE)) /\ Answers(TRUE)
          /\ o \in Halting /\ core' = "halt" /\ armed' = armed /\ (astray => astray')
      BY <1>2 DEF Halts, Reaches, Strayed
    <2>1. AtOp(o) /\ StopPoller(Rest(TRUE)) /\ Answers(TRUE) /\ Effect(o, TRUE)
      <3>1. o \notin Arming \cup {"catchOff"}
        BY <2>0 DEF Halting, Arming
      <3>2. o \notin Starting /\ o # "catchOff"
        BY <2>0 DEF Halting, Starting
      <3>3. QED BY <2>0, <3>1, <3>2 DEF Effect
    <2>2. SingleCall' /\ WireSafe /\ \E ops : Head(ops) = o /\ Served(ops, TRUE)
      BY <2>1, OpMove
    <2>3. QED BY <1>1, <2>2 DEF ServedAt
  <1>3. CASE Starts(o)
    <2>1. AtOp(o) /\ Answers(TRUE) /\ Effect(o, TRUE)
          /\ (StartPoller(Rest(TRUE)) \/ RestartPoller(Rest(TRUE)))
      BY <1>3 DEF Starts, Reaches, Effect, Halting, Starting, Arming
    <2>2. SingleCall' /\ WireSafe /\ \E ops : Head(ops) = o /\ Served(ops, TRUE)
      BY <2>1, OpMove
    <2>3. QED BY <1>1, <2>2 DEF ServedAt
  <1>4. CASE Accesses(o)
    <2>1. AtOp(o) /\ LeavePoller(Rest(TRUE)) /\ Answers(TRUE) /\ Effect(o, TRUE)
      BY <1>4 DEF Accesses, Reaches, Effect, Strayed, Halting, Starting, Access, Arming
    <2>2. SingleCall' /\ WireSafe /\ \E ops : Head(ops) = o /\ Served(ops, TRUE)
      BY <2>1, OpMove
    <2>3. QED BY <1>1, <2>2 DEF ServedAt
  <1>5. CASE GetState /\ o = "getState"
    <2>1. AtOp(o) /\ Answers(TRUE) /\ Effect(o, TRUE)
          /\ (StopPoller(Rest(TRUE)) \/ StartPoller(Rest(TRUE)) \/ LeavePoller(Rest(TRUE)))
      BY <1>5 DEF GetState, Reaches, Effect, Halting, Starting, Arming
    <2>2. SingleCall' /\ WireSafe /\ \E ops : Head(ops) = o /\ Served(ops, TRUE)
      BY <2>1, OpMove
    <2>3. QED BY <1>1, <2>2 DEF ServedAt
  <1>6. CASE Refused(o)
    <2>1. AtOp(o) /\ Answers(FALSE)
          /\ (StopPoller(Rest(FALSE)) \/ LeavePoller(Rest(FALSE)))
      BY <1>6 DEF Refused, Reaches
    <2>2. Effect(o, FALSE)
      BY <1>6 DEF Refused, Effect, Strayed, Arming
    <2>3. SingleCall' /\ WireSafe /\ \E ops : Head(ops) = o /\ Served(ops, FALSE)
      BY <2>1, <2>2, OpMove
    <2>4. QED BY <1>1, <2>3 DEF ServedAt
  <1>7. CASE NoDevice(o)
    <2>1. AtOp(o) /\ LeavePoller(Rest(FALSE)) /\ Answers(FALSE) /\ Effect(o, FALSE)
      BY <1>7 DEF NoDevice, Effect
    <2>2. SingleCall' /\ WireSafe /\ \E ops : Head(ops) = o /\ Served(ops, FALSE)
      BY <2>1, OpMove
    <2>3. QED BY <1>1, <2>2 DEF ServedAt
  <1>8. QED BY <1>2, <1>3, <1>4, <1>5, <1>6, <1>7

LEMMA AppendTwo ==
    ASSUME NEW S, NEW q \in Seq(S), NEW a \in S, NEW b \in S
    PROVE  q \o <<a, b>> = Append(Append(q, a), b)
  OBVIOUS

LEMMA BreakMove ==
    ASSUME ProbeTypeOK, SingleCall, NEW o \in Ops, Breaks(o)
    PROVE  /\ ServedAt(o)
           /\ SingleCall' /\ ~link /\ ~link' /\ WireSafe
  <1>1. Working("call") /\ mutex \in Seq(Jobs) /\ wire \in Seq(Messages) /\ OneCallIn(mutex)
        /\ OneReplyIn(wire)
    BY DEF Breaks, AtOp, ProbeTypeOK, SingleCall
  <1> DEFINE ops == Head(mutex).ops
  <1>2. Head(ops) = o
    BY DEF Breaks, AtOp
  <1>3. CallOps(mutex) = {ops} /\ OneCallIn(Rest(FALSE)) /\ CallOps(Rest(FALSE)) = {}
    BY <1>1, RestCalls DEF Ends
  <1>4. CallOps(mutex') = {} /\ OneCallIn(mutex')
    BY <1>3, PollerCalls DEF Breaks
  <1>5. RepliesIn(wire) = {}
    BY <1>3 DEF SingleCall
  <1> DEFINE w == Append(wire, Event("usb-disconnect"))
  <1>6. w \in Seq(Messages) /\ RepliesIn(w) = {}
    BY <1>1, <1>5, EventSent
  <1>7. wire' = Append(w, Reply(FALSE))
    <2>1. wire' = wire \o <<Event("usb-disconnect"), Reply(FALSE)>>
      BY DEF Breaks
    <2>2. wire \o <<Event("usb-disconnect"), Reply(FALSE)>>
            = Append(Append(wire, Event("usb-disconnect")), Reply(FALSE))
      <3>1. Event("usb-disconnect") \in Messages /\ Reply(FALSE) \in Messages
        BY MessageType
      <3> DEFINE e == Event("usb-disconnect")
                 r == Reply(FALSE)
      <3> HIDE DEF e, r
      <3>2. wire \o <<e, r>> = Append(Append(wire, e), r)
        <4>1. e \in Messages /\ r \in Messages /\ wire \in Seq(Messages)
          BY <1>1, <3>1 DEF e, r
        <4>2. QED BY <4>1, AppendTwo
      <3>3. QED BY <3>2 DEF e, r
    <2>3. QED BY <2>1, <2>2
  <1>8. RepliesIn(wire') = {FALSE} /\ OneReplyIn(wire')
    <2> HIDE DEF w
    <2>1. QED BY <1>6, <1>7, ReplySent
  <1>9. ~link /\ ~link' /\ Effect(o, FALSE)
    BY DEF Breaks, Effect
  <1> HIDE DEF ops
  <1>10. Served(ops, FALSE)
    BY <1>2, <1>3, <1>4, <1>8, <1>9 DEF Served
  <1>11. ServedAt(o)
    BY <1>2, <1>10 DEF ServedAt
  <1>12. QED BY <1>4, <1>8, <1>9, <1>11 DEF SingleCall, WireSafe

\* What a poll, an attach or an event of the browser does.
LEMMA AsideMove ==
    ASSUME ProbeTypeOK, SingleCall,
           \/ Polls \/ PollRefused \/ PollBreaks \/ PollSkips \/ StalePoll
           \/ Attaches \/ Attached \/ Detaches \/ Goes
           \/ TimerFires \/ StrayFires \/ DisconnectEvent \/ ConnectEvent \/ World
    PROVE  Aside /\ SingleCall' /\ WireSafe
  <1>1. mutex \in Seq(Jobs) /\ wire \in Seq(Messages) /\ OneCallIn(mutex) /\ OneReplyIn(wire)
    BY DEF ProbeTypeOK, SingleCall
  <1>2. CallOps(mutex') = CallOps(mutex) /\ OneCallIn(mutex')
    <2>1. CASE Polls \/ PollRefused \/ PollSkips \/ StalePoll
      <3>1. mutex # <<>> /\ Head(mutex).kind # "call" /\ mutex' = Tail(mutex)
        BY <2>1 DEF Polls, PollRefused, PollSkips, StalePoll, Working
      <3>2. QED BY <1>1, <3>1, TailCalls
    <2>2. CASE PollBreaks \/ Attaches \/ Attached \/ Detaches \/ Goes
      <3>1. mutex # <<>> /\ Head(mutex).kind # "call"
            /\ \/ StopPoller(Tail(mutex)) \/ RestartPoller(Tail(mutex))
               \/ LeavePoller(Tail(mutex))
        BY <2>2 DEF PollBreaks, Attaches, Attached, Detaches, Goes, Working
      <3>2. QED BY <1>1, <3>1, TailCalls, PollerCalls
    <2>3. CASE TimerFires \/ StrayFires \/ ConnectEvent \/ World
      <3>1. mutex' = mutex \/ \E k \in Kinds \ {"call"} : mutex' = Append(mutex, Job(k))
        BY <2>3 DEF TimerFires, StrayFires, ConnectEvent, World, Unplug, Plug, Hit, UserAsks,
                    Requests, Kinds
      <3>2. QED BY <1>1, <3>1, AppendCalls
    <2>4. CASE DisconnectEvent
      <3>1. StopPoller(Append(mutex, Job("gone"))) /\ "gone" \in Kinds \ {"call"}
        BY <2>4 DEF DisconnectEvent, Kinds
      <3>2. QED BY <1>1, <3>1, AppendCalls, PollerCalls
    <2>5. QED BY <2>1, <2>2, <2>3, <2>4
  <1>3. RepliesIn(wire') = RepliesIn(wire) /\ OneReplyIn(wire') /\ WireSafe
    <2>1. CASE wire' = wire
      BY <1>1, <2>1 DEF WireSafe
    <2>2. ASSUME NEW t \in {"halted", "usb-connect", "usb-disconnect"},
                 wire' = Append(wire, Event(t)),
                 t = "usb-connect" \/ core' # "run" \/ ~link'
          PROVE  RepliesIn(wire') = RepliesIn(wire) /\ OneReplyIn(wire') /\ WireSafe
      BY <1>1, <2>2, EventSent DEF WireSafe
    <2>3. CASE Polls \/ PollBreaks \/ Goes
      <3>1. \/ wire' = wire
            \/ wire' = Append(wire, Event("halted")) /\ core' # "run"
            \/ wire' = Append(wire, Event("usb-disconnect")) /\ ~link'
        BY <2>3 DEF Polls, PollBreaks, Goes
      <3>2. QED BY <2>1, <2>2, <3>1
    <2>4. CASE Attaches \/ Detaches
      <3>1. PICK t \in {"none", "usb-connect"} : wire' = Told(usbState, t)
                 /\ (t = "none" => ~link')
                 /\ (usbState = "connected" /\ link' => ~link)
        BY <2>4 DEF Attaches, Detaches
      <3> DEFINE w == IF usbState = "connected" THEN Append(wire, Event("usb-disconnect"))
                      ELSE wire
      <3>2. w \in Seq(Messages) /\ OneReplyIn(w) /\ RepliesIn(w) = RepliesIn(wire)
        BY <1>1, EventSent
      <3>3. wire' = IF t = "none" THEN w ELSE Append(w, Event(t))
        <4>1. wire' = wire \o (IF usbState = "connected" THEN <<Event("usb-disconnect")>> ELSE <<>>)
                        \o (IF t = "none" THEN <<>> ELSE <<Event(t)>>)
          BY <3>1 DEF Told
        <4>2. wire \o (IF usbState = "connected" THEN <<Event("usb-disconnect")>> ELSE <<>>) = w
          BY <1>1
        <4>3. w \o (IF t = "none" THEN <<>> ELSE <<Event(t)>>)
                 = IF t = "none" THEN w ELSE Append(w, Event(t))
          <5> HIDE DEF w
          <5>1. QED BY <3>2
        <4>4. QED BY <4>1, <4>2, <4>3
      <3>4. WireSafe
        <4> SUFFICES ASSUME core' = "run", link', usbState = "connected" => link
                     PROVE  /\ NoAlarmIn(wire) => NoAlarmIn(wire')
                            /\ NoAlarmBehind(wire) => NoAlarmBehind(wire')
          BY DEF WireSafe
        <4>1. usbState # "connected" /\ t = "usb-connect"
          BY <3>1
        <4>2. QED BY <1>1, <3>3, <4>1, EventSent
      <3> HIDE DEF w
      <3>5. QED BY <3>1, <3>2, <3>3, <3>4, EventSent
    <2>5. CASE \/ PollRefused \/ PollSkips \/ StalePoll \/ Attached
               \/ TimerFires \/ StrayFires \/ DisconnectEvent \/ ConnectEvent \/ World
      <3>1. wire' = wire
        BY <2>5 DEF PollRefused, PollSkips, StalePoll, Attached, TimerFires, StrayFires,
                    DisconnectEvent, ConnectEvent, World, Unplug, Plug, Hit, UserAsks
      <3>2. QED BY <2>1, <3>1
    <2>6. QED BY <2>3, <2>4, <2>5
  <1>4. /\ armed' \in {armed, FALSE}
        /\ \/ core' = core
           \/ core' = "halt" /\ ((core = "run" /\ (armed \/ astray))
                                  \/ ~(usbState = "connected" /\ link))
           \/ core = "off" \/ (core' = "off" /\ ~link' /\ "unplug" \in Faults)
        /\ astray => astray' \/ ~link'
    <2>1. CASE \/ Polls \/ PollRefused \/ PollBreaks \/ PollSkips \/ StalePoll
               \/ TimerFires \/ StrayFires \/ DisconnectEvent \/ ConnectEvent
               \/ Attached \/ Goes
      <3>1. core' = core /\ armed' = armed /\ astray' = astray
        BY <2>1 DEF Polls, PollRefused, PollBreaks, PollSkips, StalePoll, TimerFires, StrayFires,
                    DisconnectEvent, ConnectEvent, Attached, Goes
      <3>2. QED BY <3>1
    <2>2. CASE Attaches
      BY <2>2 DEF Attaches
    <2>3. CASE Detaches
      BY <2>3 DEF Detaches, ProbeTypeOK
    <2>4. CASE Unplug
      BY <2>4 DEF Unplug
    <2>5. CASE Plug
      BY <2>5 DEF Plug
    <2>6. CASE Hit
      BY <2>6, Zenon DEF Hit
    <2>7. CASE UserAsks
      BY <2>7 DEF UserAsks
    <2>8. QED BY <2>1, <2>2, <2>3, <2>4, <2>5, <2>6, <2>7 DEF World
  <1>5. SingleCall'
    BY <1>2, <1>3 DEF SingleCall
  <1>6. QED BY <1>2, <1>3, <1>4, <1>5 DEF Aside

\* Every step of the probe is one or the other.
LEMMA ProbeMove ==
    ASSUME ProbeTypeOK, SingleCall, ProbeStep
    PROVE  /\ SingleCall' /\ WireSafe
           /\ Aside \/ \E o \in Ops : ServedAt(o) /\ (link' = link)
  <1>1. ASSUME NEW o \in Ops,
               \/ Halts(o) \/ Starts(o) \/ Accesses(o) \/ Refused(o) \/ NoDevice(o)
        PROVE  SingleCall' /\ WireSafe /\ ServedAt(o) /\ link' = link
    BY <1>1, CallMove
  <1>2. ASSUME GetState
        PROVE  SingleCall' /\ WireSafe /\ ServedAt("getState") /\ link' = link
    <2>1. "getState" \in Ops
      BY DEF Ops
    <2>2. QED BY <1>2, <2>1, CallMove
  <1>3. ASSUME NEW o \in Ops, Breaks(o)
        PROVE  SingleCall' /\ WireSafe /\ ServedAt(o) /\ link' = link
    <2>1. link' = link
      BY <1>3 DEF Breaks
    <2>2. QED BY <1>3, <2>1, BreakMove
  <1>4. "getState" \in Ops
    BY DEF Ops
  <1>5. QED BY <1>1, <1>2, <1>3, <1>4, AsideMove DEF ProbeStep, Work

-----------------------------------------------------------------------------
(* The chain of the probe client *)

StartCalls == <<"halt", "clearAll", "catchOn">>
ReleaseCalls == <<"clearAll", "catchOff", "run">>
KillCalls == <<"clearAll", "catchOff">>
Programs == {StartCalls, ReleaseCalls, KillCalls} \cup {<<o>> : o \in Ops}

\* What may be left of a program.
Remains(ops) ==
    CASE ops = StartCalls -> {ops, <<"clearAll", "catchOn">>, <<"catchOn">>}
      [] ops = ReleaseCalls -> {ops, <<"catchOff", "run">>, <<"run">>}
      [] ops = KillCalls -> {ops, <<"catchOff">>}
      [] OTHER -> {ops}

LEMMA RemainsTail ==
    ASSUME NEW ops \in Programs, NEW r \in Remains(ops), Len(r) # 1
    PROVE  Tail(r) \in Remains(ops)
  <1> USE DEF StartCalls, ReleaseCalls, KillCalls
  <1>0. /\ Tail(<<"halt", "clearAll", "catchOn">>) = <<"clearAll", "catchOn">>
        /\ Tail(<<"clearAll", "catchOn">>) = <<"catchOn">>
        /\ Tail(<<"clearAll", "catchOff", "run">>) = <<"catchOff", "run">>
        /\ Tail(<<"catchOff", "run">>) = <<"run">>
        /\ Tail(<<"clearAll", "catchOff">>) = <<"catchOff">>
        /\ Len(<<"catchOn">>) = 1 /\ Len(<<"run">>) = 1 /\ Len(<<"catchOff">>) = 1
    OBVIOUS
  <1>1. CASE ops = StartCalls
    BY <1>0, <1>1 DEF Remains
  <1>2. CASE ops = ReleaseCalls
    BY <1>0, <1>2 DEF Remains
  <1>3. CASE ops = KillCalls
    BY <1>0, <1>3 DEF Remains
  <1>4. CASE ops \notin {StartCalls, ReleaseCalls, KillCalls}
    <2>1. r = ops
      BY <1>4 DEF Remains
    <2>2. PICK o \in Ops : ops = <<o>>
      BY <1>4 DEF Programs
    <2>3. Len(<<o>>) = 1
      OBVIOUS
    <2>4. QED BY <2>1, <2>2, <2>3
  <1>5. QED BY <1>1, <1>2, <1>3, <1>4

\* The call at the head of the chain is the one with the worker, if any.
OneCall ==
    /\ SingleCall
    /\ CallOps(mutex) # {} \/ RepliesIn(wire) # {} => sent
    /\ sent => chain # <<>>
    /\ \A ops \in CallOps(mutex) : ops \in Remains(Head(chain).ops)

Entries(q) == {q[i] : i \in DOMAIN q}
OneOfEach(q) == \A i, j \in DOMAIN q : q[i].by = q[j].by /\ q[i].by # "web" => i = j

LEMMA AppendEntries ==
    ASSUME NEW q \in Seq(Requested), OneOfEach(q), NEW e,
           e.by = "web" \/ \A f \in Entries(q) : f.by # e.by
    PROVE  Entries(Append(q, e)) = Entries(q) \cup {e} /\ OneOfEach(Append(q, e))
  <1> DEFINE a == Append(q, e)
  <1>1. /\ Len(q) + 1 \in DOMAIN a /\ a[Len(q) + 1] = e
        /\ \A i \in DOMAIN q : i \in DOMAIN a /\ a[i] = q[i]
        /\ \A i \in DOMAIN a : i \in DOMAIN q \/ i = Len(q) + 1
    BY AppendAt
  <1> HIDE DEF a
  <1>2. Entries(a) = Entries(q) \cup {e}
    BY <1>1 DEF Entries
  <1>3. OneOfEach(a)
    BY <1>1 DEF OneOfEach, Entries
  <1>4. QED BY <1>2, <1>3 DEF a

LEMMA TailEntries ==
    ASSUME NEW q \in Seq(Requested), q # <<>>, OneOfEach(q)
    PROVE  /\ Head(q) \in Entries(q) /\ Entries(Tail(q)) \subseteq Entries(q)
           /\ OneOfEach(Tail(q))
           /\ Head(q).by # "web" => \A f \in Entries(Tail(q)) : f.by # Head(q).by
  <1> DEFINE t == Tail(q)
  <1>1. /\ Head(q) = q[1] /\ 1 \in DOMAIN q /\ DOMAIN t \subseteq Nat \ {0}
        /\ \A i \in DOMAIN t : i + 1 \in DOMAIN q /\ t[i] = q[i + 1]
    BY TailAt
  <1> HIDE DEF t
  <1>2. \A i \in DOMAIN t : i + 1 # 1
    BY <1>1
  <1>3. Head(q) \in Entries(q) /\ Entries(t) \subseteq Entries(q)
    BY <1>1 DEF Entries
  <1>4. OneOfEach(t)
    <2> SUFFICES ASSUME NEW i \in DOMAIN t, NEW j \in DOMAIN t, t[i].by = t[j].by, t[i].by # "web"
                 PROVE  i = j
      BY DEF OneOfEach
    <2>1. i + 1 = j + 1
      BY <1>1 DEF OneOfEach
    <2>2. QED BY <1>1, <2>1
  <1>5. Head(q).by # "web" => \A f \in Entries(t) : f.by # Head(q).by
    BY <1>1, <1>2 DEF OneOfEach, Entries
  <1>6. QED BY <1>3, <1>4, <1>5 DEF t

WebAsks == IF "flash" \in WebOps THEN WebOps \cup {"resetRun"} ELSE WebOps

EntryRight(e) ==
    /\ e.ops \in Programs
    /\ e.by = "web" => \E o \in WebAsks : e.ops = <<o>>
    /\ e.by = "start" => e.ops = StartCalls
    /\ e.by = "release" => e.ops = ReleaseCalls /\ conn \in {"down", "over"}
    /\ e.by = "handler" => queue # <<>> /\ at > 0 /\ e.ops = Steps[Head(queue)][at]

AtRight == IF queue = <<>> THEN at = 0 ELSE at <= Len(Steps[Head(queue)])

ChainInv ==
    /\ OneCall /\ OneOfEach(chain) /\ AtRight
    /\ \A e \in Entries(chain) : EntryRight(e)

LEMMA StepsRight ==
    /\ \A c \in AllCmds \ {"drop"} : Len(Steps[c]) \in {1, 2} /\ Steps[c][1] \in Programs
    /\ \A c \in {"reset", "k"} : Len(Steps[c]) = 2 /\ Steps[c][2] \in Programs
  <1>0. (\A x : Len(<<x>>) = 1) /\ (\A x, y : Len(<<x, y>>) = 2)
    OBVIOUS
  <1>1. ASSUME NEW c \in AllCmds \ {"drop"}
        PROVE  Len(Steps[c]) \in {1, 2} /\ Steps[c][1] \in Programs
    BY <1>0, <1>1 DEF Steps, AllCmds, Release, ReleaseCalls, KillCalls, Programs, Ops,
           Halting, Starting, Access, Arming
  <1>2. Len(Steps["reset"]) = 2 /\ Steps["reset"][2] \in Programs
    BY <1>0 DEF Steps, AllCmds, Release, ReleaseCalls, KillCalls, Programs, Ops,
           Halting, Starting, Access, Arming
  <1>3. Len(Steps["k"]) = 2 /\ Steps["k"][2] \in Programs
    BY <1>0 DEF Steps, AllCmds, Release, ReleaseCalls, KillCalls, Programs, Ops,
           Halting, Starting, Access, Arming
  <1>4. QED BY <1>1, <1>2, <1>3

LEMMA ChainProbe ==
    ASSUME TypeOK, ChainInv, ProbeStep, UNCHANGED <<chain, sent, conn, queue, at>>
    PROVE  ChainInv'
  <1>1. ProbeTypeOK /\ SingleCall
    BY DEF TypeOK, ChainInv, OneCall
  <1>2. SingleCall' /\ (Aside \/ \E o \in Ops : ServedAt(o))
    BY <1>1, ProbeMove
  <1>3. CallOps(mutex) # {} => sent /\ Head(chain).ops \in Programs
    <2>1. sent => chain # <<>> /\ Head(chain) \in Entries(chain)
      BY TailEntries DEF ChainInv, OneCall, TypeOK
    <2>2. QED BY <2>1 DEF ChainInv, OneCall, EntryRight
  <1>4. OneCall'
    <2>1. CASE Aside
      BY <1>2, <2>1 DEF Aside, ChainInv, OneCall
    <2>2. ASSUME NEW ops, NEW ok \in BOOLEAN, Served(ops, ok) PROVE OneCall'
      <3>1. sent /\ ops \in Remains(Head(chain).ops) /\ CallOps(mutex) = {ops}
        BY <2>2 DEF Served, ChainInv, OneCall
      <3>2. Len(ops) # 1 => Tail(ops) \in Remains(Head(chain).ops)
        BY <1>3, <3>1, RemainsTail
      <3>3. CallOps(mutex') = {} \/ (Len(ops) # 1 /\ CallOps(mutex') = {Tail(ops)})
        BY <2>2 DEF Served
      <3>4. chain' = chain /\ sent' = sent /\ chain # <<>>
        BY <3>1 DEF ChainInv, OneCall
      <3>5. \A x \in CallOps(mutex') : x \in Remains(Head(chain').ops)
        <4>1. Head(chain').ops = Head(chain).ops
          BY <3>4
        <4>2. QED BY <3>2, <3>3, <4>1
      <3>6. sent' /\ chain' # <<>>
        BY <3>1, <3>4
      <3>7. QED BY <1>2, <3>5, <3>6 DEF OneCall
    <2>3. QED BY <1>2, <2>1, <2>2 DEF ServedAt
  <1>5. QED BY <1>4 DEF ChainInv, AtRight, EntryRight

\* What a step outside the probe does to the call with the worker.
Heard(reply) ==
    /\ wire # <<>> /\ wire' = Tail(wire) /\ mutex' = mutex
    /\ IF reply THEN Head(wire).type = "reply" /\ sent' = FALSE
       ELSE Head(wire).type # "reply" /\ sent' = sent /\ chain' = chain

Asked ==
    /\ UNCHANGED <<mutex, wire, sent>>
    /\ chain' = chain \/ \E e : chain' = Append(chain, e)

LEMMA OneCallMove ==
    ASSUME TypeOK, OneCall, Sends \/ Heard(TRUE) \/ Heard(FALSE) \/ Asked
    PROVE  OneCall'
  <1> USE DEF OneCall
  <1>1. mutex \in Seq(Jobs) /\ wire \in Seq(Messages) /\ chain \in Seq(Requested)
    BY DEF TypeOK, ProbeTypeOK
  <1>2. CASE Sends
    <2>1. /\ chain # <<>> /\ ~sent /\ sent' = TRUE /\ wire' = wire /\ chain' = chain
          /\ mutex' = Append(mutex, Call(Head(chain).ops))
      BY <1>2 DEF Sends, LeavePoller
    <2>2. CallOps(mutex) = {} /\ RepliesIn(wire) = {}
      BY <2>1
    <2>3. CallOps(mutex') = {Head(chain).ops} /\ OneCallIn(mutex')
      BY <1>1, <2>1, <2>2, SentCall
    <2>4. Head(chain).ops \in Remains(Head(chain).ops)
      BY DEF Remains
    <2>5. QED BY <2>1, <2>2, <2>3, <2>4 DEF SingleCall
  <1>3. CASE Heard(TRUE)
    <2>1. /\ RepliesIn(wire) # {} /\ RepliesIn(wire') = {} /\ OneReplyIn(wire')
          /\ mutex' = mutex /\ sent' = FALSE
      BY <1>1, <1>3, TailReplies DEF Heard, SingleCall
    <2>2. QED BY <2>1 DEF SingleCall
  <1>4. CASE Heard(FALSE)
    <2>1. /\ RepliesIn(wire') = RepliesIn(wire) /\ OneReplyIn(wire')
          /\ mutex' = mutex /\ sent' = sent /\ chain' = chain
      BY <1>1, <1>4, TailReplies DEF Heard, SingleCall
    <2>2. QED BY <2>1 DEF SingleCall
  <1>5. CASE Asked
    <2>1. mutex' = mutex /\ wire' = wire /\ sent' = sent
      BY <1>5 DEF Asked
    <2>2. sent => chain' # <<>> /\ Head(chain') = Head(chain)
      <3>1. \A e : chain # <<>> => Append(chain, e) # <<>> /\ Head(Append(chain, e)) = Head(chain)
        BY <1>1
      <3>2. QED BY <1>5, <3>1 DEF Asked
    <2>3. QED BY <2>1, <2>2 DEF SingleCall
  <1>6. QED BY <1>2, <1>3, <1>4, <1>5

LEMMA ResultHeard ==
    ASSUME NEW by, NEW ok, Result(by, ok)
    PROVE  /\ Heard(TRUE) /\ Head(wire).ok = ok /\ chain # <<>> /\ Head(chain).by = by
           /\ UNCHANGED <<core, armed, astray, link, events, usbState, coreState, poller, pollTimer, stray>>
  BY DEF Result, Receives, Heard, polling

\* A result takes its call off the chain, and perhaps puts another at the end.
LEMMA TakenOff ==
    ASSUME TypeOK, ChainInv, NEW by, NEW ok, Result(by, ok), chain' = Tail(chain)
    PROVE  /\ OneCall' /\ OneOfEach(chain') /\ Entries(chain') \subseteq Entries(chain)
           /\ by # "web" => \A e \in Entries(chain') : e.by # by
  <1>1. Heard(TRUE) /\ chain # <<>> /\ Head(chain).by = by
    BY ResultHeard
  <1>2. OneCall'
    BY <1>1, OneCallMove DEF ChainInv
  <1>3. QED BY <1>1, <1>2, TailEntries DEF ChainInv, TypeOK

LEMMA PutBehind ==
    ASSUME TypeOK, ChainInv, NEW by, NEW ok, Result(by, ok), NEW ops \in Seq(Ops), ops # <<>>,
           by \in Callers, chain' = Append(Tail(chain), [by |-> by, ops |-> ops])
    PROVE  /\ OneCall' /\ OneOfEach(chain')
           /\ \A e \in Entries(chain') :
                 e = [by |-> by, ops |-> ops]
                 \/ (e \in Entries(chain) /\ (by # "web" => e.by # by))
  <1>1. Heard(TRUE) /\ chain # <<>> /\ Head(chain).by = by
    BY ResultHeard
  <1>2. OneCall'
    BY <1>1, OneCallMove DEF ChainInv
  <1>3. Tail(chain) \in Seq(Requested)
    BY <1>1, HeadTail DEF TypeOK
  <1>4. /\ OneOfEach(Tail(chain)) /\ Entries(Tail(chain)) \subseteq Entries(chain)
        /\ by # "web" => \A e \in Entries(Tail(chain)) : e.by # by
    BY <1>1, TailEntries DEF ChainInv, TypeOK
  <1> DEFINE n == [by |-> by, ops |-> ops]
  <1>5. n.by = by
    OBVIOUS
  <1> HIDE DEF n
  <1>6. OneOfEach(Append(Tail(chain), n))
        /\ Entries(Append(Tail(chain), n)) = Entries(Tail(chain)) \cup {n}
    BY <1>3, <1>4, <1>5, AppendEntries
  <1>7. chain' = Append(Tail(chain), n)
    BY DEF n
  <1>8. QED BY <1>2, <1>4, <1>6, <1>7 DEF n

\* A new call.
LEMMA NewCall ==
    ASSUME TypeOK, ChainInv, NEW by, NEW ops, Calls(by, ops), UNCHANGED <<mutex, wire, sent>>,
           by = "web" \/ \A e \in Entries(chain) : e.by # by
    PROVE  /\ OneCall' /\ OneOfEach(chain')
           /\ Entries(chain') = Entries(chain) \cup {[by |-> by, ops |-> ops]}
  <1> DEFINE n == [by |-> by, ops |-> ops]
  <1>1. chain' = Append(chain, n)
    BY DEF Calls
  <1>2. n.by = by
    OBVIOUS
  <1> HIDE DEF n
  <1>3. Asked
    BY <1>1 DEF Asked
  <1>4. OneCall'
    BY <1>3, OneCallMove DEF ChainInv
  <1>5. OneOfEach(chain') /\ Entries(chain') = Entries(chain) \cup {n}
    BY <1>1, <1>2, AppendEntries DEF ChainInv, TypeOK
  <1>6. QED BY <1>4, <1>5 DEF n

LEMMA AtHead ==
    ASSUME TypeOK, queue # <<>>
    PROVE  Head(queue) \in AllCmds \ {"drop"} /\ Tail(queue) \in Seq(AllCmds \ {"drop"})
           /\ at \in {0, 1, 2}
  BY HeadTail DEF TypeOK

LEMMA NoHandlerYet ==
    ASSUME ChainInv, at = 0
    PROVE  \A e \in Entries(chain) : e.by # "handler"
  <1>1. ~(at > 0)
    OBVIOUS
  <1>2. \A e \in Entries(chain) : e.by = "handler" => at > 0
    BY DEF ChainInv, EntryRight
  <1>3. QED BY <1>1, <1>2

\* The handler at the head of the queue is over.
LEMMA ChainFinished ==
    ASSUME TypeOK, ChainInv, NEW ok \in BOOLEAN, Result("handler", ok), chain' = Tail(chain),
           queue # <<>>, Handled, conn' = conn \/ conn = "open"
    PROVE  ChainInv'
  <1>1. /\ OneCall' /\ OneOfEach(chain') /\ Entries(chain') \subseteq Entries(chain)
        /\ \A e \in Entries(chain') : e.by # "handler"
    BY TakenOff
  <1>2. AtRight'
    <2>1. at' = 0 /\ queue' \in Seq(AllCmds \ {"drop"})
      BY AtHead DEF Handled
    <2>2. queue' # <<>> => Len(Steps[Head(queue')]) \in {1, 2}
      BY <2>1, HeadTail, StepsRight
    <2>3. QED BY <2>1, <2>2 DEF AtRight
  <1>3. \A e \in Entries(chain') : EntryRight(e)'
    BY <1>1 DEF ChainInv, EntryRight
  <1>4. QED BY <1>1, <1>2, <1>3 DEF ChainInv

LEMMA ChainAnswered ==
    ASSUME TypeOK, ChainInv, NEW ok \in BOOLEAN, NEW c \in AllCmds,
           \/ Resumed(ok) \/ Stepped(ok) \/ Read(ok) \/ HaltedAgain(ok)
           \/ Interrupted(ok) \/ Killed(ok)
           \/ Wrote(c, ok) \/ Monitored(c, ok) \/ Detached(c, ok)
    PROVE  ChainInv'
  <1>1. \E d \in AllCmds : Answered(d, ok)
    BY DEF Resumed, Stepped, Read, HaltedAgain, Interrupted, Killed, Wrote, Monitored,
           Detached, AllCmds
  <1>2. Handled /\ (conn' = conn \/ conn = "open")
    BY DEF Resumed, Stepped, Read, HaltedAgain, Interrupted, Killed, Wrote, Monitored,
           Detached, Rested
  <1>3. QED BY <1>1, <1>2, ChainFinished DEF Answered, Handling

\* A handler goes on to its second call.
LEMMA ChainSecond ==
    ASSUME TypeOK, ChainInv, NEW ok \in BOOLEAN, Restarted(ok) \/ KillResets(ok)
    PROVE  ChainInv'
  <1>1. CASE Restarted(ok) /\ ~ok
    BY <1>1, ChainFinished DEF Restarted, Handling, Rested
  <1>2. ASSUME NEW c \in {"reset", "k"}, Handling(c), at = 1, Result("handler", ok), at' = 2,
               queue' = queue, conn' = conn,
               chain' = Append(Tail(chain), [by |-> "handler", ops |-> Steps[c][2]])
        PROVE  ChainInv'
    <2>1. queue # <<>> /\ Head(queue) = c
      BY <1>2 DEF Handling
    <2>2. Steps[c][2] \in Seq(Ops) /\ Steps[c][2] # <<>> /\ Steps[c][2] \in Programs
          /\ Len(Steps[c]) = 2 /\ "handler" \in Callers
      BY StepsType, StepsRight DEF Callers
    <2>3. /\ OneCall' /\ OneOfEach(chain')
          /\ \A e \in Entries(chain') :
                e = [by |-> "handler", ops |-> Steps[c][2]]
                \/ (e \in Entries(chain) /\ e.by # "handler")
      BY <1>2, <2>2, PutBehind
    <2>4. AtRight'
      BY <1>2, <2>1, <2>2 DEF AtRight
    <2>5. EntryRight([by |-> "handler", ops |-> Steps[c][2]])'
      BY <1>2, <2>1, <2>2 DEF EntryRight
    <2>6. \A e \in Entries(chain) : e.by # "handler" => EntryRight(e)'
      BY <1>2 DEF ChainInv, EntryRight
    <2>7. QED BY <2>3, <2>4, <2>5, <2>6 DEF ChainInv
  <1>3. CASE Restarted(ok) /\ ok
    <2>1. /\ Handling("reset") /\ at = 1 /\ Result("handler", ok) /\ at' = 2 /\ queue' = queue
          /\ conn' = conn
          /\ chain' = Append(Tail(chain), [by |-> "handler", ops |-> Steps["reset"][2]])
      BY <1>3 DEF Restarted, Rested
    <2>2. QED BY <1>2, <2>1
  <1>4. CASE KillResets(ok)
    <2>1. /\ Handling("k") /\ at = 1 /\ Result("handler", ok) /\ at' = 2 /\ queue' = queue
          /\ conn' = conn
          /\ chain' = Append(Tail(chain), [by |-> "handler", ops |-> Steps["k"][2]])
      BY <1>4 DEF KillResets
    <2>2. QED BY <1>2, <2>1
  <1>5. QED BY <1>1, <1>3, <1>4

LEMMA ChainOthers ==
    ASSUME TypeOK, ChainInv, NEW ok \in BOOLEAN, Released(ok) \/ Started(ok) \/ WebResult(ok)
    PROVE  ChainInv'
  <1>1. UNCHANGED <<queue, at>>
    BY DEF Released, Started, WebResult
  <1>2. AtRight'
    BY <1>1 DEF ChainInv, AtRight
  <1>3. CASE Released(ok)
    <2>1. /\ OneCall' /\ OneOfEach(chain') /\ Entries(chain') \subseteq Entries(chain)
          /\ \A e \in Entries(chain') : e.by # "release"
      BY <1>3, TakenOff DEF Released
    <2>2. \A e \in Entries(chain') : EntryRight(e)'
      BY <1>1, <2>1 DEF ChainInv, EntryRight
    <2>3. QED BY <1>2, <2>1, <2>2 DEF ChainInv
  <1>4. CASE Started(ok) \/ (WebResult(ok) /\ ~(web = "flash" /\ ok))
    <2>1. conn' = conn /\ chain' = Tail(chain) /\ \E by : Result(by, ok)
      BY <1>4 DEF Started, WebResult
    <2>2. OneCall' /\ OneOfEach(chain') /\ Entries(chain') \subseteq Entries(chain)
      BY <2>1, TakenOff
    <2>3. \A e \in Entries(chain') : EntryRight(e)'
      BY <1>1, <2>1, <2>2 DEF ChainInv, EntryRight
    <2>4. QED BY <1>2, <2>2, <2>3 DEF ChainInv
  <1>5. CASE WebResult(ok) /\ web = "flash" /\ ok
    <2>1. /\ conn' = conn /\ Result("web", ok)
          /\ chain' = Append(Tail(chain), [by |-> "web", ops |-> <<"resetRun">>])
      BY <1>5 DEF WebResult
    <2>2. "web" \in Callers /\ "resetRun" \in Ops
      BY DEF Callers, Ops, Starting
    <2>3. <<"resetRun">> \in Seq(Ops) /\ <<"resetRun">> # <<>> /\ <<"resetRun">> \in Programs
      <3>1. \A o \in Ops : <<o>> \in Seq(Ops) /\ <<o>> # <<>>
        OBVIOUS
      <3>2. QED BY <2>2, <3>1 DEF Programs
    <2>4. /\ OneCall' /\ OneOfEach(chain')
          /\ \A e \in Entries(chain') :
                e = [by |-> "web", ops |-> <<"resetRun">>] \/ e \in Entries(chain)
      BY <2>1, <2>2, <2>3, PutBehind
    <2>5. "resetRun" \in WebAsks
      BY <1>5 DEF TypeOK, WebAsks
    <2>6. EntryRight([by |-> "web", ops |-> <<"resetRun">>])'
      BY <2>3, <2>5 DEF EntryRight
    <2>7. \A e \in Entries(chain) : EntryRight(e)'
      BY <1>1, <2>1 DEF ChainInv, EntryRight
    <2>8. QED BY <1>2, <2>4, <2>6, <2>7 DEF ChainInv
  <1>6. QED BY <1>3, <1>4, <1>5

\* Events, and packets that are answered without a call.
LEMMA ChainQuiet ==
    ASSUME TypeOK, ChainInv,
           \/ HaltedEvent \/ \E t \in {"usb-connect", "usb-disconnect"} : UsbEvent(t)
           \/ ReadsCache \/ IgnoresInterrupt \/ GdbInterrupts \/ Sends
           \/ \E c \in AllCmds : GdbSends(c)
    PROVE  ChainInv'
  <1>1. CASE HaltedEvent \/ \E t \in {"usb-connect", "usb-disconnect"} : UsbEvent(t)
    <2>1. Heard(FALSE) /\ UNCHANGED <<conn, queue, at, chain>>
      BY <1>1 DEF HaltedEvent, UsbEvent, Receives, Heard
    <2>2. OneCall'
      BY <2>1, OneCallMove DEF ChainInv
    <2>3. QED BY <2>1, <2>2 DEF ChainInv, AtRight, EntryRight
  <1>2. CASE ReadsCache \/ IgnoresInterrupt
    <2>1. /\ UNCHANGED <<mutex, wire, sent, chain, conn>> /\ queue # <<>> /\ at = 0 /\ Handled
      BY <1>2 DEF ReadsCache, IgnoresInterrupt, probeVars
    <2>2. OneCall'
      BY <2>1, OneCallMove DEF ChainInv, Asked
    <2>3. AtRight'
      <3>1. at' = 0 /\ queue' \in Seq(AllCmds \ {"drop"})
        BY <2>1, AtHead DEF Handled
      <3>2. queue' # <<>> => Len(Steps[Head(queue')]) \in {1, 2}
        BY <3>1, HeadTail, StepsRight
      <3>3. QED BY <3>1, <3>2 DEF AtRight
    <2>4. \A e \in Entries(chain) : e.by # "handler"
      BY <2>1, NoHandlerYet
    <2>5. \A e \in Entries(chain) : EntryRight(e)'
      BY <2>1, <2>4 DEF ChainInv, EntryRight
    <2>6. QED BY <2>1, <2>2, <2>3, <2>5 DEF ChainInv
  <1>3. CASE GdbInterrupts \/ \E c \in AllCmds : GdbSends(c)
    <2>1. UNCHANGED <<mutex, wire, sent, chain, conn, at>>
      BY <1>3 DEF GdbInterrupts, GdbSends, probeVars
    <2>2. PICK x \in AllCmds \ {"drop"} : queue' = Append(queue, x)
      BY <1>3 DEF GdbInterrupts, GdbSends, AllCmds
    <2>3. OneCall'
      BY <2>1, OneCallMove DEF ChainInv, Asked
    <2>4. queue' # <<>> /\ (queue # <<>> => Head(queue') = Head(queue))
          /\ (queue = <<>> => Head(queue') = x)
      BY <2>2 DEF TypeOK
    <2>5. AtRight'
      BY <2>1, <2>4, StepsRight DEF ChainInv, AtRight
    <2>6. \A e \in Entries(chain) : EntryRight(e)'
      BY <2>1, <2>4 DEF ChainInv, EntryRight
    <2>7. QED BY <2>1, <2>3, <2>5, <2>6 DEF ChainInv
  <1>4. CASE Sends
    <2>1. UNCHANGED <<chain, conn, queue, at>>
      BY <1>4 DEF Sends, sessVars
    <2>2. OneCall'
      BY <1>4, OneCallMove DEF ChainInv
    <2>3. QED BY <2>1, <2>2 DEF ChainInv, AtRight, EntryRight
  <1>5. QED BY <1>1, <1>2, <1>3, <1>4

LEMMA ChainRequests ==
    ASSUME TypeOK, ChainInv,
           \/ Connect \/ Drops \/ (\E c \in AllCmds : Begins(c))
           \/ \E o \in WebOps : WebCalls(o)
    PROVE  ChainInv'
  <1>1. CASE Connect
    <2>1. /\ UNCHANGED <<mutex, wire, sent, queue, at>> /\ queue = <<>> /\ at = 0
          /\ Calls("start", StartCalls)
      BY <1>1 DEF Connect, probeVars, StartCalls
    <2>2. \A e \in Entries(chain) : e.by = "web"
      BY <1>1 DEF Connect, Entries
    <2>3. /\ OneCall' /\ OneOfEach(chain')
          /\ Entries(chain') = Entries(chain) \cup {[by |-> "start", ops |-> StartCalls]}
      BY <2>1, <2>2, NewCall
    <2>4. EntryRight([by |-> "start", ops |-> StartCalls])'
      BY DEF EntryRight, Programs
    <2>5. \A e \in Entries(chain) : EntryRight(e)'
      BY <2>2 DEF ChainInv, EntryRight
    <2>6. QED BY <2>1, <2>3, <2>4, <2>5 DEF ChainInv, AtRight
  <1>2. CASE Drops
    <2>1. /\ UNCHANGED <<mutex, wire, sent, queue, at>> /\ conn \in {"open", "ended"}
          /\ conn' \in {"down", "over"} /\ Calls("release", ReleaseCalls)
      BY <1>2 DEF Drops, probeVars, Release, ReleaseCalls
    <2>2. \A e \in Entries(chain) : e.by # "release"
      BY <2>1 DEF ChainInv, EntryRight
    <2>3. /\ OneCall' /\ OneOfEach(chain')
          /\ Entries(chain') = Entries(chain) \cup {[by |-> "release", ops |-> ReleaseCalls]}
      BY <2>1, <2>2, NewCall
    <2>4. EntryRight([by |-> "release", ops |-> ReleaseCalls])'
      BY <2>1 DEF EntryRight, Programs
    <2>5. \A e \in Entries(chain) : EntryRight(e)'
      BY <2>1, <2>2 DEF ChainInv, EntryRight
    <2>6. QED BY <2>1, <2>3, <2>4, <2>5 DEF ChainInv, AtRight
  <1>3. ASSUME NEW c \in AllCmds, Begins(c) PROVE ChainInv'
    <2>1. /\ UNCHANGED <<mutex, wire, sent, queue, conn>> /\ queue # <<>> /\ Head(queue) = c
          /\ at = 0 /\ at' = 1 /\ Calls("handler", Steps[c][1])
      BY <1>3 DEF Begins, probeVars
    <2>2. \A e \in Entries(chain) : e.by # "handler"
      BY <2>1, NoHandlerYet
    <2>3. /\ OneCall' /\ OneOfEach(chain')
          /\ Entries(chain') = Entries(chain) \cup {[by |-> "handler", ops |-> Steps[c][1]]}
      BY <2>1, <2>2, NewCall
    <2>4. Len(Steps[c]) \in {1, 2} /\ Steps[c][1] \in Programs
      BY <2>1, AtHead, StepsRight
    <2>5. EntryRight([by |-> "handler", ops |-> Steps[c][1]])'
      BY <2>1, <2>4 DEF EntryRight
    <2>6. \A e \in Entries(chain) : EntryRight(e)'
      BY <2>1, <2>2 DEF ChainInv, EntryRight
    <2>7. QED BY <2>1, <2>3, <2>4, <2>5, <2>6 DEF ChainInv, AtRight
  <1>4. ASSUME NEW o \in WebOps, WebCalls(o) PROVE ChainInv'
    <2>1. UNCHANGED <<mutex, wire, sent, queue, conn, at>> /\ Calls("web", <<o>>)
      BY <1>4 DEF WebCalls, probeVars
    <2>2. /\ OneCall' /\ OneOfEach(chain')
          /\ Entries(chain') = Entries(chain) \cup {[by |-> "web", ops |-> <<o>>]}
      BY <2>1, NewCall
    <2>3. o \in Ops /\ o \in WebAsks
      BY GdbAssumption DEF Ops, Halting, Starting, WebAsks
    <2>4. EntryRight([by |-> "web", ops |-> <<o>>])'
      BY <2>3 DEF EntryRight, Programs
    <2>5. \A e \in Entries(chain) : EntryRight(e)'
      BY <2>1 DEF ChainInv, EntryRight
    <2>6. QED BY <2>1, <2>2, <2>4, <2>5 DEF ChainInv, AtRight
  <1>5. QED BY <1>1, <1>2, <1>3, <1>4

LEMMA ChainStep ==
    ASSUME TypeOK, ChainInv, [Next]_vars
    PROVE  ChainInv'
  <1>1. CASE \/ ByProbe(Work) \/ ByProbe(TimerFires) \/ ByProbe(StrayFires)
             \/ ByProbe(DisconnectEvent) \/ ByProbe(ConnectEvent) \/ ByProbe(World)
    BY <1>1, ChainProbe DEF ByProbe, ProbeStep
  <1>2. CASE Arrives
    BY <1>2, ChainAnswered, ChainSecond, ChainOthers, ChainQuiet DEF Arrives, AllCmds
  <1>3. CASE Turns
    BY <1>3, ChainRequests, ChainQuiet DEF Turns
  <1>4. CASE UNCHANGED vars
    <2>1. UNCHANGED <<mutex, wire, sent, chain, conn, queue, at>>
      BY <1>4 DEF vars, probeVars, sessVars
    <2>2. OneCall'
      BY <2>1, OneCallMove DEF ChainInv, Asked
    <2>3. QED BY <2>1, <2>2 DEF ChainInv, AtRight, EntryRight
  <1>5. QED BY <1>1, <1>2, <1>3, <1>4, ChainQuiet, ChainRequests DEF Next

LEMMA ChainInit == Init => ChainInv
  <1>1. CallOps(<<>>) = {} /\ RepliesIn(<<>>) = {} /\ OneCallIn(<<>>) /\ OneReplyIn(<<>>)
        /\ Entries(<<>>) = {} /\ OneOfEach(<<>>)
    BY DEF CallOps, RepliesIn, OneCallIn, OneReplyIn, Entries, OneOfEach
  <1>2. QED BY <1>1 DEF Init, ProbeInit, ChainInv, OneCall, SingleCall, AtRight

-----------------------------------------------------------------------------
(* LeftRunning.  The release of a session that has no call left to make:    *)
(* nothing but what the controller asks for comes after it, and nothing     *)
(* that it has disarmed is armed again.  A breakpoint that was forgotten    *)
(* stays so until the cable is pulled.                                      *)

LastCall == queue = <<>> \/ (Len(queue) = 1 /\ at = Len(Steps[Head(queue)]))
WebBehind(q) == \A i, j \in DOMAIN q : i < j /\ q[i].by = "release" => q[j].by = "web"
Releasing == chain # <<>> /\ Head(chain).by = "release"

LinkConnected == link => usbState = "connected"

Leaving ==
    left = "clean" => link /\ LastCall /\ conn \notin {"open", "ended"} /\ WebBehind(chain)

Disarmed == astray \/ ~armed
RunsOn == astray \/ (core = "run" /\ ~armed)

Freed ==
    /\ freed => conn = "none"
    /\ freed /\ left = "clean" => RunsOn /\ \A e \in Entries(chain) : e.by = "web"

Freeing ==
    left = "clean" /\ Releasing =>
        /\ <<"run">> \in CallOps(mutex) => Disarmed
        /\ TRUE \in RepliesIn(wire) => RunsOn

LeftInv == LinkConnected /\ Leaving /\ Freed /\ Freeing

LEMMA LinkProbe ==
    ASSUME ProbeTypeOK, LinkConnected, ProbeStep
    PROVE  LinkConnected'
  <1> USE DEF LinkConnected
  <1>1. ASSUME NEW o \in Ops, Halts(o) \/ Starts(o) \/ Accesses(o) \/ Refused(o) \/ NoDevice(o)
        PROVE  LinkConnected'
    BY <1>1 DEF Halts, Starts, Accesses, Refused, NoDevice
  <1>2. ASSUME NEW o \in Ops, Breaks(o) PROVE LinkConnected'
    BY <1>2 DEF Breaks
  <1>3. CASE GetState \/ Polls \/ PollRefused \/ PollBreaks \/ PollSkips \/ StalePoll
    BY <1>3 DEF GetState, Polls, PollRefused, PollBreaks, PollSkips, StalePoll
  <1>4. CASE Attaches
    BY <1>4 DEF Attaches
  <1>5. CASE Attached \/ Detaches \/ Goes
    BY <1>5 DEF Attached, Detaches, Goes
  <1>6. CASE TimerFires \/ StrayFires \/ DisconnectEvent \/ ConnectEvent \/ World
    BY <1>6 DEF TimerFires, StrayFires, DisconnectEvent, ConnectEvent, World, Unplug, Plug,
                Hit, UserAsks
  <1>7. QED BY <1>1, <1>2, <1>3, <1>4, <1>5, <1>6 DEF ProbeStep, Work

\* The operation a call comes to is one of its program's.
LEMMA HeadOfCall ==
    ASSUME TypeOK, ChainInv, NEW ops \in CallOps(mutex)
    PROVE  /\ sent /\ chain # <<>> /\ Head(chain) \in Entries(chain)
           /\ Head(chain).by \in Callers
           /\ EntryRight(Head(chain)) /\ ops \in Remains(Head(chain).ops)
  <1>1. sent /\ chain # <<>> /\ ops \in Remains(Head(chain).ops)
    BY DEF ChainInv, OneCall
  <1>2. Head(chain) \in Entries(chain) /\ Head(chain) \in Requested
    BY <1>1, TailEntries, HeadTail DEF ChainInv, TypeOK
  <1>3. QED BY <1>1, <1>2 DEF ChainInv, Requested

LEMMA WebRemains ==
    ASSUME NEW o \in Ops
    PROVE  Remains(<<o>>) = {<<o>>} /\ Head(<<o>>) = o /\ Len(<<o>>) = 1
  <1>1. Len(<<o>>) = 1 /\ Head(<<o>>) = o
    OBVIOUS
  <1>2. Len(StartCalls) = 3 /\ Len(ReleaseCalls) = 3 /\ Len(KillCalls) = 2
    BY DEF StartCalls, ReleaseCalls, KillCalls
  <1> DEFINE p == <<o>>
  <1>3. Len(p) = 1
    BY <1>1
  <1> HIDE DEF p
  <1>a. p # StartCalls
    BY <1>2, <1>3
  <1>b. p # ReleaseCalls
    BY <1>2, <1>3
  <1>c. p # KillCalls
    BY <1>2, <1>3
  <1>4. Remains(p) = {p}
    BY <1>a, <1>b, <1>c DEF Remains
  <1>5. QED BY <1>1, <1>4 DEF p

LEMMA ReleaseRemains ==
    Remains(ReleaseCalls) = {ReleaseCalls, <<"catchOff", "run">>, <<"run">>}
  <1>1. /\ ReleaseCalls[1] = "clearAll" /\ StartCalls[1] = "halt"
        /\ Len(ReleaseCalls) = 3 /\ Len(KillCalls) = 2
    BY DEF ReleaseCalls, StartCalls, KillCalls
  <1>2. ReleaseCalls # StartCalls /\ ReleaseCalls # KillCalls
    BY <1>1
  <1>3. QED BY <1>2 DEF Remains

LEMMA LeftProbe ==
    ASSUME WebOps \subseteq {"getState", "run", "resetRun"},
           TypeOK, ChainInv, LeftInv, ProbeStep, UNCHANGED <<chain, sent, conn, queue, at, freed>>,
           left' = IF link' \/ left = "open" THEN left ELSE "cut"
    PROVE  LeftInv'
  <1>1. ProbeTypeOK /\ SingleCall /\ LinkConnected
    BY DEF TypeOK, ChainInv, OneCall, LeftInv
  <1>2. LinkConnected'
    BY <1>1, LinkProbe
  <1>3. CASE left' # "clean"
    BY <1>2, <1>3 DEF LeftInv, Leaving, Freed, Freeing
  <1>4. CASE left' = "clean"
    <2>1. left = "clean" /\ link' /\ link /\ usbState = "connected"
      BY <1>4 DEF LeftInv, Leaving, LinkConnected
    <2>2. Leaving'
      BY <2>1 DEF LeftInv, Leaving, LastCall
    <2>a. CASE astray
      <3>1. ASSUME Aside PROVE astray'
        BY <2>1, <2>a, <3>1 DEF Aside
      <3>2. ASSUME NEW ops, NEW ok \in BOOLEAN, Served(ops, ok)
            PROVE  astray'
        BY <2>a, <3>2 DEF Served, Effect
      <3>3. astray'
        BY <1>1, <3>1, <3>2, ProbeMove DEF ServedAt
      <3>4. Freed' /\ Freeing'
        BY <2>1, <3>3 DEF LeftInv, Freed, Freeing, RunsOn, Disarmed
      <3>5. QED BY <1>2, <2>2, <3>4 DEF LeftInv
    <2>3. CASE ~astray /\ Aside
      <3>1. core = "run" /\ ~armed => core' = "run"
        BY <2>1, <2>3 DEF Aside
      <3>2. ~armed => ~armed'
        BY <2>3 DEF Aside
      <3>3. CallOps(mutex') = CallOps(mutex) /\ RepliesIn(wire') = RepliesIn(wire)
        BY <2>3 DEF Aside
      <3>4. (RunsOn => RunsOn') /\ (Disarmed => Disarmed')
        BY <2>3, <3>1, <3>2 DEF RunsOn, Disarmed
      <3>5. Freed' /\ Freeing'
        BY <2>1, <3>3, <3>4 DEF LeftInv, Freed, Freeing, Releasing
      <3>6. QED BY <1>2, <2>2, <3>5 DEF LeftInv
    <2>4. ASSUME ~astray, NEW ops, NEW ok \in BOOLEAN, Served(ops, ok)
          PROVE  LeftInv'
      <3>1. ops \in CallOps(mutex) /\ Effect(Head(ops), ok)
        BY <2>4 DEF Served
      <3>2. Head(chain) \in Entries(chain) /\ EntryRight(Head(chain))
            /\ ops \in Remains(Head(chain).ops) /\ chain # <<>>
        BY <3>1, HeadOfCall
      <3>3. Freed'
        <4> SUFFICES ASSUME freed, left = "clean"
                     PROVE  core' = "run" /\ ~armed'
          BY <2>1 DEF LeftInv, Freed, RunsOn
        <4>1. core = "run" /\ ~armed /\ Head(chain).by = "web"
          BY <2>4, <3>2 DEF LeftInv, Freed, RunsOn
        <4>2. PICK o \in WebOps : Head(chain).ops = <<o>>
          BY <3>2, <4>1 DEF EntryRight, WebAsks
        <4>3. o \in {"getState", "run", "resetRun"} /\ o \in Ops
          BY DEF Ops, Starting
        <4>4. Head(ops) = o
          BY <3>2, <4>2, <4>3, WebRemains
        <4>5. o \notin Halting /\ (o \in Starting \/ o = "getState")
          BY <4>3 DEF Halting, Starting
        <4>6. o \notin Arming \cup {"catchOff"} /\ o # "halt"
          BY <4>3 DEF Arming
        <4>7. armed' = armed
          BY <3>1, <4>4, <4>6 DEF Effect
        <4>8. core' = "run"
          <5>1. CASE ok
            BY <3>1, <4>1, <4>4, <4>5, <5>1 DEF Effect
          <5>2. CASE ~ok
            <6>1. Perhaps(o) \subseteq {"run"}
              BY <4>1, <4>5, <4>6 DEF Perhaps
            <6>2. QED BY <3>1, <4>1, <4>4, <5>2, <6>1 DEF Effect
          <5>3. QED BY <5>1, <5>2
        <4>9. QED BY <4>1, <4>7, <4>8
      <3>4. Freeing'
        <4> SUFFICES ASSUME Head(chain).by = "release", left = "clean"
                     PROVE  /\ <<"run">> \in CallOps(mutex') => ~armed'
                            /\ TRUE \in RepliesIn(wire') => core' = "run" /\ ~armed'
          BY <2>1 DEF Freeing, Releasing, RunsOn, Disarmed
        <4>1. ops \in {<<"clearAll", "catchOff", "run">>, <<"catchOff", "run">>, <<"run">>}
          <5>1. Head(chain).ops = ReleaseCalls
            BY <3>2 DEF EntryRight
          <5>3. Remains(ReleaseCalls) = {ReleaseCalls, <<"catchOff", "run">>, <<"run">>}
            BY ReleaseRemains
          <5>4. QED BY <3>2, <5>1, <5>3 DEF ReleaseCalls
        <4>2. CASE ~ok
          BY <2>4, <4>2 DEF Served
        <4>3. CASE ok /\ ops = <<"run">>
          <5>1. CallOps(mutex') = {} /\ Head(ops) = "run" /\ <<"run">> \in CallOps(mutex)
            BY <2>4, <4>3 DEF Served
          <5>2. ~armed /\ "run" \in Starting
            BY <2>4, <5>1, <3>2 DEF LeftInv, Freeing, Releasing, Starting, Disarmed
          <5>3. core' = "run" /\ armed' = armed
            BY <3>1, <4>3, <5>1, <5>2 DEF Effect, Arming
          <5>4. QED BY <5>1, <5>2, <5>3
        <4>4. CASE ok /\ ops = <<"catchOff", "run">>
          <5>1. RepliesIn(wire') = {} /\ Head(ops) = "catchOff"
            BY <2>4, <4>4 DEF Served
          <5>2. ~armed'
            BY <3>1, <4>4, <5>1 DEF Effect
          <5>3. QED BY <5>1, <5>2
        <4>5. CASE ok /\ ops = <<"clearAll", "catchOff", "run">>
          <5>1. RepliesIn(wire') = {} /\ CallOps(mutex') = {<<"catchOff", "run">>}
            BY <2>4, <4>5 DEF Served
          <5>2. QED BY <5>1
        <4>6. QED BY <4>1, <4>2, <4>3, <4>4, <4>5
      <3>5. QED BY <1>2, <2>2, <3>3, <3>4 DEF LeftInv
    <2>5. QED BY <1>1, <2>a, <2>3, <2>4, ProbeMove DEF ServedAt
  <1>5. QED BY <1>3, <1>4

LEMMA WebBehindTail ==
    ASSUME NEW q \in Seq(Requested), q # <<>>, WebBehind(q)
    PROVE  WebBehind(Tail(q)) /\ (Head(q).by = "release" => \A e \in Entries(Tail(q)) : e.by = "web")
  <1> DEFINE t == Tail(q)
  <1>1. /\ Head(q) = q[1] /\ 1 \in DOMAIN q /\ DOMAIN t \subseteq Nat \ {0}
        /\ \A i \in DOMAIN t : i + 1 \in DOMAIN q /\ t[i] = q[i + 1]
    BY TailAt
  <1> HIDE DEF t
  <1>2. WebBehind(t)
    <2> SUFFICES ASSUME NEW i \in DOMAIN t, NEW j \in DOMAIN t, i < j, t[i].by = "release"
                 PROVE  t[j].by = "web"
      BY DEF WebBehind
    <2>1. i + 1 < j + 1
      BY <1>1
    <2>2. QED BY <1>1, <2>1 DEF WebBehind
  <1>3. ASSUME Head(q).by = "release", NEW i \in DOMAIN t PROVE t[i].by = "web"
    <2>1. 1 < i + 1
      BY <1>1
    <2>2. QED BY <1>1, <1>3, <2>1 DEF WebBehind
  <1>4. QED BY <1>2, <1>3 DEF t, Entries

LEMMA WebBehindAppend ==
    ASSUME NEW q \in Seq(Requested), NEW e,
           \/ e.by = "web" /\ WebBehind(q)
           \/ \A f \in Entries(q) : f.by # "release"
    PROVE  WebBehind(Append(q, e))
  <1> DEFINE a == Append(q, e)
  <1>1. /\ DOMAIN q \subseteq Int /\ Len(q) + 1 \in Int /\ a[Len(q) + 1] = e
        /\ \A i \in DOMAIN q : i < Len(q) + 1 /\ a[i] = q[i]
        /\ \A i \in DOMAIN a : i \in DOMAIN q \/ i = Len(q) + 1
    BY AppendAt
  <1> HIDE DEF a
  <1>2. ASSUME NEW i \in DOMAIN a, NEW j \in DOMAIN a, i < j, a[i].by = "release"
        PROVE  a[j].by = "web"
    <2>1. i \in DOMAIN q
      <3>1. i # Len(q) + 1
        BY <1>1, <1>2
      <3>2. QED BY <1>1, <3>1
    <2>2. q[i].by = "release" /\ q[i] \in Entries(q)
      BY <1>1, <1>2, <2>1 DEF Entries
    <2>3. e.by = "web" /\ WebBehind(q)
      BY <2>2
    <2>4. QED BY <1>1, <1>2, <2>1, <2>2, <2>3 DEF WebBehind
  <1>3. WebBehind(a)
    BY <1>2 DEF WebBehind
  <1>4. QED BY <1>3 DEF a

\* The processor and the cable are not touched.
ProbeRests == UNCHANGED <<core, armed, astray, link, usbState>>

LEMMA NothingWaits ==
    ASSUME OneCall, ~sent
    PROVE  CallOps(mutex) = {} /\ RepliesIn(wire) = {}
  BY DEF OneCall

\* The result of a call of a session, of which no more than one is left to make.
LEMMA LeftResult ==
    ASSUME TypeOK, TypeOK', ChainInv, ChainInv', LeftInv, ProbeRests,
           NEW by, NEW ok \in BOOLEAN, Result(by, ok), chain' = Tail(chain),
           \/ by = "release" /\ conn' = "none" /\ freed' = ok
           \/ by # "release" /\ freed' = freed /\ (conn' = conn \/ conn = "open"),
           \/ UNCHANGED <<queue, at>> \/ (queue # <<>> /\ Handled),
           left' = left
    PROVE  LeftInv'
  <1>1. /\ wire # <<>> /\ Head(wire).type = "reply" /\ Head(wire).ok = ok
        /\ chain # <<>> /\ Head(chain).by = by /\ sent' = FALSE
    BY ResultHeard DEF Heard
  <1>2. CallOps(mutex') = {} /\ RepliesIn(wire') = {}
    BY <1>1 DEF ChainInv, OneCall
  <1>3. ok \in RepliesIn(wire)
    BY <1>1, TailReplies DEF ChainInv, OneCall, SingleCall, TypeOK, ProbeTypeOK
  <1>4. LinkConnected'
    BY DEF ProbeRests, LeftInv, LinkConnected
  <1>5. Freeing'
    BY <1>2 DEF Freeing
  <1>6. Leaving'
    <2> SUFFICES ASSUME left = "clean"
                 PROVE  link /\ LastCall' /\ conn' \notin {"open", "ended"} /\ WebBehind(chain')
      BY DEF Leaving, ProbeRests
    <2>1. link /\ LastCall /\ conn \notin {"open", "ended"} /\ WebBehind(chain)
      BY DEF LeftInv, Leaving
    <2>2. WebBehind(chain')
      BY <1>1, <2>1, WebBehindTail DEF TypeOK
    <2>3. conn' \notin {"open", "ended"}
      BY <2>1
    <2>4. LastCall'
      <3>1. CASE UNCHANGED <<queue, at>>
        BY <2>1, <3>1 DEF LastCall
      <3>2. CASE queue # <<>> /\ Handled
        <4>1. Len(queue) = 1 /\ queue' = Tail(queue)
          BY <2>1, <3>2 DEF LastCall, Handled
        <4>2. queue' = <<>>
          BY <4>1 DEF TypeOK
        <4>3. QED BY <4>2 DEF LastCall
      <3>3. QED BY <3>1, <3>2
    <2>5. QED BY <2>1, <2>2, <2>3, <2>4
  <1>7. Freed'
    <2>1. CASE by = "release"
      <3> SUFFICES ASSUME ok, left = "clean"
                   PROVE  RunsOn /\ \A e \in Entries(chain') : e.by = "web"
        BY <2>1 DEF Freed, ProbeRests, RunsOn
      <3>1. RunsOn
        <4>1. TRUE \in RepliesIn(wire)
          <5>1. ok = TRUE
            OBVIOUS
          <5>2. QED BY <1>3, <5>1
        <4>2. QED BY <1>1, <2>1, <4>1 DEF LeftInv, Freeing, Releasing
      <3>2. WebBehind(chain)
        BY DEF LeftInv, Leaving
      <3>3. QED BY <1>1, <2>1, <3>1, <3>2, WebBehindTail DEF TypeOK
    <2>2. CASE by # "release"
      <3>1. freed' = freed /\ (freed => conn = "none") /\ (conn' = conn \/ conn = "open")
        BY <2>2 DEF LeftInv, Freed
      <3>2. freed /\ left = "clean" => RunsOn /\ \A e \in Entries(chain) : e.by = "web"
        BY DEF LeftInv, Freed
      <3>3. Entries(chain') \subseteq Entries(chain)
        BY <1>1, TailEntries DEF ChainInv, TypeOK
      <3>4. QED BY <3>1, <3>2, <3>3 DEF Freed, ProbeRests, RunsOn
    <2>3. QED BY <2>1, <2>2
  <1>8. QED BY <1>4, <1>5, <1>6, <1>7 DEF LeftInv

\* A handler that begins or goes on: its session had a call left to make.
LEMMA LeftCalled ==
    ASSUME LeftInv, ProbeRests, ~LastCall, left' = left, freed' = freed,
           conn' = conn \/ conn = "open"
    PROVE  LeftInv'
  <1>1. left # "clean"
    BY DEF LeftInv, Leaving
  <1>2. QED BY <1>1 DEF LeftInv, ProbeRests, LinkConnected, Leaving, Freed, Freeing

LEMMA LeftArrives ==
    ASSUME WebOps \subseteq {"getState", "run", "resetRun"},
           TypeOK, TypeOK', ChainInv, ChainInv', LeftInv, ProbeRests, Arrives
    PROVE  LeftInv'
  <1>1. ASSUME NEW ok \in BOOLEAN, NEW c \in AllCmds,
               \/ Resumed(ok) \/ Stepped(ok) \/ Read(ok) \/ HaltedAgain(ok)
               \/ Interrupted(ok) \/ Killed(ok)
               \/ Wrote(c, ok) \/ Monitored(c, ok) \/ Detached(c, ok)
        PROVE  LeftInv'
    <2>1. \E d \in AllCmds : Answered(d, ok)
      BY <1>1 DEF Resumed, Stepped, Read, HaltedAgain, Interrupted, Killed, Wrote, Monitored,
             Detached, AllCmds
    <2>2. Handled /\ (conn' = conn \/ conn = "open") /\ left' = left /\ freed' = freed
      BY <1>1 DEF Resumed, Stepped, Read, HaltedAgain, Interrupted, Killed, Wrote, Monitored,
             Detached, Rested
    <2>3. Result("handler", ok) /\ chain' = Tail(chain) /\ queue # <<>>
      BY <2>1 DEF Answered, Handling
    <2>4. QED BY <2>2, <2>3, LeftResult
  <1>2. ASSUME NEW ok \in BOOLEAN, Restarted(ok) \/ KillResets(ok)
        PROVE  LeftInv'
    <2>1. CASE Restarted(ok) /\ ~ok
      <3>1. /\ Result("handler", ok) /\ chain' = Tail(chain) /\ queue # <<>> /\ Handled
            /\ conn' = conn /\ left' = left /\ freed' = freed
        BY <2>1 DEF Restarted, Handling, Rested
      <3>2. QED BY <3>1, LeftResult
    <2>2. CASE (Restarted(ok) /\ ok) \/ KillResets(ok)
      <3>1. /\ queue # <<>> /\ Head(queue) \in {"reset", "k"} /\ at = 1
            /\ conn' = conn /\ left' = left /\ freed' = freed
        BY <2>2 DEF Restarted, KillResets, Handling, Rested
      <3>2. ~LastCall
        BY <3>1, StepsRight DEF LastCall
      <3>3. QED BY <3>1, <3>2, LeftCalled
    <2>3. QED BY <1>2, <2>1, <2>2
  <1>3. ASSUME NEW ok \in BOOLEAN, Released(ok) \/ Started(ok) \/ WebResult(ok)
        PROVE  LeftInv'
    <2>1. CASE Released(ok)
      BY <2>1, LeftResult DEF Released
    <2>2. CASE Started(ok)
      BY <2>2, LeftResult DEF Started
    <2>3. CASE WebResult(ok)
      <3>1. web # "flash"
        BY DEF TypeOK
      <3>2. QED BY <2>3, <3>1, LeftResult DEF WebResult
    <2>4. QED BY <1>3, <2>1, <2>2, <2>3
  <1>4. CASE HaltedEvent \/ \E t \in {"usb-connect", "usb-disconnect"} : UsbEvent(t)
    <2>1. Heard(FALSE) /\ UNCHANGED <<conn, queue, at, chain, left, freed>>
      BY <1>4 DEF HaltedEvent, UsbEvent, Receives, Heard, history
    <2>2. CallOps(mutex') = CallOps(mutex) /\ RepliesIn(wire') = RepliesIn(wire)
      BY <2>1, TailReplies DEF Heard, ChainInv, OneCall, SingleCall, TypeOK, ProbeTypeOK
    <2>3. QED BY <2>1, <2>2 DEF LeftInv, ProbeRests, LinkConnected, Leaving, LastCall, Freed,
                                Freeing, Releasing, RunsOn, Disarmed
  <1>5. QED BY <1>1, <1>2, <1>3, <1>4 DEF Arrives, AllCmds

LEMMA LeftRequests ==
    ASSUME TypeOK, ChainInv, ChainInv', LeftInv, ProbeRests,
           \/ Sends \/ Turns \/ Connect \/ Drops \/ GdbInterrupts
           \/ (\E c \in AllCmds : GdbSends(c)) \/ (\E o \in WebOps : WebCalls(o))
    PROVE  LeftInv'
  <1>0. LinkConnected'
    BY DEF ProbeRests, LeftInv, LinkConnected
  <1>1. CASE Sends
    <2>1. UNCHANGED <<chain, conn, queue, at, left, freed>> /\ chain # <<>> /\ ~sent
          /\ wire' = wire /\ mutex' = Append(mutex, Call(Head(chain).ops))
      BY <1>1 DEF Sends, sessVars, history, LeavePoller
    <2>2. CallOps(mutex) = {} /\ RepliesIn(wire) = {}
      BY <2>1, NothingWaits DEF ChainInv
    <2>3. CallOps(mutex') = {Head(chain).ops}
      BY <2>1, <2>2, SentCall DEF TypeOK, ProbeTypeOK
    <2>4. Releasing => <<"run">> \notin CallOps(mutex')
      <3>1. Releasing => Head(chain).ops = ReleaseCalls
        BY TailEntries DEF ChainInv, EntryRight, Releasing, TypeOK
      <3>2. Len(ReleaseCalls) = 3 /\ Len(<<"run">>) = 1
        BY DEF ReleaseCalls
      <3>3. QED BY <2>3, <3>1, <3>2
    <2>5. Freeing'
      BY <2>1, <2>2, <2>4 DEF Freeing, Releasing
    <2>6. QED BY <1>0, <2>1, <2>5 DEF LeftInv, ProbeRests, Leaving, LastCall, Freed, RunsOn
  <1>2. CASE Turns
    <2>1. queue # <<>> /\ at = 0 /\ left' = left /\ freed' = freed /\ conn' = conn
      BY <1>2 DEF Turns, Begins, ReadsCache, IgnoresInterrupt, history
    <2>2. ~LastCall
      BY <2>1, AtHead, StepsRight DEF LastCall
    <2>3. QED BY <2>1, <2>2, LeftCalled
  <1>3. CASE Connect
    BY <1>0, <1>3 DEF Connect, LeftInv, Leaving, Freed, Freeing
  <1>4. CASE Drops
    <2>1. /\ UNCHANGED <<mutex, wire, sent, queue, at, freed>> /\ conn \in {"open", "ended"}
          /\ conn' \in {"down", "over"} /\ Calls("release", ReleaseCalls)
          /\ left' = IF ToMake > 0 \/ ~link THEN "cut" ELSE "clean"
      BY <1>4 DEF Drops, probeVars, Release, ReleaseCalls
    <2>2. \A e \in Entries(chain) : e.by # "release"
      BY <2>1 DEF ChainInv, EntryRight
    <2>3. ~freed
      BY <2>1 DEF LeftInv, Freed
    <2>4. left' = "clean" => LastCall'
      <3> SUFFICES ASSUME ~(ToMake > 0), queue # <<>>
                   PROVE  Len(queue) = 1 /\ at = Len(Steps[Head(queue)])
        BY <2>1 DEF LastCall
      <3>1. Len(queue) \in Nat \ {0} /\ at \in Nat /\ Len(Steps[Head(queue)]) \in Nat
            /\ at <= Len(Steps[Head(queue)])
        BY AtHead, StepsRight DEF TypeOK, ChainInv, AtRight
      <3>2. ~(Len(queue) - 1 + Len(Steps[Head(queue)]) - at > 0)
        BY DEF ToMake
      <3>3. \A n \in Nat \ {0} : \A l, a \in Nat :
               a <= l /\ ~(n - 1 + l - a > 0) => n = 1 /\ a = l
        OBVIOUS
      <3>4. QED BY <3>1, <3>2, <3>3, Zenon
    <2>5. WebBehind(chain')
      BY <2>1, <2>2, WebBehindAppend DEF Calls, TypeOK
    <2>6. left' = "clean" => link'
      BY <2>1 DEF ProbeRests
    <2>7. Freeing'
      <3>1. CASE chain = <<>>
        <4>1. CallOps(mutex) = {} /\ RepliesIn(wire) = {}
          BY <3>1 DEF ChainInv, OneCall
        <4>2. QED BY <2>1, <4>1 DEF Freeing
      <3>2. CASE chain # <<>>
        <4>1. Head(chain') = Head(chain)
          BY <2>1, <3>2 DEF Calls, TypeOK
        <4>2. Head(chain).by # "release"
          BY <2>2, <3>2, TailEntries DEF ChainInv, TypeOK
        <4>3. QED BY <4>1, <4>2 DEF Freeing, Releasing
      <3>3. QED BY <3>1, <3>2
    <2>8. QED BY <1>0, <2>1, <2>3, <2>4, <2>5, <2>6, <2>7 DEF LeftInv, Leaving, Freed
  <1>5. CASE GdbInterrupts \/ (\E c \in AllCmds : GdbSends(c))
    <2>1. conn = "open" /\ UNCHANGED <<left, freed, conn>>
      BY <1>5 DEF GdbInterrupts, GdbSends, history
    <2>2. left # "clean"
      BY <2>1 DEF LeftInv, Leaving
    <2>3. QED BY <1>0, <2>1, <2>2 DEF LeftInv, Leaving, Freed, Freeing
  <1>6. ASSUME NEW o \in WebOps, WebCalls(o) PROVE LeftInv'
    <2>1. UNCHANGED <<mutex, wire, sent, queue, conn, at, left, freed>> /\ Calls("web", <<o>>)
      BY <1>6 DEF WebCalls, probeVars, history
    <2> DEFINE n == [by |-> "web", ops |-> <<o>>]
    <2>2. n.by = "web" /\ chain' = Append(chain, n)
      BY <2>1 DEF Calls
    <2>3. Entries(chain') = Entries(chain) \cup {n}
      BY <2>1, NewCall
    <2> HIDE DEF n
    <2>4. Leaving'
      BY <2>1, <2>2, WebBehindAppend DEF LeftInv, Leaving, LastCall, ProbeRests, TypeOK
    <2>5. Freed'
      BY <2>1, <2>2, <2>3 DEF LeftInv, Freed, ProbeRests, RunsOn
    <2>6. Releasing' => Releasing
      BY <2>2 DEF Releasing, TypeOK
    <2>7. Freeing'
      BY <2>1, <2>6 DEF LeftInv, Freeing, ProbeRests, RunsOn, Disarmed
    <2>8. QED BY <1>0, <2>4, <2>5, <2>7 DEF LeftInv
  <1>7. QED BY <1>1, <1>2, <1>3, <1>4, <1>5, <1>6

\* Whatever packets have been handled and whatever failed: if the socket closes
\* when the handlers have no call left to make and the probe stays, a release
\* that succeeds leaves the board running, unless a breakpoint in RAM could not
\* be restored and was forgotten (server.ts releaseTarget, extension.ts done,
\* breakpoints.ts clearAll).
THEOREM ReleaseLeavesRunning ==
    ASSUME WebOps \subseteq {"getState", "run", "resetRun"}
    PROVE  Spec => []LeftRunning
  <1>1. Init => ChainInv /\ LeftInv
    <2>1. Init => LeftInv
      BY DEF Init, ProbeInit, LeftInv, LinkConnected, Leaving, Freed, Freeing
    <2>2. QED BY <2>1, ChainInit
  <1>2. TypeOK /\ TypeOK' /\ ChainInv /\ LeftInv /\ [Next]_vars => ChainInv' /\ LeftInv'
    <2> SUFFICES ASSUME TypeOK, TypeOK', ChainInv, LeftInv, [Next]_vars PROVE ChainInv' /\ LeftInv'
      OBVIOUS
    <2>1. ChainInv'
      BY ChainStep
    <2>2. CASE \/ ByProbe(Work) \/ ByProbe(TimerFires) \/ ByProbe(StrayFires)
               \/ ByProbe(DisconnectEvent) \/ ByProbe(ConnectEvent) \/ ByProbe(World)
      <3>1. ProbeStep
        BY <2>2 DEF ByProbe, ProbeStep
      <3>2. UNCHANGED <<chain, sent, conn, queue, at, freed>>
            /\ left' = IF link' \/ left = "open" THEN left ELSE "cut"
        BY <2>2 DEF ByProbe
      <3>3. QED BY <2>1, <3>1, <3>2, LeftProbe
    <2>3. CASE \/ Sends \/ Turns \/ Arrives \/ Connect \/ Drops \/ GdbInterrupts
               \/ (\E c \in AllCmds : GdbSends(c)) \/ (\E o \in WebOps : WebCalls(o))
      <3>1. ProbeRests
        BY <2>3, SessionStep DEF ProbeRests
      <3>2. QED BY <2>1, <2>3, <3>1, LeftArrives, LeftRequests
    <2>4. CASE UNCHANGED vars
      BY <2>1, <2>4 DEF vars, probeVars, sessVars, history, LeftInv, LinkConnected, Leaving,
                        LastCall, Freed, Freeing, Releasing, RunsOn, Disarmed
    <2>5. QED BY <2>2, <2>3, <2>4 DEF Next
  <1>3. LeftInv => LeftRunning
    BY DEF LeftInv, Freed, RunsOn, LeftRunning
  <1>4. QED BY <1>1, <1>2, <1>3, GdbTypeCorrect, PTL DEF Spec

-----------------------------------------------------------------------------
(* CacheFresh.  GDB waits for every packet's answer, so a session handles   *)
(* one at a time; a processor that runs, and a page that is stale, have a   *)
(* cause the session knows of, and it drops the page before it answers.     *)

\* Halting is all the controller does, and the cable stays in.  Without any
\* of the five CacheFresh fails: a replug is overlooked between start()'s reply
\* and its result, ^C can answer one continue twice, z0 leaves the page alone,
\* so does Z1 in RAM, and so does what the controller starts and writes.
Calm == /\ "unplug" \notin Faults
        /\ "^C" \notin Cmds /\ "z0" \notin Cmds /\ "Z1ram" \notin Cmds
        /\ WebOps \subseteq {"getState", "halt"}

Plugged == (usbState = "connected" => link) /\ core # "off"

\* The handler at the head of the queue has called the probe.
Handles(C) == queue # <<>> /\ at > 0 /\ Head(queue) \in C

Discipline ==
    conn = "open" =>
        /\ running => gdb = "stop"
        /\ gdb \in {"nothing", "over"} => queue = <<>>
        /\ queue # <<>> =>
              /\ Len(queue) = 1 /\ Head(queue) \in Cmds \ {"drop"} /\ ~running
              /\ gdb = IF Head(queue) \in {"c", "s"} THEN "stop" ELSE "answer"

\* The start of a session comes before its handlers, and finds it empty.
StartFirst(q) == \A i, j \in DOMAIN q : i < j /\ q[j].by = "start" => q[i].by = "web"

Startup ==
    /\ conn = "open" /\ (\E e \in Entries(chain) : e.by = "start") =>
          ~held /\ cache = "none" /\ ~running
    /\ chain # <<>> /\ Head(chain).by = "start" =>
          /\ TRUE \in RepliesIn(wire) => core = "halt"
          /\ \A ops \in CallOps(mutex) : ops # StartCalls => core = "halt"

Answering == sent /\ chain # <<>> /\ Head(chain).by = "handler"
Trusted == held /\ conn = "open" /\ ~(Answering /\ FALSE \in RepliesIn(wire))

RunCause ==
    Trusted /\ core = "run" =>
        Handles({"c", "reset", "D", "k", "vKill"}) \/ running \/ gdb = "over"

StaleCause ==
    Trusted /\ cache = "stale" =>
        Handles({"M", "Z0", "flash", "reset", "D", "k", "vKill"}) \/ gdb = "over"

Emptied ==
    conn = "open" =>
        /\ running => cache = "none"
        /\ Handles({"c", "s"}) => cache = "none"
        /\ Handles({"reset"}) /\ at = 2 => cache = "none"

\* monitor reset has halted the processor again.
Caught ==
    Trusted /\ Answering /\ TRUE \in RepliesIn(wire) /\ Handles({"reset"}) /\ at = 2 =>
        core = "halt"

\* No event of an earlier run ends the wait for a processor that runs now.
Alarms ==
    Trusted /\ core = "run" =>
        /\ running => NoAlarmIn(wire)
        /\ Answering /\ Handles({"c"}) => NoAlarmBehind(wire)

Causes == RunCause /\ StaleCause /\ Emptied /\ Caught /\ Alarms

FreshInv == Plugged /\ Discipline /\ StartFirst(chain) /\ Startup /\ Causes

LEMMA PluggedProbe ==
    ASSUME Calm, ProbeTypeOK, Plugged, ProbeStep
    PROVE  Plugged'
  <1> USE DEF Plugged
  <1>1. ASSUME NEW o \in Ops, Halts(o) \/ Starts(o) \/ Accesses(o) \/ NoDevice(o)
        PROVE  Plugged'
    BY <1>1 DEF Halts, Starts, Accesses, NoDevice
  <1>2. ASSUME NEW o \in Ops, Refused(o) PROVE Plugged'
    <2>1. link' = link /\ usbState' = usbState /\ core' \in {core, "run", "halt"}
      BY <1>2 DEF Refused, Perhaps
    <2>2. QED BY <2>1
  <1>3. ASSUME NEW o \in Ops, Breaks(o) PROVE Plugged'
    BY <1>3 DEF Breaks
  <1>4. CASE GetState \/ Polls \/ PollRefused \/ PollBreaks \/ PollSkips \/ StalePoll
    BY <1>4 DEF GetState, Polls, PollRefused, PollBreaks, PollSkips, StalePoll
  <1>5. CASE Attaches
    BY <1>5 DEF Attaches
  <1>6. CASE Attached \/ Detaches \/ Goes
    BY <1>6 DEF Attached, Detaches, Goes
  <1>7. CASE TimerFires \/ StrayFires \/ DisconnectEvent \/ ConnectEvent
    BY <1>7 DEF TimerFires, StrayFires, DisconnectEvent, ConnectEvent
  <1>8. CASE World
    BY <1>8 DEF World, Unplug, Plug, Hit, UserAsks, Calm
  <1>9. QED BY <1>1, <1>2, <1>3, <1>4, <1>5, <1>6, <1>7, <1>8 DEF ProbeStep, Work

\* Which packets have the processor run, and which change its memory.
Runners == {"c", "reset", "D", "k", "vKill"}
Changers == {"M", "Z0", "flash", "s"}

LEMMA SingleSteps ==
    ASSUME NEW c \in AllCmds \ {"drop", "^C", "z0", "Z1ram"}, NEW a \in {1, 2}, a <= Len(Steps[c])
    PROVE  \/ c \in {"D", "k", "vKill"} /\ Steps[c][a] \in {ReleaseCalls, KillCalls}
           \/ \E o \in Ops : /\ Steps[c][a] = <<o>>
                             /\ o \in Starting => c \in Runners /\ ~(c = "reset" /\ a = 2)
                             /\ o \in Writes => c \in Changers
                             /\ c = "c" => o = "run"
                             /\ c = "reset" /\ a = 2 => o = "halt"
  <1> DEFINE Right(o) == /\ o \in Starting => c \in Runners /\ ~(c = "reset" /\ a = 2)
                         /\ o \in Writes => c \in Changers
                         /\ c = "c" => o = "run"
                         /\ c = "reset" /\ a = 2 => o = "halt"
  <1>0. (\A x : Len(<<x>>) = 1 /\ <<x>>[1] = x)
        /\ (\A x, y : Len(<<x, y>>) = 2 /\ <<x, y>>[1] = x /\ <<x, y>>[2] = y)
    OBVIOUS
  <1>1. CASE c \in {"D", "vKill"}
    <2>1. Steps[c] = <<ReleaseCalls>>
      BY <1>1 DEF Steps, AllCmds, Release, ReleaseCalls
    <2>2. a = 1
      BY <1>0, <2>1
    <2>3. QED BY <1>0, <1>1, <2>1, <2>2
  <1>2. CASE c = "k"
    <2>1. Steps[c] = <<KillCalls, <<"resetRun">>>>
      BY <1>2 DEF Steps, AllCmds, Release, KillCalls
    <2>2. CASE a = 1
      BY <1>0, <1>2, <2>1, <2>2
    <2>3. CASE a = 2
      <3>1. Steps[c][a] = <<"resetRun">> /\ "resetRun" \in Ops
        BY <1>0, <2>1, <2>3 DEF Ops, Starting
      <3>2. Right("resetRun")
        BY <1>2 DEF Runners, Writes
      <3>3. QED BY <3>1, <3>2
    <2>4. QED BY <2>2, <2>3
  <1>3. CASE c = "reset"
    <2>1. Steps[c] = <<<<"resetRun">>, <<"halt">>>>
      BY <1>3 DEF Steps, AllCmds
    <2>2. CASE a = 1
      <3>1. Steps[c][a] = <<"resetRun">> /\ "resetRun" \in Ops
        BY <1>0, <2>1, <2>2 DEF Ops, Starting
      <3>2. Right("resetRun")
        BY <1>3, <2>2 DEF Runners, Writes
      <3>3. QED BY <3>1, <3>2
    <2>3. CASE a = 2
      <3>1. Steps[c][a] = <<"halt">> /\ "halt" \in Ops
        BY <1>0, <2>1, <2>3 DEF Ops, Halting
      <3>2. Right("halt")
        BY <1>3, <2>3 DEF Runners, Starting, Writes
      <3>3. QED BY <3>1, <3>2
    <2>4. QED BY <2>2, <2>3
  <1>4. ASSUME NEW o \in Ops, Steps[c] = << <<o>> >>, Right(o)
        PROVE  \E p \in Ops : Steps[c][a] = <<p>> /\ Right(p)
    <2>1. a = 1
      BY <1>0, <1>4
    <2>2. QED BY <1>0, <1>4, <2>1
  <1>5. CASE c \in {"c", "s", "m", "M", "Z0", "Z1", "z1", "reset halt", "halt", "flash"}
    <2>1. \E o \in Ops : Steps[c] = << <<o>> >> /\ Right(o)
      <3> USE DEF Steps, AllCmds, Ops, Halting, Starting, Access, Arming, Writes, Runners, Changers
      <3>1. CASE c = "c"
        <4>1. Steps[c] = << <<"run">> >> /\ Right("run") /\ "run" \in Ops
          BY <3>1
        <4>2. QED BY <4>1
      <3>2. CASE c = "s"
        <4>1. Steps[c] = << <<"step">> >> /\ Right("step") /\ "step" \in Ops
          BY <3>2
        <4>2. QED BY <4>1
      <3>3. CASE c = "m"
        <4>1. Steps[c] = << <<"read">> >> /\ Right("read") /\ "read" \in Ops
          BY <3>3
        <4>2. QED BY <4>1
      <3>4. CASE c = "M"
        <4>1. Steps[c] = << <<"write">> >> /\ Right("write") /\ "write" \in Ops
          BY <3>4
        <4>2. QED BY <4>1
      <3>5. CASE c = "Z0"
        <4>1. Steps[c] = << <<"setBreakpoint">> >> /\ Right("setBreakpoint")
              /\ "setBreakpoint" \in Ops
          BY <3>5
        <4>2. QED BY <4>1
      <3>6. CASE c = "reset halt"
        <4>1. Steps[c] = << <<"resetHalt">> >> /\ Right("resetHalt") /\ "resetHalt" \in Ops
          BY <3>6
        <4>2. QED BY <4>1
      <3>7. CASE c = "halt"
        <4>1. Steps[c] = << <<"halt">> >> /\ Right("halt") /\ "halt" \in Ops
          BY <3>7
        <4>2. QED BY <4>1
      <3>8. CASE c = "flash"
        <4>1. Steps[c] = << <<"flash">> >> /\ Right("flash") /\ "flash" \in Ops
          BY <3>8
        <4>2. QED BY <4>1
      <3>9. CASE c = "Z1"
        <4>1. Steps[c] = << <<"setComparator">> >> /\ Right("setComparator")
              /\ "setComparator" \in Ops
          BY <3>9
        <4>2. QED BY <4>1
      <3>10. CASE c = "z1"
        <4>1. Steps[c] = << <<"clearComparator">> >> /\ Right("clearComparator")
              /\ "clearComparator" \in Ops
          BY <3>10
        <4>2. QED BY <4>1
      <3>11. QED BY <1>5, <3>1, <3>2, <3>3, <3>4, <3>5, <3>6, <3>7, <3>8, <3>9, <3>10
    <2>2. QED BY <1>4, <2>1
  <1>6. QED BY <1>1, <1>2, <1>3, <1>5 DEF AllCmds

LEMMA KillRemains ==
    Remains(KillCalls) = {KillCalls, <<"catchOff">>}
  <1>1. Len(StartCalls) = 3 /\ Len(ReleaseCalls) = 3 /\ Len(KillCalls) = 2
    BY DEF ReleaseCalls, StartCalls, KillCalls
  <1>2. KillCalls # StartCalls /\ KillCalls # ReleaseCalls
    BY <1>1
  <1>3. QED BY <1>2 DEF Remains

LEMMA StartRemains ==
    Remains(StartCalls) = {StartCalls, <<"clearAll", "catchOn">>, <<"catchOn">>}
  <1>1. /\ ReleaseCalls[1] = "clearAll" /\ StartCalls[1] = "halt"
        /\ Len(StartCalls) = 3 /\ Len(KillCalls) = 2
    BY DEF ReleaseCalls, StartCalls, KillCalls
  <1>2. StartCalls # ReleaseCalls /\ StartCalls # KillCalls
    BY <1>1
  <1>3. QED BY <1>2 DEF Remains

LEMMA HandlerCalls ==
    ASSUME NEW c \in AllCmds \ {"drop", "^C", "z0", "Z1ram"}, NEW a \in {1, 2}, a <= Len(Steps[c]),
           NEW ops \in Remains(Steps[c][a])
    PROVE  /\ Head(ops) \in Starting => c \in Runners /\ ~(c = "reset" /\ a = 2)
           /\ Head(ops) \in Writes => c \in Changers
           /\ c = "c" => ops = <<"run">>
           /\ c = "reset" /\ a = 2 => ops = <<"halt">>
  <1>1. CASE c \in {"D", "k", "vKill"} /\ Steps[c][a] \in {ReleaseCalls, KillCalls}
    <2>1. ops \in {ReleaseCalls, <<"catchOff", "run">>, <<"run">>, KillCalls, <<"catchOff">>}
      BY <1>1, ReleaseRemains, KillRemains
    <2>2. Head(ops) \in {"clearAll", "catchOff", "run"}
      BY <2>1 DEF ReleaseCalls, KillCalls
    <2>3. QED BY <1>1, <2>2 DEF Writes, Runners
  <1>2. ASSUME NEW o \in Ops, Steps[c][a] = <<o>>,
               o \in Starting => c \in Runners /\ ~(c = "reset" /\ a = 2),
               o \in Writes => c \in Changers,
               c = "c" => o = "run",
               c = "reset" /\ a = 2 => o = "halt"
        PROVE  /\ Head(ops) \in Starting => c \in Runners /\ ~(c = "reset" /\ a = 2)
               /\ Head(ops) \in Writes => c \in Changers
               /\ c = "c" => ops = <<"run">>
               /\ c = "reset" /\ a = 2 => ops = <<"halt">>
    <2>1. ops = <<o>> /\ Head(ops) = o
      BY <1>2, WebRemains
    <2>2. QED BY <1>2, <2>1
  <1>3. QED BY <1>1, <1>2, SingleSteps

\* Whose call the worker has.
LEMMA CallSource ==
    ASSUME Calm, TypeOK, ChainInv, Discipline, conn = "open", NEW ops \in CallOps(mutex)
    PROVE  \/ /\ Head(chain).by \in {"web", "start"}
              /\ Head(ops) \in {"getState", "halt", "clearAll", "catchOn"}
              /\ Head(chain).by = "start" => ops \in Remains(StartCalls)
           \/ /\ Answering /\ queue # <<>> /\ at \in {1, 2}
              /\ Head(queue) \in AllCmds \ {"drop", "^C", "z0", "Z1ram"}
              /\ at <= Len(Steps[Head(queue)])
              /\ ops \in Remains(Steps[Head(queue)][at])
  <1>1. /\ sent /\ chain # <<>> /\ Head(chain).by \in Callers
        /\ EntryRight(Head(chain)) /\ ops \in Remains(Head(chain).ops)
    BY HeadOfCall
  <1>2. CASE Head(chain).by = "web"
    <2>1. PICK o \in {"getState", "halt"} : Head(chain).ops = <<o>>
      BY <1>1, <1>2 DEF EntryRight, WebAsks, Calm
    <2>2. o \in Ops
      BY DEF Ops, Halting
    <2>3. Head(ops) = o
      BY <1>1, <2>1, <2>2, WebRemains
    <2>4. QED BY <1>2, <2>3
  <1>3. CASE Head(chain).by = "start"
    <2>1. ops \in Remains(StartCalls)
      BY <1>1, <1>3 DEF EntryRight
    <2>2. ops \in {StartCalls, <<"clearAll", "catchOn">>, <<"catchOn">>}
      BY <2>1, StartRemains
    <2>3. Head(ops) \in {"halt", "clearAll", "catchOn"}
      BY <2>2 DEF StartCalls
    <2>4. QED BY <1>3, <2>1, <2>3
  <1>4. CASE Head(chain).by = "handler"
    <2>1. queue # <<>> /\ at > 0 /\ Head(chain).ops = Steps[Head(queue)][at]
      BY <1>1, <1>4 DEF EntryRight
    <2>2. Head(queue) \in Cmds \ {"drop"} /\ at <= Len(Steps[Head(queue)])
      BY <2>1 DEF Discipline, ChainInv, AtRight
    <2>3. at \in {1, 2}
      BY <2>1, AtHead
    <2>4. QED BY <1>1, <1>4, <2>1, <2>2, <2>3, GdbAssumption DEF Answering, Calm
  <1>5. CASE Head(chain).by = "release"
    BY <1>1, <1>5 DEF EntryRight
  <1>6. QED BY <1>1, <1>2, <1>3, <1>4, <1>5 DEF Callers

\* A step of the probe as the session sees it.
ProbeSeen ==
    /\ ProbeStep
    /\ cache' = Aged(cache) /\ held' = (held /\ link')
    /\ UNCHANGED <<chain, sent, conn, queue, at, gdb>> /\ running' = running

LEMMA StartupProbe ==
    ASSUME Calm, TypeOK, ChainInv, Plugged, Startup, ProbeSeen
    PROVE  Startup'
  <1>1. ProbeTypeOK /\ SingleCall /\ chain' = chain /\ conn' = conn /\ running' = running
    BY DEF TypeOK, ChainInv, OneCall, ProbeSeen
  <1>2. ~held /\ cache = "none" => ~held' /\ cache' = "none"
    BY DEF ProbeSeen, Aged
  <1>3. ASSUME chain # <<>>, Head(chain).by = "start"
        PROVE  /\ TRUE \in RepliesIn(wire') => core' = "halt"
               /\ \A ops \in CallOps(mutex') : ops # StartCalls => core' = "halt"
    <2>1. CASE Aside
      <3>1. core = "halt" => core' = "halt"
        BY <2>1 DEF Aside, Calm
      <3>2. QED BY <1>3, <2>1, <3>1 DEF Aside, Startup
    <2>2. ASSUME NEW ops, NEW ok \in BOOLEAN, Served(ops, ok)
          PROVE  /\ TRUE \in RepliesIn(wire') => core' = "halt"
                 /\ \A p \in CallOps(mutex') : p # StartCalls => core' = "halt"
      <3>1. ops \in CallOps(mutex) /\ Effect(Head(ops), ok)
        BY <2>2 DEF Served
      <3>2. EntryRight(Head(chain)) /\ ops \in Remains(Head(chain).ops)
        BY <3>1, HeadOfCall
      <3>3. ops \in {StartCalls, <<"clearAll", "catchOn">>, <<"catchOn">>}
        BY <1>3, <3>2, StartRemains DEF EntryRight
      <3>4. CASE ~ok
        BY <2>2, <3>4 DEF Served
      <3>5. CASE ok /\ ops = StartCalls
        <4>1. Head(ops) = "halt"
          BY <3>5 DEF StartCalls
        <4>2. core' = "halt"
          BY <3>1, <3>5, <4>1 DEF Effect, Halting
        <4>3. QED BY <4>2
      <3>6. CASE ok /\ ops # StartCalls
        <4>1. Head(ops) \in {"clearAll", "catchOn"}
          BY <3>3, <3>6
        <4>2. Head(ops) \notin Halting \cup Starting
          BY <4>1 DEF Halting, Starting
        <4>3. core' = core
          BY <3>1, <3>6, <4>2 DEF Effect
        <4>4. core = "halt"
          BY <1>3, <3>1, <3>6 DEF Startup
        <4>5. QED BY <4>3, <4>4
      <3>7. QED BY <3>4, <3>5, <3>6
    <2>3. Aside \/ \E o \in Ops : ServedAt(o)
      BY <1>1, ProbeMove DEF ProbeSeen
    <2>4. QED BY <2>1, <2>2, <2>3 DEF ServedAt
  <1>4. QED BY <1>1, <1>2, <1>3 DEF Startup

\* What a step of the probe can be, while the session is trusted with a
\* processor: it starts to run for a handler only.
LEMMA TrustedProbe ==
    ASSUME Calm, TypeOK, ChainInv, Plugged, Discipline, ProbeSeen, Trusted'
    PROVE  /\ Trusted /\ link' /\ WireSafe /\ SingleCall'
           /\ \/ RepliesIn(wire') = RepliesIn(wire) /\ core' \in {core, "halt"}
              \/ /\ core' \in {core, "halt"} /\ ~Answering
              \/ \E ops \in CallOps(mutex) :
                    /\ Answering /\ Handles({Head(queue)}) /\ at \in {1, 2}
                    /\ Head(queue) \in AllCmds \ {"drop", "^C", "z0", "Z1ram"}
                    /\ at <= Len(Steps[Head(queue)])
                    /\ ops \in Remains(Steps[Head(queue)][at])
                    /\ Served(ops, TRUE)
  <1>1. ProbeTypeOK /\ SingleCall /\ chain' = chain /\ conn' = conn /\ sent' = sent
    BY DEF TypeOK, ChainInv, OneCall, ProbeSeen
  <1>2. SingleCall' /\ WireSafe /\ (Aside \/ \E o \in Ops : ServedAt(o))
    BY <1>1, ProbeMove DEF ProbeSeen
  <1>3. held /\ link' /\ conn = "open" /\ (Answering' <=> Answering)
    <2>1. held' /\ conn' = "open"
      BY DEF Trusted
    <2>2. held' = (held /\ link')
      BY DEF ProbeSeen
    <2>3. held /\ link'
      BY <2>1, <2>2, Zenon
    <2>4. Answering' <=> Answering
      BY <1>1 DEF Answering
    <2>5. QED BY <1>1, <2>1, <2>3, <2>4
  <1>4. CASE Aside
    <2>1. RepliesIn(wire') = RepliesIn(wire)
      BY <1>4 DEF Aside
    <2>2. core' \in {core, "halt"}
      BY <1>4 DEF Aside, Calm, Plugged
    <2>3. Trusted
      BY <1>3, <2>1 DEF Trusted
    <2>4. QED BY <1>2, <1>3, <2>1, <2>2, <2>3
  <1>5. ASSUME NEW ops, NEW ok \in BOOLEAN, Served(ops, ok)
        PROVE  /\ Trusted
               /\ \/ core' \in {core, "halt"} /\ ~Answering
                  \/ /\ Answering /\ Handles({Head(queue)}) /\ at \in {1, 2}
                     /\ Head(queue) \in AllCmds \ {"drop", "^C", "z0", "Z1ram"}
                     /\ at <= Len(Steps[Head(queue)])
                     /\ ops \in Remains(Steps[Head(queue)][at])
                     /\ ops \in CallOps(mutex) /\ Served(ops, TRUE)
    <2>1. ops \in CallOps(mutex) /\ Effect(Head(ops), ok)
      BY <1>5 DEF Served
    <2>2. RepliesIn(wire) = {}
      BY <1>1, <2>1 DEF SingleCall
    <2>3. Trusted
      BY <1>3, <2>2 DEF Trusted
    <2>4. CASE /\ Head(chain).by \in {"web", "start"}
               /\ Head(ops) \in {"getState", "halt", "clearAll", "catchOn"}
      <3>1. ~Answering /\ Head(ops) \notin Starting
        BY <2>4 DEF Answering, Starting
      <3>2. core' \in {core, "halt"}
        <4>1. CASE ok
          BY <2>1, <3>1, <4>1 DEF Effect
        <4>2. CASE ~ok
          <5>1. Head(ops) \notin Halting \/ Head(ops) = "halt"
            BY <2>4 DEF Halting
          <5>2. Perhaps(Head(ops)) \subseteq {core, "halt"}
            BY <3>1, <5>1 DEF Perhaps, Halting
          <5>3. QED BY <2>1, <4>2, <5>2 DEF Effect
        <4>3. QED BY <4>1, <4>2
      <3>3. QED BY <2>3, <3>1, <3>2
    <2>5. CASE /\ Answering /\ queue # <<>> /\ at \in {1, 2}
               /\ Head(queue) \in AllCmds \ {"drop", "^C", "z0", "Z1ram"}
               /\ at <= Len(Steps[Head(queue)])
               /\ ops \in Remains(Steps[Head(queue)][at])
      <3>1. ok
        <4> SUFFICES ASSUME ~ok PROVE FALSE
          OBVIOUS
        <4>1. FALSE \in RepliesIn(wire')
          BY <1>5 DEF Served
        <4>2. QED BY <1>3, <2>5, <4>1 DEF Trusted
      <3>2. Handles({Head(queue)})
        BY <2>5 DEF Handles
      <3>3. ok = TRUE
        BY <3>1
      <3>4. QED BY <1>5, <2>1, <2>3, <2>5, <3>2, <3>3
    <2>6. QED BY <1>3, <2>1, <2>4, <2>5, CallSource
  <1>6. QED BY <1>2, <1>3, <1>4, <1>5 DEF ServedAt

\* Memory is written for a handler only.
LEMMA WritingFor ==
    ASSUME Calm, TypeOK, ChainInv, Discipline, conn = "open", Writing
    PROVE  Handles(Changers)
  <1>1. PICK o \in Writes : AtOp(o)
    BY DEF Writing, Reaches
  <1> DEFINE ops == Head(mutex).ops
  <1>2. mutex \in Seq(Jobs) /\ OneCallIn(mutex) /\ mutex # <<>> /\ Head(mutex).kind = "call"
        /\ Head(ops) = o
    BY <1>1 DEF AtOp, Working, TypeOK, ProbeTypeOK, ChainInv, OneCall, SingleCall
  <1>3. ops \in CallOps(mutex)
    BY <1>2, HeadCall
  <1> HIDE DEF ops
  <1>4. Head(ops) \notin {"getState", "halt", "clearAll", "catchOn"}
    BY <1>2 DEF Writes
  <1>5. /\ queue # <<>> /\ at \in {1, 2}
        /\ Head(queue) \in AllCmds \ {"drop", "^C", "z0", "Z1ram"}
        /\ at <= Len(Steps[Head(queue)])
        /\ ops \in Remains(Steps[Head(queue)][at])
    BY <1>3, <1>4, CallSource
  <1>6. Head(queue) \in Changers
    BY <1>2, <1>5, HandlerCalls
  <1>7. QED BY <1>5, <1>6 DEF Handles

LEMMA CausesProbe ==
    ASSUME Calm, TypeOK, ChainInv, FreshInv, ProbeSeen
    PROVE  Causes'
  <1>1. UNCHANGED <<chain, sent, conn, queue, at, gdb>> /\ (running' <=> running)
        /\ cache' = Aged(cache)
    BY DEF ProbeSeen
  <1>2. Emptied'
    BY <1>1 DEF FreshInv, Causes, Emptied, Handles, Aged
  <1>3. CASE ~Trusted'
    BY <1>2, <1>3 DEF Causes, RunCause, StaleCause, Caught, Alarms
  <1>4. CASE Trusted'
    <2>1. /\ Trusted /\ link' /\ WireSafe
          /\ \/ RepliesIn(wire') = RepliesIn(wire) /\ core' \in {core, "halt"}
             \/ /\ core' \in {core, "halt"} /\ ~Answering
             \/ \E ops \in CallOps(mutex) :
                   /\ Answering /\ Handles({Head(queue)}) /\ at \in {1, 2}
                   /\ Head(queue) \in AllCmds \ {"drop", "^C", "z0", "Z1ram"}
                   /\ at <= Len(Steps[Head(queue)])
                   /\ ops \in Remains(Steps[Head(queue)][at])
                   /\ Served(ops, TRUE)
      BY <1>4, TrustedProbe DEF FreshInv
    <2>2. conn = "open" /\ (Answering' <=> Answering) /\ \A C : Handles(C)' <=> Handles(C)
      BY <1>1, <2>1 DEF Trusted, Answering, Handles
    <2>3. core' \in {core, "halt"} \/ (Answering /\ Handles(Runners))
      <3>1. ASSUME NEW ops, Answering, Handles({Head(queue)}), at \in {1, 2},
                   Head(queue) \in AllCmds \ {"drop", "^C", "z0", "Z1ram"},
                   at <= Len(Steps[Head(queue)]),
                   ops \in Remains(Steps[Head(queue)][at]), Served(ops, TRUE)
            PROVE  core' \in {core, "halt"} \/ Handles(Runners)
        <4>1. Effect(Head(ops), TRUE)
          BY <3>1 DEF Served
        <4>2. Head(ops) \in Starting \/ core' \in {core, "halt"}
          BY <4>1 DEF Effect
        <4>3. Head(ops) \in Starting => Head(queue) \in Runners
          BY <3>1, HandlerCalls
        <4>4. QED BY <3>1, <4>2, <4>3 DEF Handles
      <3>2. QED BY <2>1, <3>1
    <2>4. RunCause'
      BY <1>1, <2>1, <2>2, <2>3 DEF FreshInv, Causes, RunCause, Runners
    <2>5. StaleCause'
      <3> SUFFICES ASSUME cache' = "stale"
                   PROVE  Handles({"M", "Z0", "flash", "reset", "D", "k", "vKill"}) \/ gdb = "over"
        BY <1>1, <2>2 DEF StaleCause
      <3>1. CASE cache = "stale"
        BY <2>1, <3>1 DEF FreshInv, Causes, StaleCause
      <3>2. CASE cache # "stale"
        <4>1. cache = "fresh" /\ (Writing \/ core' = "run")
          BY <1>1, <3>2 DEF Aged
        <4>2. ~running /\ ~Handles({"c", "s"})
          BY <2>2, <4>1 DEF FreshInv, Causes, Emptied
        <4>3. CASE Writing
          <5>1. Handles(Changers)
            BY <2>2, <4>3, WritingFor DEF FreshInv
          <5>2. QED BY <4>2, <5>1 DEF Handles, Changers
        <4>4. CASE core' = "run"
          <5>1. Handles({"c", "reset", "D", "k", "vKill"}) \/ gdb = "over"
            BY <1>1, <1>4, <2>2, <2>4, <4>2, <4>4 DEF RunCause
          <5>2. QED BY <4>2, <5>1 DEF Handles
        <4>5. QED BY <4>1, <4>3, <4>4
      <3>3. QED BY <3>1, <3>2
    <2>6. Caught'
      <3> SUFFICES ASSUME Answering, TRUE \in RepliesIn(wire'), Handles({"reset"}), at = 2
                   PROVE  core' = "halt"
        BY <1>1, <2>2 DEF Caught
      <3>1. CASE RepliesIn(wire') = RepliesIn(wire) /\ core' \in {core, "halt"}
        BY <2>1, <3>1 DEF FreshInv, Causes, Caught
      <3>2. ASSUME NEW ops, Head(queue) \in AllCmds \ {"drop", "^C", "z0", "Z1ram"},
                   at <= Len(Steps[Head(queue)]), at \in {1, 2},
                   ops \in Remains(Steps[Head(queue)][at]), Served(ops, TRUE)
            PROVE  core' = "halt"
        <4>1. ops = <<"halt">>
          BY <3>2, HandlerCalls DEF Handles
        <4>2. Effect(Head(ops), TRUE)
          BY <3>2 DEF Served
        <4>3. Head(ops) = "halt"
          BY <4>1
        <4>4. QED BY <4>2, <4>3 DEF Effect, Halting
      <3>3. QED BY <2>1, <3>1, <3>2
    <2>7. Alarms'
      <3> SUFFICES ASSUME core' = "run"
                   PROVE  /\ running => NoAlarmIn(wire')
                          /\ Answering /\ Handles({"c"}) => NoAlarmBehind(wire')
        BY <1>1, <2>2 DEF Alarms
      <3>1. /\ NoAlarmIn(wire) => NoAlarmIn(wire')
            /\ NoAlarmBehind(wire) => NoAlarmBehind(wire')
        BY <2>1 DEF WireSafe, FreshInv, Plugged
      <3>2. CASE core = "run"
        BY <2>1, <3>1, <3>2 DEF FreshInv, Causes, Alarms
      <3>3. CASE core # "run"
        <4>1. Handles(Runners)
          BY <2>3, <3>3
        <4>2. ~running
          BY <2>2, <4>1 DEF FreshInv, Discipline, Handles
        <4>3. ASSUME Handles({"c"}) PROVE NoAlarmBehind(wire')
          <5>1. PICK ops \in CallOps(mutex) :
                   /\ at \in {1, 2}
                   /\ Head(queue) \in AllCmds \ {"drop", "^C", "z0", "Z1ram"}
                   /\ at <= Len(Steps[Head(queue)])
                   /\ ops \in Remains(Steps[Head(queue)][at])
                   /\ Served(ops, TRUE)
            BY <2>1, <3>3
          <5>2. ops = <<"run">>
            BY <4>3, <5>1, HandlerCalls DEF Handles
          <5>3. Len(ops) = 1
            BY <5>2
          <5>4. QED BY <5>1, <5>3 DEF Served
        <4>4. QED BY <4>2, <4>3
      <3>4. QED BY <3>2, <3>3
    <2>8. QED BY <1>2, <2>4, <2>5, <2>6, <2>7 DEF Causes
  <1>5. QED BY <1>3, <1>4

LEMMA StartFirstTail ==
    ASSUME NEW q \in Seq(Requested), q # <<>>, StartFirst(q)
    PROVE  /\ StartFirst(Tail(q))
           /\ Head(q).by # "web" => \A e \in Entries(Tail(q)) : e.by # "start"
  <1> DEFINE t == Tail(q)
  <1>1. /\ Head(q) = q[1] /\ 1 \in DOMAIN q /\ DOMAIN t \subseteq Nat \ {0}
        /\ \A i \in DOMAIN t : i + 1 \in DOMAIN q /\ t[i] = q[i + 1]
    BY TailAt
  <1> HIDE DEF t
  <1>2. StartFirst(t)
    <2> SUFFICES ASSUME NEW i \in DOMAIN t, NEW j \in DOMAIN t, i < j, t[j].by = "start"
                 PROVE  t[i].by = "web"
      BY DEF StartFirst
    <2>1. i + 1 < j + 1
      BY <1>1
    <2>2. QED BY <1>1, <2>1 DEF StartFirst
  <1>3. ASSUME Head(q).by # "web", NEW i \in DOMAIN t PROVE t[i].by # "start"
    <2>1. 1 < i + 1
      BY <1>1
    <2>2. QED BY <1>1, <1>3, <2>1 DEF StartFirst
  <1>4. QED BY <1>2, <1>3 DEF t, Entries

LEMMA StartFirstAppend ==
    ASSUME NEW q \in Seq(Requested), NEW e, StartFirst(q),
           e.by # "start" \/ \A f \in Entries(q) : f.by = "web"
    PROVE  StartFirst(Append(q, e))
  <1> DEFINE a == Append(q, e)
  <1>1. /\ DOMAIN q = 1 .. Len(q) /\ Len(q) \in Nat /\ a[Len(q) + 1] = e
        /\ DOMAIN a = 1 .. Len(q) + 1
        /\ \A i \in DOMAIN q : a[i] = q[i]
        /\ \A i \in DOMAIN a : i \in DOMAIN q \/ i = Len(q) + 1
    BY AppendAt
  <1> HIDE DEF a
  <1>2. ASSUME NEW i \in DOMAIN a, NEW j \in DOMAIN a, i < j, a[j].by = "start"
        PROVE  a[i].by = "web"
    <2>1. i \in DOMAIN q
      BY <1>1, <1>2
    <2>2. a[i] = q[i] /\ q[i] \in Entries(q)
      BY <1>1, <2>1 DEF Entries
    <2>3. CASE j \in DOMAIN q
      BY <1>1, <1>2, <2>1, <2>3 DEF StartFirst
    <2>4. CASE j = Len(q) + 1
      BY <1>1, <1>2, <2>2, <2>4
    <2>5. QED BY <1>1, <2>3, <2>4
  <1>3. StartFirst(a)
    BY <1>2 DEF StartFirst
  <1>4. QED BY <1>3 DEF a

\* What there is to show of a step outside the probe.
SessionFresh == Discipline /\ StartFirst(chain) /\ Startup /\ Causes

\* The session has closed, or is no longer trusted.
LEMMA NotTrusted ==
    ASSUME ~Trusted', Emptied'
    PROVE  Causes'
  BY DEF Causes, RunCause, StaleCause, Caught, Alarms

LEMMA NotOpen ==
    ASSUME conn' # "open"
    PROVE  Discipline' /\ Causes'
  <1>1. ~Trusted' /\ Emptied' /\ Discipline'
    BY DEF Trusted, Emptied, Discipline
  <1>2. QED BY <1>1, NotTrusted

\* A result has come: the worker has no call.
LEMMA ResultTaken ==
    ASSUME TypeOK, TypeOK', ChainInv, ChainInv', NEW by, NEW ok \in BOOLEAN, Result(by, ok)
    PROVE  /\ RepliesIn(wire) = {ok} /\ chain # <<>> /\ Head(chain).by = by
           /\ sent /\ ~sent' /\ ~Answering'
           /\ CallOps(mutex') = {} /\ RepliesIn(wire') = {}
           /\ NoAlarmIn(wire) => NoAlarmIn(wire')
           /\ NoAlarmBehind(wire) => NoAlarmIn(wire')
           /\ core' = core
  <1>1. Heard(TRUE) /\ Head(wire).ok = ok /\ chain # <<>> /\ Head(chain).by = by /\ core' = core
    BY ResultHeard
  <1>2. wire \in Seq(Messages) /\ wire # <<>> /\ wire' = Tail(wire) /\ OneReplyIn(wire)
        /\ Head(wire).type = "reply" /\ sent' = FALSE
    BY <1>1 DEF Heard, TypeOK, ProbeTypeOK, ChainInv, OneCall, SingleCall
  <1>3. /\ RepliesIn(wire) = {ok}
        /\ NoAlarmIn(wire) => NoAlarmIn(wire')
        /\ NoAlarmBehind(wire) => NoAlarmIn(wire')
    BY <1>1, <1>2, TailReplies
  <1>4. CallOps(mutex') = {} /\ RepliesIn(wire') = {}
    BY <1>2 DEF ChainInv, OneCall
  <1>5. sent
    BY <1>3 DEF ChainInv, OneCall
  <1>6. QED BY <1>1, <1>2, <1>3, <1>4, <1>5 DEF Answering

\* The result of a handler's call.
LEMMA HandlerResult ==
    ASSUME TypeOK, TypeOK', ChainInv, ChainInv', FreshInv,
           NEW ok \in BOOLEAN, Result("handler", ok),
           \/ chain' = Tail(chain)
           \/ \E ops : chain' = Append(Tail(chain), [by |-> "handler", ops |-> ops])
    PROVE  /\ StartFirst(chain') /\ Startup'
           /\ Answering /\ held' = (held /\ ok) /\ queue # <<>> /\ at \in {1, 2}
           /\ conn = "open" /\ Trusted' => Trusted /\ ok
  <1>1. /\ RepliesIn(wire) = {ok} /\ chain # <<>> /\ Head(chain).by = "handler"
        /\ sent /\ ~sent' /\ ~Answering' /\ CallOps(mutex') = {} /\ RepliesIn(wire') = {}
    BY ResultTaken
  <1>2. chain \in Seq(Requested) /\ Tail(chain) \in Seq(Requested) /\ StartFirst(chain)
    BY <1>1, HeadTail DEF TypeOK, FreshInv
  <1>3. StartFirst(Tail(chain)) /\ \A e \in Entries(Tail(chain)) : e.by # "start"
    BY <1>1, <1>2, StartFirstTail
  <1>4. StartFirst(chain') /\ \A e \in Entries(chain') : e.by # "start"
    <2>1. CASE chain' = Tail(chain)
      BY <1>3, <2>1
    <2>2. ASSUME NEW e, e.by = "handler", chain' = Append(Tail(chain), e)
          PROVE  StartFirst(chain') /\ \A f \in Entries(chain') : f.by # "start"
      <3>1. StartFirst(chain')
        BY <1>2, <1>3, <2>2, StartFirstAppend
      <3>2. Entries(chain') = Entries(Tail(chain)) \cup {e}
        <4>1. OneOfEach(Tail(chain)) /\ \A f \in Entries(Tail(chain)) : f.by # "handler"
          BY <1>1, <1>2, TailEntries DEF ChainInv
        <4>2. QED BY <1>2, <2>2, <4>1, AppendEntries
      <3>3. QED BY <1>3, <2>2, <3>1, <3>2
    <2>3. QED BY <2>1, <2>2
  <1>5. Startup'
    BY <1>1, <1>4 DEF Startup
  <1>6. queue # <<>> /\ at \in {1, 2}
    <2>1. EntryRight(Head(chain))
      BY <1>1, <1>2, TailEntries DEF ChainInv
    <2>2. queue # <<>> /\ at > 0
      BY <1>1, <2>1 DEF EntryRight
    <2>3. QED BY <2>2, AtHead
  <1>7. held' = (held /\ ok)
    BY DEF Result
  <1>8. conn = "open" /\ Trusted' => Trusted /\ ok
    <2>1. Trusted' => held'
      BY DEF Trusted
    <2>2. held' => held /\ ok
      BY <1>7, Zenon
    <2>3. ok => FALSE \notin RepliesIn(wire)
      BY <1>1
    <2>4. QED BY <2>1, <2>2, <2>3 DEF Trusted
  <1>9. QED BY <1>1, <1>4, <1>5, <1>6, <1>7, <1>8 DEF Answering

\* A handler is over.
LEMMA AnsweredFresh ==
    ASSUME TypeOK, TypeOK', ChainInv, ChainInv', FreshInv,
           NEW c \in AllCmds, NEW ok \in BOOLEAN, Answered(c, ok), Handled,
           conn = "open" => conn' = "open" \/ conn' = "ended",
           conn # "open" => conn' # "open",
           conn = "open" /\ conn' = "open" =>
              /\ running' => c = "c" /\ ok /\ gdb' = gdb
              /\ c = "c" /\ ok => running'
              /\ \/ cache' = cache \/ cache' = "none"
                 \/ c = "m" /\ (cache' = "stale" => core = "run")
              /\ c \in {"M", "Z0", "flash"} /\ ok => cache' = "none"
              /\ c = "vKill" => gdb' = "over"
              /\ c \notin {"D", "k"}
              /\ c = "reset" /\ ok => at = 2
    PROVE  SessionFresh'
  <1>0. /\ queue # <<>> /\ Head(queue) = c /\ at > 0 /\ Result("handler", ok)
        /\ chain' = Tail(chain) /\ queue' = Tail(queue) /\ at' = 0
    BY DEF Answered, Handling, Handled
  <1>1. /\ RepliesIn(wire) = {ok} /\ ~Answering'
        /\ NoAlarmBehind(wire) => NoAlarmIn(wire')
        /\ core' = core
    BY <1>0, ResultTaken
  <1>2. /\ StartFirst(chain') /\ Startup' /\ Answering
        /\ conn = "open" /\ Trusted' => Trusted /\ ok
    BY <1>0, HandlerResult
  <1>3. CASE conn' # "open"
    BY <1>2, <1>3, NotOpen DEF SessionFresh
  <1>4. CASE conn' = "open"
    <2>1. /\ conn = "open"
          /\ running' => c = "c" /\ ok /\ gdb' = gdb
          /\ c = "c" /\ ok => running'
          /\ \/ cache' = cache \/ cache' = "none"
             \/ c = "m" /\ (cache' = "stale" => core = "run")
          /\ c \in {"M", "Z0", "flash"} /\ ok => cache' = "none"
          /\ c = "vKill" => gdb' = "over"
          /\ c \notin {"D", "k"}
          /\ c = "reset" /\ ok => at = 2
      BY <1>4
    <2>2. /\ Len(queue) = 1 /\ ~running
          /\ gdb = IF c \in {"c", "s"} THEN "stop" ELSE "answer"
      BY <1>0, <2>1 DEF FreshInv, Discipline
    <2>3. queue' = <<>>
      BY <1>0, <2>2 DEF TypeOK
    <2>4. \A C : ~Handles(C)'
      BY <2>3 DEF Handles
    <2>5. \A C : Handles(C) <=> c \in C
      BY <1>0 DEF Handles
    <2>6. Discipline'
      BY <2>1, <2>2, <2>3 DEF Discipline
    <2>7. c \in {"c", "s"} => cache = "none"
      BY <2>1, <2>5 DEF FreshInv, Causes, Emptied
    <2>8. Emptied'
      BY <2>1, <2>4, <2>7 DEF Emptied
    <2>9. ASSUME Trusted' PROVE RunCause' /\ StaleCause' /\ Caught' /\ Alarms'
      <3>1. Trusted /\ ok /\ TRUE \in RepliesIn(wire)
        BY <1>1, <1>2, <2>1, <2>9
      <3>2. core = "run" => c \in {"c", "vKill"}
        <4>1. core = "run" => c \in {"c", "reset", "D", "k", "vKill"}
          BY <2>2, <2>5, <3>1 DEF FreshInv, Causes, RunCause
        <4>2. core = "run" => c # "reset"
          BY <1>2, <2>1, <2>5, <3>1 DEF FreshInv, Causes, Caught
        <4>3. QED BY <2>1, <4>1, <4>2
      <3>3. RunCause'
        BY <1>1, <2>1, <3>1, <3>2 DEF RunCause
      <3>4. cache = "stale" => c \in {"M", "Z0", "flash", "vKill"}
        <4>1. cache = "stale" => c \in {"M", "Z0", "flash", "reset", "D", "k", "vKill"}
          BY <2>2, <2>5, <3>1 DEF FreshInv, Causes, StaleCause
        <4>2. c = "reset" => cache = "none"
          BY <2>1, <2>5, <3>1 DEF FreshInv, Causes, Emptied
        <4>3. QED BY <2>1, <4>1, <4>2
      <3>5. StaleCause'
        BY <2>1, <3>1, <3>2, <3>4 DEF StaleCause
      <3>6. Caught'
        BY <1>1 DEF Caught
      <3>7. Alarms'
        BY <1>1, <1>2, <2>1, <2>5, <3>1 DEF Alarms, FreshInv, Causes
      <3>8. QED BY <3>3, <3>5, <3>6, <3>7
    <2>10. CASE ~Trusted'
      BY <1>2, <2>6, <2>8, <2>10, NotTrusted DEF SessionFresh
    <2>11. CASE Trusted'
      BY <1>2, <2>6, <2>8, <2>9, <2>11 DEF SessionFresh, Causes
    <2>12. QED BY <2>10, <2>11
  <1>5. QED BY <1>3, <1>4

LEMMA FreshAnswers ==
    ASSUME Calm, TypeOK, TypeOK', ChainInv, ChainInv', FreshInv,
           NEW ok \in BOOLEAN, NEW c \in AllCmds,
           \/ Resumed(ok) \/ Stepped(ok) \/ Read(ok) \/ HaltedAgain(ok)
           \/ Interrupted(ok) \/ Killed(ok)
           \/ Wrote(c, ok) \/ Monitored(c, ok) \/ Detached(c, ok)
           \/ Restarted(ok) /\ ~ok
    PROVE  SessionFresh'
  <1>0. \A d : Answered(d, ok) /\ conn = "open" =>
            /\ d \in Cmds \ {"drop"} /\ ~running
            /\ gdb = IF d \in {"c", "s"} THEN "stop" ELSE "answer"
    BY DEF Answered, Handling, FreshInv, Discipline
  <1> USE DEF AllCmds
  <1>1. CASE Resumed(ok)
    <2>1. Answered("c", ok) /\ Handled /\ cache' = cache /\ conn' = conn
          /\ (ok => running' /\ gdb' = gdb) /\ (~ok => running' = running)
      BY <1>1 DEF Resumed, Kept, Rested, Silent
    <2>2. QED BY <1>0, <2>1, AnsweredFresh
  <1>2. CASE Stepped(ok)
    <2>1. Answered("s", ok) /\ Handled /\ cache' = cache /\ conn' = conn /\ running' = running
      BY <1>2 DEF Stepped, Kept, Rested
    <2>2. QED BY <1>0, <2>1, AnsweredFresh
  <1>3. CASE Read(ok)
    <2>1. Answered("m", ok) /\ Handled /\ conn' = conn /\ running' = running
          /\ cache' = IF ~ok THEN cache ELSE IF core = "run" THEN "stale" ELSE "fresh"
      BY <1>3 DEF Read, Rested
    <2>2. QED BY <1>0, <2>1, AnsweredFresh
  <1>4. CASE HaltedAgain(ok)
    <2>1. Answered("reset", ok) /\ Handled /\ cache' = cache /\ conn' = conn /\ ~running' /\ at = 2
      BY <1>4 DEF HaltedAgain, Kept, Rested
    <2>2. QED BY <1>0, <2>1, AnsweredFresh
  <1>5. CASE Interrupted(ok)
    <2>1. Answered("^C", ok) /\ Handled /\ conn' = conn
      BY <1>5 DEF Interrupted, Rested
    <2>2. conn # "open"
      BY <1>0, <2>1 DEF Calm
    <2>3. QED BY <1>0, <2>1, <2>2, AnsweredFresh
  <1>6. CASE Killed(ok)
    <2>1. Answered("vKill", ok) /\ Handled /\ cache' = cache /\ conn' = conn
          /\ running' = running /\ (conn = "open" => gdb' = "over")
      BY <1>6 DEF Killed, Kept, Rested
    <2>2. QED BY <1>0, <2>1, AnsweredFresh
  <1>7. CASE Wrote(c, ok)
    <2>1. Answered(c, ok) /\ Handled /\ conn' = conn /\ running' = running
          /\ c \in {"M", "Z0", "z0", "Z1", "z1", "Z1ram"}
          /\ cache' = IF c \in {"M", "Z0"} THEN "none" ELSE cache
      BY <1>7 DEF Wrote, Invalidated, Kept, Rested
    <2>2. c \in {"z0", "Z1ram"} => conn # "open"
      BY <1>0, <2>1 DEF Calm
    <2>3. QED BY <1>0, <2>1, <2>2, AnsweredFresh
  <1>8. CASE Monitored(c, ok)
    <2>1. Answered(c, ok) /\ Handled /\ conn' = conn /\ ~running' /\ cache' = "none"
          /\ c \in {"reset halt", "halt", "flash"}
      BY <1>8 DEF Monitored, Invalidated, Rested
    <2>2. QED BY <1>0, <2>1, AnsweredFresh
  <1>9. CASE Detached(c, ok)
    <2>1. Answered(c, ok) /\ Handled /\ conn' # "open"
          /\ (conn = "open" => conn' = "ended")
      BY <1>9 DEF Detached
    <2>2. QED BY <1>0, <2>1, AnsweredFresh
  <1>10. CASE Restarted(ok) /\ ~ok
    <2>1. Answered("reset", ok) /\ Handled /\ conn' = conn /\ running' = running
          /\ cache' = "none"
      BY <1>10 DEF Restarted, Answered, Invalidated, Rested
    <2>2. QED BY <1>0, <1>10, <2>1, AnsweredFresh
  <1>11. QED BY <1>1, <1>2, <1>3, <1>4, <1>5, <1>6, <1>7, <1>8, <1>9, <1>10

\* A handler goes on: the processor runs, and is known to be about to.
LEMMA FreshSecond ==
    ASSUME TypeOK, TypeOK', ChainInv, ChainInv', FreshInv,
           NEW ok \in BOOLEAN, (Restarted(ok) /\ ok) \/ KillResets(ok)
    PROVE  SessionFresh'
  <1>1. /\ Result("handler", ok) /\ UNCHANGED <<queue, conn, gdb>> /\ running' = running /\ at' = 2
        /\ \E ops : chain' = Append(Tail(chain), [by |-> "handler", ops |-> ops])
        /\ \/ Head(queue) = "reset" /\ cache' = "none"
           \/ Head(queue) = "k" /\ cache' = cache
    BY DEF Restarted, KillResets, Handling, Invalidated, Kept, Rested
  <1>2. ~Answering' /\ core' = core
    BY <1>1, ResultTaken
  <1>3. StartFirst(chain') /\ Startup' /\ queue # <<>>
    BY <1>1, HandlerResult
  <1>4. Discipline'
    BY <1>1 DEF FreshInv, Discipline
  <1>5. conn' = "open" => ~running'
    BY <1>1, <1>3 DEF FreshInv, Discipline
  <1>6. Emptied'
    BY <1>1, <1>5 DEF Emptied, Handles
  <1>7. RunCause' /\ StaleCause'
    BY <1>1, <1>3 DEF RunCause, StaleCause, Handles
  <1>8. Caught'
    BY <1>2 DEF Caught
  <1>9. Alarms'
    BY <1>2, <1>5 DEF Alarms, Trusted
  <1>10. QED BY <1>3, <1>4, <1>6, <1>7, <1>8, <1>9 DEF SessionFresh, Causes

LEMMA FreshOthers ==
    ASSUME Calm, TypeOK, TypeOK', ChainInv, ChainInv', FreshInv,
           NEW ok \in BOOLEAN, Released(ok) \/ Started(ok) \/ WebResult(ok)
    PROVE  SessionFresh'
  <1>1. PICK by \in {"release", "start", "web"} : Result(by, ok)
    BY DEF Released, Started, WebResult
  <1>2. /\ RepliesIn(wire) = {ok} /\ chain # <<>> /\ Head(chain).by = by
        /\ ~sent' /\ ~Answering' /\ CallOps(mutex') = {} /\ RepliesIn(wire') = {}
        /\ NoAlarmIn(wire) => NoAlarmIn(wire')
        /\ core' = core
    BY <1>1, ResultTaken
  <1>3. ~Answering
    BY <1>2 DEF Answering
  <1>4. /\ UNCHANGED <<cache, queue, at, gdb>> /\ running' = running
        /\ conn' = conn \/ conn' = "none"
    BY DEF Released, Started, WebResult
  <1>5. chain' = Tail(chain)
    <2>1. "flash" \notin WebOps
      BY DEF Calm
    <2>2. web # "flash"
      BY <2>1 DEF TypeOK
    <2>3. QED BY <2>2 DEF Released, Started, WebResult
  <1>6. /\ StartFirst(chain') /\ Entries(chain') \subseteq Entries(chain)
        /\ by = "start" => \A e \in Entries(chain') : e.by # "start"
    BY <1>2, <1>5, StartFirstTail, TailEntries DEF FreshInv, ChainInv, TypeOK
  <1>7. Head(chain) \in Entries(chain)
    BY <1>2, TailEntries DEF TypeOK, ChainInv
  <1>8. Startup'
    <2>1. ASSUME conn' = "open", NEW e \in Entries(chain'), e.by = "start"
          PROVE  ~held' /\ cache' = "none" /\ ~running'
      <3>1. conn = "open" /\ e \in Entries(chain) /\ by # "start"
        BY <1>4, <1>6, <2>1
      <3>2. ~held /\ cache = "none" /\ ~running
        BY <2>1, <3>1 DEF FreshInv, Startup
      <3>3. by # "handler"
        BY <1>1
      <3>4. held' = held
        BY <1>1, <3>1, <3>3 DEF Result
      <3>5. QED BY <1>4, <3>2, <3>4
    <2>2. QED BY <1>2, <2>1 DEF Startup
  <1>9. Discipline' /\ Emptied'
    BY <1>4 DEF FreshInv, Discipline, Causes, Emptied, Handles
  <1>10. CASE by = "start"
    <2>1. held' = ok
      BY <1>1, <1>10 DEF Result
    <2>2. CASE ok /\ conn' = "open"
      <3>1. core = "halt" /\ cache = "none"
        <4>1. conn = "open" /\ TRUE \in RepliesIn(wire)
          BY <1>2, <1>4, <2>2
        <4>2. QED BY <1>2, <1>7, <1>10, <4>1 DEF FreshInv, Startup
      <3>2. QED BY <1>2, <1>4, <1>6, <1>8, <1>9, <3>1
                DEF SessionFresh, Causes, RunCause, StaleCause, Caught, Alarms
    <2>3. CASE ~(ok /\ conn' = "open")
      <3>1. ~Trusted'
        BY <2>1, <2>3 DEF Trusted
      <3>2. QED BY <1>6, <1>8, <1>9, <3>1, NotTrusted DEF SessionFresh
    <2>4. QED BY <2>2, <2>3
  <1>11. CASE by # "start"
    <2>1. held' = held
      BY <1>1, <1>11 DEF Result
    <2>2. Trusted' => Trusted
      BY <1>3, <1>4, <2>1 DEF Trusted
    <2>3. RunCause' /\ StaleCause'
      BY <1>2, <1>4, <2>2 DEF FreshInv, Causes, RunCause, StaleCause, Handles
    <2>4. Caught'
      BY <1>2 DEF Caught
    <2>5. Alarms'
      BY <1>2, <1>4, <2>2 DEF FreshInv, Causes, Alarms
    <2>6. QED BY <1>6, <1>8, <1>9, <2>3, <2>4, <2>5 DEF SessionFresh, Causes
  <1>12. QED BY <1>10, <1>11

\* The end of a wait for a stop comes when the processor has stopped.
LEMMA FreshEvents ==
    ASSUME TypeOK, TypeOK', ChainInv, ChainInv', FreshInv,
           HaltedEvent \/ \E t \in {"usb-connect", "usb-disconnect"} : UsbEvent(t)
    PROVE  SessionFresh'
  <1>1. /\ wire # <<>> /\ Head(wire).type # "reply" /\ wire' = Tail(wire)
        /\ UNCHANGED <<core, mutex, chain, sent, conn, queue, at, held>>
    BY DEF HaltedEvent, UsbEvent, Receives, history
  <1>2. \/ UNCHANGED <<cache, gdb>> /\ running' = running
        \/ /\ running /\ Head(wire).type \in Alarm /\ ~running' /\ cache' \in {cache, "none"}
           /\ gdb' = IF gdb = "stop" /\ conn = "open" THEN "nothing" ELSE gdb
    BY DEF HaltedEvent, UsbEvent, Receives, Alarm, Stops, Invalidated
  <1>3. /\ RepliesIn(wire') = RepliesIn(wire)
        /\ NoAlarmIn(wire) => NoAlarmIn(wire') /\ Head(wire).type \notin Alarm
        /\ NoAlarmBehind(wire) => NoAlarmBehind(wire')
    BY <1>1, TailReplies DEF TypeOK, ProbeTypeOK, ChainInv, OneCall, SingleCall
  <1>4. (Answering' <=> Answering) /\ (Trusted' => Trusted) /\ \A C : Handles(C)' <=> Handles(C)
    <2>1. Answering' <=> Answering
      BY <1>1 DEF Answering
    <2>2. held' <=> held
      BY <1>1
    <2>3. QED BY <1>1, <1>3, <2>1, <2>2 DEF Trusted, Handles
  <1>5. Startup'
    <2>1. /\ chain' = chain /\ CallOps(mutex') = CallOps(mutex) /\ core' = core /\ conn' = conn
          /\ ~held => ~held'
      BY <1>1
    <2>2. cache = "none" /\ ~running => cache' = "none" /\ ~running'
      BY <1>2
    <2>3. QED BY <1>3, <2>1, <2>2 DEF FreshInv, Startup
  <1>6. Discipline'
    BY <1>1, <1>2 DEF FreshInv, Discipline
  <1>7. Emptied'
    BY <1>1, <1>2, <1>4 DEF FreshInv, Causes, Emptied
  <1>8. RunCause'
    BY <1>1, <1>2, <1>3, <1>4 DEF FreshInv, Causes, RunCause, Alarms
  <1>9. StaleCause'
    BY <1>1, <1>2, <1>4 DEF FreshInv, Causes, StaleCause
  <1>10. Caught'
    BY <1>1, <1>3, <1>4 DEF FreshInv, Causes, Caught
  <1>11. Alarms'
    BY <1>1, <1>2, <1>3, <1>4 DEF FreshInv, Causes, Alarms
  <1>12. StartFirst(chain')
    BY <1>1 DEF FreshInv
  <1>13. QED BY <1>5, <1>6, <1>7, <1>8, <1>9, <1>10, <1>11, <1>12 DEF SessionFresh, Causes

\* A step that leaves the worker and the processor alone, and perhaps asks
\* for a call.
Leaves ==
    /\ UNCHANGED <<core, mutex, wire, sent>> /\ held' = held
    /\ chain' = chain \/ \E e : e.by # "start" /\ chain' = Append(chain, e)

LEMMA LeavesFresh ==
    ASSUME TypeOK, ChainInv, FreshInv, Leaves
    PROVE  /\ StartFirst(chain')
           /\ Answering' <=> Answering
           /\ conn' = conn => (Trusted' => Trusted)
           /\ (cache' = cache \/ cache' = "none") /\ running' = running
                 /\ (conn' = conn \/ conn' # "open") => Startup'
  <1>1. chain # <<>> => chain' # <<>> /\ Head(chain') = Head(chain)
    <2>1. \A e : chain # <<>> => Append(chain, e) # <<>> /\ Head(Append(chain, e)) = Head(chain)
      BY DEF TypeOK
    <2>2. QED BY <2>1 DEF Leaves
  <1>2. sent => chain # <<>>
    BY DEF ChainInv, OneCall
  <1>3. sent' = sent /\ mutex' = mutex /\ wire' = wire /\ core' = core
    BY DEF Leaves
  <1>4. Answering' <=> Answering
    BY <1>1, <1>2, <1>3 DEF Answering
  <1>5. held' <=> held
    BY DEF Leaves
  <1>6. conn' = conn => (Trusted' => Trusted)
    BY <1>3, <1>4, <1>5 DEF Trusted
  <1>7. StartFirst(chain')
    BY StartFirstAppend DEF Leaves, FreshInv, TypeOK
  <1>8. ASSUME NEW e \in Entries(chain'), e.by = "start" PROVE e \in Entries(chain)
    <2>1. CASE chain' = chain
      BY <1>8, <2>1
    <2>2. ASSUME NEW n, n.by # "start", chain' = Append(chain, n)
          PROVE  e \in Entries(chain)
      <3>1. \A i \in DOMAIN chain' : (i \in DOMAIN chain /\ chain'[i] = chain[i]) \/ chain'[i] = n
        <4>1. chain \in Seq(Requested)
          BY DEF TypeOK
        <4>2. QED BY <2>2, <4>1, AppendAt
      <3>2. QED BY <1>8, <2>2, <3>1 DEF Entries
    <2>3. QED BY <2>1, <2>2 DEF Leaves
  <1>9. ASSUME cache' = cache \/ cache' = "none", running' = running,
               conn' = conn \/ conn' # "open"
        PROVE  Startup'
    <2>1. ASSUME conn' = "open", NEW e \in Entries(chain'), e.by = "start"
          PROVE  ~held' /\ cache' = "none" /\ ~running'
      <3>1. conn = "open" /\ e \in Entries(chain)
        BY <1>8, <1>9, <2>1
      <3>2. ~held /\ cache = "none" /\ ~running
        BY <2>1, <3>1 DEF FreshInv, Startup
      <3>3. QED BY <1>5, <1>9, <3>2
    <2>2. CASE chain = <<>>
      <3>1. CallOps(mutex) = {} /\ RepliesIn(wire) = {}
        BY <1>2, <2>2 DEF ChainInv, OneCall
      <3>2. QED BY <1>3, <2>1, <3>1 DEF Startup
    <2>3. CASE chain # <<>>
      BY <1>1, <1>3, <2>1, <2>3 DEF Startup, FreshInv
    <2>4. QED BY <2>2, <2>3
  <1>10. QED BY <1>4, <1>6, <1>7, <1>9

LEMMA FreshSends ==
    ASSUME TypeOK, ChainInv, FreshInv, Sends
    PROVE  SessionFresh'
  <1>1. /\ UNCHANGED <<chain, core, wire, conn, cache, queue, at, gdb, held>> /\ running' = running
        /\ chain # <<>> /\ ~sent /\ mutex' = Append(mutex, Call(Head(chain).ops))
    BY DEF Sends, sessVars, history, LeavePoller
  <1>2. CallOps(mutex) = {} /\ RepliesIn(wire) = {}
    BY <1>1, NothingWaits DEF ChainInv
  <1>3. CallOps(mutex') = {Head(chain).ops}
    BY <1>1, <1>2, SentCall DEF TypeOK, ProbeTypeOK
  <1>4. Startup'
    <2>1. Head(chain).by = "start" => Head(chain).ops = StartCalls
      BY <1>1, TailEntries DEF ChainInv, EntryRight, TypeOK
    <2>2. held' <=> held
      BY <1>1
    <2>3. QED BY <1>1, <1>2, <1>3, <2>1, <2>2 DEF FreshInv, Startup
  <1>5. Trusted' => Trusted
    <2>1. held' <=> held
      BY <1>1
    <2>2. QED BY <1>1, <2>1 DEF Trusted, Answering
  <1>6. NoAlarmBehind(wire)
    BY <1>2 DEF RepliesIn, NoAlarmBehind
  <1>7. \A C : Handles(C)' <=> Handles(C)
    BY <1>1 DEF Handles
  <1>8. Discipline' /\ StartFirst(chain') /\ Emptied'
    BY <1>1, <1>7 DEF FreshInv, Discipline, Causes, Emptied
  <1>9. RunCause' /\ StaleCause'
    BY <1>1, <1>5, <1>7 DEF FreshInv, Causes, RunCause, StaleCause
  <1>10. Caught'
    BY <1>1, <1>2 DEF Caught
  <1>11. Alarms'
    BY <1>1, <1>5, <1>6 DEF FreshInv, Causes, Alarms
  <1>12. QED BY <1>4, <1>8, <1>9, <1>10, <1>11 DEF SessionFresh, Causes

\* Before the handler at the head of the queue is called, there is no cause
\* for a processor that runs, nor for a stale page.
LEMMA NoCauseYet ==
    ASSUME FreshInv, conn = "open", queue # <<>>, at = 0
    PROVE  /\ gdb # "over" /\ ~running
           /\ \A C : ~Handles(C)
           /\ Trusted => core # "run" /\ cache # "stale"
  <1>1. gdb # "over" /\ ~running
    BY DEF FreshInv, Discipline
  <1>2. \A C : ~Handles(C)
    BY DEF Handles
  <1>3. QED BY <1>1, <1>2 DEF FreshInv, Causes, RunCause, StaleCause

LEMMA FreshTurns ==
    ASSUME Calm, TypeOK, TypeOK', ChainInv, FreshInv, Turns
    PROVE  SessionFresh'
  <1>0. /\ queue # <<>> /\ at = 0 /\ UNCHANGED <<core, mutex, wire, sent, conn, held>>
        /\ running' = running
    BY DEF Turns, Begins, ReadsCache, IgnoresInterrupt, probeVars, history
  <1>1. Leaves
    <2>1. ASSUME NEW c, Begins(c) PROVE Leaves
      <3>1. Calls("handler", Steps[c][1])
        BY <2>1 DEF Begins
      <3> DEFINE n == [by |-> "handler", ops |-> Steps[c][1]]
      <3>2. n.by # "start" /\ chain' = Append(chain, n)
        BY <3>1 DEF Calls
      <3> HIDE DEF n
      <3>3. QED BY <1>0, <3>2 DEF Leaves
    <2>2. ASSUME ReadsCache \/ IgnoresInterrupt PROVE Leaves
      BY <1>0, <2>2 DEF ReadsCache, IgnoresInterrupt, Leaves
    <2>3. QED BY <2>1, <2>2 DEF Turns
  <1>2. cache' = cache \/ cache' = "none"
    BY DEF Turns, Begins, ReadsCache, IgnoresInterrupt, Invalidated, Kept
  <1>3. /\ StartFirst(chain') /\ Startup' /\ (Answering' <=> Answering)
        /\ Trusted' => Trusted
    BY <1>0, <1>1, <1>2, LeavesFresh
  <1>4. CASE conn # "open"
    BY <1>0, <1>3, <1>4, NotOpen DEF SessionFresh
  <1>5. CASE conn = "open"
    <2>1. gdb # "over" /\ ~running /\ (\A C : ~Handles(C))
          /\ (Trusted => core # "run" /\ cache # "stale")
      BY <1>0, <1>5, NoCauseYet
    <2>2. Len(queue) = 1 /\ Head(queue) \in Cmds \ {"drop"}
          /\ gdb = IF Head(queue) \in {"c", "s"} THEN "stop" ELSE "answer"
      BY <1>0, <1>5 DEF FreshInv, Discipline
    <2>3. RunCause' /\ StaleCause'
      BY <1>0, <1>2, <1>3, <2>1 DEF RunCause, StaleCause
    <2>4. Alarms'
      BY <1>0, <1>3, <2>1 DEF Alarms
    <2>5. Caught' /\ Emptied' /\ Discipline'
      <3>1. ASSUME NEW c \in AllCmds, Begins(c) PROVE Caught' /\ Emptied' /\ Discipline'
        <4>1. /\ Head(queue) = c /\ at' = 1 /\ UNCHANGED <<queue, gdb>>
              /\ c \in {"c", "s"} => cache' = "none"
          BY <3>1 DEF Begins, Invalidated
        <4>2. at' # 2
          BY <4>1
        <4>3. Caught'
          BY <4>2 DEF Caught
        <4>4. Emptied'
          BY <1>0, <2>1, <4>1, <4>2 DEF Emptied, Handles
        <4>5. Discipline'
          BY <1>0, <4>1 DEF FreshInv, Discipline
        <4>6. QED BY <4>3, <4>4, <4>5
      <3>2. ASSUME ReadsCache \/ IgnoresInterrupt PROVE Caught' /\ Emptied' /\ Discipline'
        <4>1. IgnoresInterrupt => "^C" \in Cmds
          BY <2>2 DEF IgnoresInterrupt
        <4>2. ReadsCache
          BY <3>2, <4>1 DEF Calm
        <4>3. at' = 0 /\ queue' = Tail(queue)
          BY <4>2 DEF ReadsCache, Handled
        <4>4. queue' = <<>>
          BY <2>2, <4>3 DEF TypeOK
        <4>5. \A C : ~Handles(C)'
          BY <4>4 DEF Handles
        <4>6. QED BY <1>0, <2>1, <4>4, <4>5 DEF Caught, Emptied, Discipline
      <3>3. QED BY <3>1, <3>2 DEF Turns
    <2>6. QED BY <1>3, <2>3, <2>4, <2>5 DEF SessionFresh, Causes
  <1>6. QED BY <1>4, <1>5

LEMMA FreshRequests ==
    ASSUME Calm, TypeOK, TypeOK', ChainInv, FreshInv,
           \/ Connect \/ Drops \/ GdbInterrupts
           \/ (\E c \in AllCmds : GdbSends(c)) \/ (\E o \in WebOps : WebCalls(o))
    PROVE  SessionFresh'
  <1>1. CASE Connect
    <2>1. /\ conn' = "open" /\ ~running' /\ cache' = "none" /\ gdb' = "nothing" /\ held' = FALSE
          /\ queue' = <<>> /\ UNCHANGED <<mutex, wire, sent>>
          /\ Calls("start", StartCalls)
      BY <1>1 DEF Connect, probeVars, Invalidated, StartCalls
    <2>2. \A e \in Entries(chain) : e.by = "web"
      BY <1>1 DEF Connect, Entries
    <2>3. StartFirst(chain')
      BY <2>1, <2>2, StartFirstAppend DEF Calls, FreshInv, TypeOK
    <2>4. Startup'
      <3>1. CASE chain = <<>>
        <4>1. CallOps(mutex) = {} /\ RepliesIn(wire) = {}
          BY <3>1 DEF ChainInv, OneCall
        <4>2. QED BY <2>1, <4>1 DEF Startup
      <3>2. CASE chain # <<>>
        <4>1. Head(chain') = Head(chain)
          BY <2>1, <3>2 DEF Calls, TypeOK
        <4>2. Head(chain).by = "web"
          BY <2>2, <3>2, TailEntries DEF ChainInv, TypeOK
        <4>3. QED BY <2>1, <4>1, <4>2 DEF Startup
      <3>3. QED BY <3>1, <3>2
    <2>5. Discipline' /\ Emptied' /\ ~Trusted'
      BY <2>1 DEF Discipline, Emptied, Trusted
    <2>6. QED BY <2>3, <2>4, <2>5, NotTrusted DEF SessionFresh
  <1>2. CASE Drops
    <2>1. /\ UNCHANGED <<core, mutex, wire, sent, held, cache>> /\ running' = running
          /\ conn' # "open" /\ Calls("release", Release(TRUE))
      BY <1>2 DEF Drops, probeVars
    <2> DEFINE n == [by |-> "release", ops |-> Release(TRUE)]
    <2>2. n.by # "start" /\ chain' = Append(chain, n)
      BY <2>1 DEF Calls
    <2> HIDE DEF n
    <2>3. Leaves
      BY <2>1, <2>2 DEF Leaves
    <2>4. StartFirst(chain') /\ Startup'
      BY <2>1, <2>3, LeavesFresh
    <2>5. QED BY <2>1, <2>4, NotOpen DEF SessionFresh
  <1>3. CASE GdbInterrupts
    BY <1>3 DEF GdbInterrupts, Calm
  <1>4. ASSUME NEW c \in AllCmds, GdbSends(c) PROVE SessionFresh'
    <2>1. /\ UNCHANGED <<core, mutex, wire, sent, chain, conn, cache, at, held>>
          /\ running' = running /\ conn = "open" /\ gdb = "nothing" /\ c \in Cmds \ {"^C", "drop"}
          /\ gdb' = (IF c \in {"c", "s"} THEN "stop" ELSE "answer") /\ queue' = Append(queue, c)
      BY <1>4 DEF GdbSends, probeVars, history
    <2>2. StartFirst(chain') /\ Startup' /\ (Trusted' => Trusted)
      <3>1. Leaves
        BY <2>1 DEF Leaves
      <3>2. QED BY <2>1, <3>1, LeavesFresh
    <2>3. queue = <<>> /\ ~running
      BY <2>1 DEF FreshInv, Discipline
    <2>4. at' = 0
      BY <2>1, <2>3 DEF ChainInv, AtRight
    <2>5. (\A C : ~Handles(C)) /\ (\A C : ~Handles(C)')
      BY <2>3, <2>4 DEF Handles
    <2>6. queue' = <<c>>
      BY <2>1, <2>3
    <2>7. Discipline'
      <3>1. Len(queue') = 1 /\ Head(queue') = c
        BY <2>6
      <3>2. QED BY <2>1, <2>3, <3>1 DEF Discipline
    <2>8. Emptied'
      BY <2>1, <2>3, <2>5 DEF Emptied
    <2>9. RunCause' /\ StaleCause'
      BY <2>1, <2>2, <2>3, <2>5 DEF FreshInv, Causes, RunCause, StaleCause
    <2>10. Caught' /\ Alarms'
      BY <2>1, <2>3, <2>5 DEF Caught, Alarms
    <2>11. QED BY <2>2, <2>7, <2>8, <2>9, <2>10 DEF SessionFresh, Causes
  <1>5. ASSUME NEW o \in WebOps, WebCalls(o) PROVE SessionFresh'
    <2>1. /\ UNCHANGED <<core, mutex, wire, sent, conn, cache, queue, at, gdb, held>>
          /\ running' = running /\ Calls("web", <<o>>)
      BY <1>5 DEF WebCalls, probeVars, history
    <2> DEFINE n == [by |-> "web", ops |-> <<o>>]
    <2>2. n.by # "start" /\ chain' = Append(chain, n)
      BY <2>1 DEF Calls
    <2> HIDE DEF n
    <2>3. Leaves
      BY <2>1, <2>2 DEF Leaves
    <2>4. /\ StartFirst(chain') /\ Startup' /\ (Trusted' => Trusted)
          /\ Answering' <=> Answering
      BY <2>1, <2>3, LeavesFresh
    <2>5. \A C : Handles(C)' <=> Handles(C)
      BY <2>1 DEF Handles
    <2>6. Discipline' /\ Emptied'
      BY <2>1, <2>5 DEF FreshInv, Discipline, Causes, Emptied
    <2>7. RunCause' /\ StaleCause'
      BY <2>1, <2>4, <2>5 DEF FreshInv, Causes, RunCause, StaleCause
    <2>8. Caught'
      BY <2>1, <2>4, <2>5 DEF FreshInv, Causes, Caught
    <2>9. Alarms'
      BY <2>1, <2>4, <2>5 DEF FreshInv, Causes, Alarms
    <2>10. QED BY <2>4, <2>6, <2>7, <2>8, <2>9 DEF SessionFresh, Causes
  <1>6. QED BY <1>1, <1>2, <1>3, <1>4, <1>5

LEMMA FreshStep ==
    ASSUME Calm, TypeOK, TypeOK', ChainInv, FreshInv, [Next]_vars
    PROVE  FreshInv'
  <1>0. ChainInv'
    BY ChainStep
  <1>1. CASE \/ ByProbe(Work) \/ ByProbe(TimerFires) \/ ByProbe(StrayFires)
             \/ ByProbe(DisconnectEvent) \/ ByProbe(ConnectEvent) \/ ByProbe(World)
    <2>1. ProbeSeen
      BY <1>1 DEF ByProbe, ProbeStep, ProbeSeen
    <2>2. Plugged'
      BY <2>1, PluggedProbe DEF ProbeSeen, TypeOK, FreshInv
    <2>3. Discipline' /\ StartFirst(chain')
      BY <2>1 DEF ProbeSeen, FreshInv, Discipline
    <2>4. Startup'
      BY <2>1, StartupProbe DEF FreshInv
    <2>5. Causes'
      BY <2>1, CausesProbe
    <2>6. QED BY <2>2, <2>3, <2>4, <2>5 DEF FreshInv
  <1>2. CASE \/ Sends \/ Turns \/ Arrives \/ Connect \/ Drops \/ GdbInterrupts
             \/ (\E c \in AllCmds : GdbSends(c)) \/ (\E o \in WebOps : WebCalls(o))
    <2>1. Plugged'
      BY <1>2, SessionStep DEF FreshInv, Plugged
    <2>2. SessionFresh'
      <3>1. ASSUME NEW ok \in BOOLEAN, Restarted(ok) PROVE SessionFresh'
        BY <1>0, <3>1, FreshSecond, FreshAnswers DEF AllCmds
      <3>2. CASE Arrives
        BY <1>0, <3>1, <3>2, FreshAnswers, FreshSecond, FreshOthers, FreshEvents
           DEF Arrives, AllCmds
      <3>3. QED BY <1>2, <3>2, FreshSends, FreshTurns, FreshRequests
    <2>3. QED BY <2>1, <2>2 DEF SessionFresh, FreshInv
  <1>3. CASE UNCHANGED vars
    <2>1. /\ UNCHANGED <<chain, conn, cache, queue, at, gdb, core, mutex, wire, usbState>>
          /\ running' = running /\ sent' = sent /\ held' = held /\ link' = link
      BY <1>3 DEF vars, probeVars, sessVars, history
    <2>2. (Answering' <=> Answering) /\ \A C : Handles(C)' <=> Handles(C)
      BY <2>1 DEF Answering, Handles
    <2>3. Trusted' => Trusted
      BY <2>1, <2>2 DEF Trusted
    <2>4. Plugged' /\ Discipline' /\ StartFirst(chain') /\ Startup'
      BY <2>1 DEF FreshInv, Plugged, Discipline, Startup
    <2>5. Causes'
      BY <2>1, <2>2, <2>3 DEF FreshInv, Causes, RunCause, StaleCause, Emptied, Caught, Alarms
    <2>6. QED BY <2>4, <2>5 DEF FreshInv
  <1>4. QED BY <1>1, <1>2, <1>3 DEF Next

\* While the debugger's packets, resets and flashing included, are all that
\* writes the target's memory - and of the breakpoints it puts into RAM it clears
\* none, and asks for none by Z1 -, no read is answered from a page that has
\* changed since it was read (server.ts memCache, invalidate).
THEOREM ReadsFresh ==
    ASSUME Calm
    PROVE  Spec => []CacheFresh
  <1>1. Init => ChainInv /\ FreshInv
    <2>1. Init => Plugged /\ Discipline /\ StartFirst(chain) /\ Startup
      BY DEF Init, ProbeInit, Plugged, Discipline, StartFirst, Startup
    <2>2. Init => Causes
      BY DEF Init, ProbeInit, Causes, RunCause, StaleCause, Emptied, Caught, Alarms, Trusted
    <2>3. QED BY <2>1, <2>2, ChainInit DEF FreshInv
  <1>2. TypeOK /\ TypeOK' /\ ChainInv /\ FreshInv /\ [Next]_vars => ChainInv' /\ FreshInv'
    BY ChainStep, FreshStep
  <1>3. TypeOK /\ ChainInv /\ FreshInv => CacheFresh
    <2> SUFFICES ASSUME TypeOK, ChainInv, FreshInv,
                        held, conn = "open", queue # <<>>, Head(queue) = "m", at = 0
                 PROVE  cache # "stale"
      BY DEF CacheFresh
    <2>1. ~Answering
      <3>1. chain # <<>> => Head(chain) \in Entries(chain)
        BY TailEntries DEF TypeOK, ChainInv
      <3>2. \A e \in Entries(chain) : e.by # "handler"
        BY NoHandlerYet
      <3>3. QED BY <3>1, <3>2 DEF Answering
    <2>2. Trusted
      BY <2>1 DEF Trusted
    <2>3. QED BY <2>2, NoCauseYet
  <1>4. QED BY <1>1, <1>2, <1>3, GdbTypeCorrect, PTL DEF Spec
=============================================================================
