------------------------------- MODULE Broker -------------------------------
(***************************************************************************)
(* The session broker (deploy/multiuser/broker/fl_broker.py): one process  *)
(* that creates, starts, stops and wipes one code-server container per     *)
(* user slug and answers Caddy's forward_auth with the container's port.   *)
(*                                                                         *)
(* Threads: one per HTTP request (Clients) and the reaper.  A thread is    *)
(* interleaved between any two docker calls and at every lock; the         *)
(* assignments that follow a docker call up to the next call or lock are   *)
(* part of the call's step.  A Session is a Python object: a thread keeps  *)
(* the object it got from _get_session even after the table has dropped    *)
(* it, so the table maps a slug to an object of the heap, and an object    *)
(* nobody refers to is collected.                                          *)
(*                                                                         *)
(* Time is abstracted to what the code compares: the age of verified_at,   *)
(* in ticks up to CacheTicks (FL_RESOLVE_CACHE_S), and whether last_seen   *)
(* and the heartbeat file are within the idle limit.                       *)
(***************************************************************************)
EXTENDS Naturals, FiniteSets

CONSTANTS
    Slugs,        \* user slugs (slug_for of the gate's e-mail)
    Clients,      \* HTTP request threads, each serving one request at a time
    Reaper,       \* the reaper thread (main runs the start-up reconcile as it)
    Obj,          \* identities of Session objects
    Ports,        \* ephemeral host ports docker may publish
    None,         \* Python's None
    MaxSessions,  \* FL_MAX_SESSIONS
    CacheTicks,   \* FL_RESOLVE_CACHE_S in ticks
    Ops,          \* the requests the clients make
    ReaperOn,     \* FALSE: FL_REAPER_INTERVAL_S lies beyond the horizon
    Faults        \* what may go wrong, see FaultKinds

FaultKinds == {"fail", "timeout", "exit", "unhealthy", "rollout", "restart"}
Requests == {"ensure", "stop", "wipe", "list"}
Threads == Clients \cup {Reaper}
Never == CacheTicks + 1

ASSUME BrokerAssumption ==
    /\ Reaper \notin Clients
    /\ None \notin Slugs \cup Obj \cup Ports \cup Threads
    /\ CacheTicks \in Nat
    /\ MaxSessions \in Nat
    /\ Ops \subseteq Requests
    /\ ReaperOn \in BOOLEAN
    /\ Faults \subseteq FaultKinds

VARIABLES
    (* docker *)
    ctr,      \* the container of a slug: absent, exited, running
    pub,      \* the host port it publishes while running
    old,      \* its image is no longer the current one
    vol,      \* the slug's workspace volume exists
    beat,     \* its heartbeat file was written within the idle limit
    (* the broker's memory *)
    table,    \* Broker.sessions
    heap,     \* the Session objects
    lock,     \* Broker._slug_locks: the thread inside `with self._slug_lock`
    serving,  \* main has finished the start-up reconcile
    cands,    \* candidates reap_idle has not visited yet
    th,       \* program counter and locals of every thread
    (* ghost *)
    gone      \* ticks since slug s last published port p, up to CacheTicks,
              \* or Never

dockerVars == <<ctr, pub, old, vol, beat, gone>>
vars == <<ctr, pub, old, vol, beat, table, heap, lock, serving, cands, th, gone>>

-----------------------------------------------------------------------------
(* Types *)

Session == [slug: Slugs \cup {None}, status: {"missing", "stopped", "running"},
            port: Ports \cup {None}, age: 0..CacheTicks,
            seen: {"never", "old", "recent"}]

\* Mutant: __init__ forgets the status.
NewSessionNoStatus(s) == [slug |-> s, status |-> None, port |-> None,
                          age |-> CacheTicks, seen |-> "never"]

\* Session.__init__: last_seen and verified_at are 0.0, long ago.
NewSession(s) == [slug |-> s, status |-> "missing", port |-> None,
                  age |-> CacheTicks, seen |-> "never"]

Collected == NewSession(None)   \* an object identity that is not in use

CState == {"absent", "exited", "running"}

PCs == {"idle", "want", "inspect", "image", "replace", "admitCreate", "create",
        "admitStart", "start", "port", "recheck", "health", "confirm", "reply",
        "stop", "rm", "volrm",
        "row", "rowPort", "rowWrite", "pick", "beat"}

Thread == [pc: PCs, op: Requests \cup {"none", "boot", "reap"},
           slug: Slugs \cup {None}, ref: Obj \cup {None}, started: BOOLEAN,
           val: Ports \cup {None}, clk: 0..CacheTicks,
           snap: [Slugs -> CState], todo: SUBSET Slugs]

Idle == [pc |-> "idle", op |-> "none", slug |-> None, ref |-> None,
         started |-> FALSE, val |-> None, clk |-> 0,
         snap |-> [s \in Slugs |-> "absent"], todo |-> {}]

TypeOK ==
    /\ ctr \in [Slugs -> CState]
    /\ pub \in [Slugs -> Ports \cup {None}]
    /\ old \in [Slugs -> BOOLEAN]
    /\ vol \in [Slugs -> BOOLEAN]
    /\ beat \in [Slugs -> BOOLEAN]
    /\ table \in [Slugs -> Obj \cup {None}]
    /\ heap \in [Obj -> Session]
    /\ lock \in [Slugs -> Threads \cup {None}]
    /\ serving \in BOOLEAN
    /\ cands \in SUBSET Obj
    /\ th \in [Threads -> Thread]
    /\ gone \in [Slugs -> [Ports -> 0..Never]]

-----------------------------------------------------------------------------
(* The heap, the table and what a thread does when it leaves an operation *)

\* Objects that the table, a thread or the reaper's candidate list refers to.
Reached(tab, T, C) ==
    {tab[s] : s \in Slugs} \cup {T[t].ref : t \in Threads} \cup C

\* The next heap, table, locals and candidates; unreachable objects go.
Memory(h, tab, T, C) ==
    /\ table' = tab
    /\ th' = T
    /\ cands' = C
    /\ heap' = [o \in Obj |-> IF o \in Reached(tab, T, C) THEN h[o] ELSE Collected]

FreeObj == {o \in Obj : heap[o].slug = None}

\* _get_session: the table's object, or a new one put into the table.
SessionOf(s) == IF table[s] # None THEN table[s] ELSE CHOOSE o \in FreeObj : TRUE
CanGet(s) == table[s] # None \/ FreeObj # {}
HeapWith(s) == IF table[s] # None THEN heap
               ELSE [heap EXCEPT ![SessionOf(s)] = NewSession(s)]
TableWith(s) == [table EXCEPT ![s] = SessionOf(s)]

RunningCount ==
    Cardinality({s \in Slugs : table[s] # None /\ heap[table[s]].status = "running"})

\* The thread's operation returns: a request is answered; reap_idle goes on
\* with its next candidate; an exception ends the reaper's round instead.
AfterReturn(t) == IF t = Reaper THEN [Idle EXCEPT !.pc = "pick", !.op = "reap"] ELSE Idle
CandsAfterRaise(t) == IF t = Reaper THEN {} ELSE cands

\* Mutant: lock.acquire() and release() without a finally.
RaiseKeepingLock(t) ==
    /\ Memory(heap, table, [th EXCEPT ![t] = Idle], CandsAfterRaise(t))
    /\ UNCHANGED <<lock, serving>>

\* A BrokerError leaves the `with self._slug_lock` block.
Raise(t) ==
    /\ lock' = [lock EXCEPT ![th[t].slug] = None]
    /\ Memory(heap, table, [th EXCEPT ![t] = Idle], CandsAfterRaise(t))
    /\ UNCHANGED serving

Goto(t, where) ==
    /\ Memory(heap, table, [th EXCEPT ![t].pc = where], cands)
    /\ UNCHANGED <<lock, serving>>

\* The session object a thread works on, with some fields replaced.
Sess(t) == heap[th[t].ref]
Put(t, session) == [heap EXCEPT ![th[t].ref] = session]

-----------------------------------------------------------------------------
(* docker (external): the effect of a command on the container of slug s *)

NoEffect == UNCHANGED dockerVars

\* docker run / docker start: a free host port is published.
Runs(s) ==
    /\ \E p \in Ports \ {pub[x] : x \in Slugs} :
          /\ pub' = [pub EXCEPT ![s] = p]
          /\ gone' = [gone EXCEPT ![s][p] = 0]
    /\ ctr' = [ctr EXCEPT ![s] = "running"]

Created(s) ==
    /\ ctr[s] = "absent"      \* else the name is taken and docker run fails
    /\ Runs(s)
    /\ old' = [old EXCEPT ![s] = FALSE]
    /\ vol' = [vol EXCEPT ![s] = TRUE]
    /\ beat' = [beat EXCEPT ![s] = FALSE]

Started(s) == ctr[s] = "exited" /\ Runs(s) /\ UNCHANGED <<old, vol, beat>>

Stopped(s) ==
    /\ ctr' = [ctr EXCEPT ![s] = IF @ = "running" THEN "exited" ELSE @]
    /\ pub' = [pub EXCEPT ![s] = None]
    /\ UNCHANGED <<old, vol, beat, gone>>

Removed(s) ==
    /\ ctr' = [ctr EXCEPT ![s] = "absent"]
    /\ pub' = [pub EXCEPT ![s] = None]
    /\ UNCHANGED <<old, vol, beat, gone>>

\* docker volume rm refuses while a container still uses the volume.
VolumeRemoved(s) ==
    /\ vol' = [vol EXCEPT ![s] = vol[s] /\ ctr[s] # "absent"]
    /\ UNCHANGED <<ctr, pub, old, beat, gone>>

\* docker run that fails may leave the container created but not started.
LeftCreated(s) ==
    /\ ctr[s] = "absent"
    /\ ctr' = [ctr EXCEPT ![s] = "exited"]
    /\ old' = [old EXCEPT ![s] = FALSE]
    /\ vol' = [vol EXCEPT ![s] = TRUE]
    /\ beat' = [beat EXCEPT ![s] = FALSE]
    /\ UNCHANGED <<pub, gone>>

Fails == "fail" \in Faults         \* a command may exit with returncode # 0
TimesOut == "timeout" \in Faults   \* a command may not answer in time

-----------------------------------------------------------------------------
(* A request arrives: ensure_session, stop_session, wipe_session take the  *)
(* session object first and the slug's lock afterwards.                    *)

Begin(t, s, op) ==
    /\ serving
    /\ th[t].pc = "idle"
    /\ op \in Ops \ {"list"}
    /\ CanGet(s)
    /\ Memory(HeapWith(s), TableWith(s),
              [th EXCEPT ![t] = [Idle EXCEPT !.pc = "want", !.op = op,
                                             !.slug = s, !.ref = SessionOf(s)]],
              cands)
    /\ UNCHANGED <<lock, serving>> /\ UNCHANGED dockerVars

\* The fast path of ensure_session: running, a port, verified recently.
Fresh(o) ==
    /\ heap[o].status = "running"
    /\ heap[o].port # None
    /\ heap[o].age < CacheTicks

\* Mutant: an answer from the cache counts as a confirmation by docker.
CacheHitVerifies(t) ==
    /\ th[t].pc = "want" /\ th[t].op = "ensure"
    /\ lock[th[t].slug] = None
    /\ Fresh(th[t].ref)
    /\ Memory(Put(t, [Sess(t) EXCEPT !.seen = "recent", !.age = 0]), table,
              [th EXCEPT ![t].pc = "reply"], cands)
    /\ UNCHANGED <<lock, serving>> /\ UNCHANGED dockerVars

CacheHit(t) ==
    /\ th[t].pc = "want" /\ th[t].op = "ensure"
    /\ lock[th[t].slug] = None
    /\ Fresh(th[t].ref)
    /\ Memory(Put(t, [Sess(t) EXCEPT !.seen = "recent"]), table,
              [th EXCEPT ![t].pc = "reply"], cands)
    /\ UNCHANGED <<lock, serving>> /\ UNCHANGED dockerVars

\* Mutant: only ensure_session takes the lock.
AcquireStopUnlocked(t) ==
    /\ th[t].pc = "want"
    /\ th[t].op = "ensure" => lock[th[t].slug] = None /\ ~Fresh(th[t].ref)
    /\ lock' = [lock EXCEPT ![th[t].slug] = t]
    /\ Memory(heap, table,
              [th EXCEPT ![t].pc = IF th[t].op = "ensure" THEN "inspect" ELSE "stop"],
              cands)
    /\ UNCHANGED serving /\ UNCHANGED dockerVars

Acquire(t) ==
    /\ th[t].pc = "want"
    /\ lock[th[t].slug] = None
    /\ th[t].op = "ensure" => ~Fresh(th[t].ref)
    /\ lock' = [lock EXCEPT ![th[t].slug] = t]
    /\ Memory(heap, table,
              [th EXCEPT ![t].pc = IF th[t].op = "ensure" THEN "inspect" ELSE "stop"],
              cands)
    /\ UNCHANGED serving /\ UNCHANGED dockerVars

-----------------------------------------------------------------------------
(* ensure_session, slow path, under the slug's lock *)

\* inspect_container: a failing inspect reads as "does not exist".
Inspect(t) ==
    /\ th[t].pc = "inspect"
    /\ \/ ctr[th[t].slug] = "absent" /\ Goto(t, "admitCreate")
       \/ ctr[th[t].slug] = "exited" /\ Goto(t, "image")
       \/ ctr[th[t].slug] = "running" /\ Goto(t, "port")
       \/ Fails /\ Goto(t, "admitCreate")
       \/ TimesOut /\ Raise(t)
    /\ NoEffect

\* current_image_id: unknown ("") or unchanged means start what is there.
CompareImage(t) ==
    /\ th[t].pc = "image"
    /\ \/ old[th[t].slug] /\ Goto(t, "replace")
       \/ (~old[th[t].slug] \/ Fails) /\ Goto(t, "admitStart")
       \/ TimesOut /\ Raise(t)
    /\ NoEffect

\* docker rm -f of the stopped container of an old image.
Replace(t) ==
    /\ th[t].pc = "replace"
    /\ \/ Removed(th[t].slug) /\ Goto(t, "admitCreate")
       \/ (Fails \/ TimesOut) /\ NoEffect /\ Raise(t)
       \/ TimesOut /\ Removed(th[t].slug) /\ Raise(t)

\* Mutant: > for >=.
AdmitOneMore(t) ==
    /\ \/ th[t].pc = "admitCreate"
       \/ th[t].pc = "admitStart"
    /\ LET full == Sess(t).status # "running" /\ RunningCount > MaxSessions
       IN  \/ full /\ Raise(t)
           \/ ~full /\ th[t].pc = "admitCreate" /\ Goto(t, "create")
           \/ ~full /\ th[t].pc = "admitStart" /\ Goto(t, "start")
    /\ NoEffect

\* _check_capacity, before docker run and before docker start.
Admit(t) ==
    /\ \/ th[t].pc = "admitCreate"
       \/ th[t].pc = "admitStart"
    /\ LET full == Sess(t).status # "running" /\ RunningCount >= MaxSessions
       IN  \/ full /\ Raise(t)
           \/ ~full /\ th[t].pc = "admitCreate" /\ Goto(t, "create")
           \/ ~full /\ th[t].pc = "admitStart" /\ Goto(t, "start")
    /\ NoEffect

WithStarted(t) ==
    /\ Memory(heap, table, [th EXCEPT ![t].pc = "port", ![t].started = TRUE], cands)
    /\ UNCHANGED <<lock, serving>>

CreateContainer(t) ==
    /\ th[t].pc = "create"
    /\ \/ Created(th[t].slug) /\ WithStarted(t)
       \/ (Fails \/ TimesOut \/ ctr[th[t].slug] # "absent") /\ NoEffect /\ Raise(t)
       \/ (Fails \/ TimesOut) /\ LeftCreated(th[t].slug) /\ Raise(t)
       \/ TimesOut /\ Created(th[t].slug) /\ Raise(t)

StartContainer(t) ==
    /\ th[t].pc = "start"
    /\ \/ Started(th[t].slug) /\ WithStarted(t)
       \/ (Fails \/ TimesOut) /\ NoEffect /\ Raise(t)
       \/ TimesOut /\ Started(th[t].slug) /\ Raise(t)

\* Mutant: the container is looked up by a prefix of its name.
ReadPortByPrefix(t) ==
    /\ th[t].pc = "port"
    /\ \E x \in Slugs :
          /\ pub[x] # None
          /\ Memory(Put(t, [Sess(t) EXCEPT !.port = pub[x]]), table,
                    [th EXCEPT ![t].pc = IF th[t].started THEN "recheck" ELSE "confirm"], cands)
    /\ UNCHANGED <<lock, serving>> /\ NoEffect

\* container_port: None when docker port fails or nothing is published; then
\* the session is marked stopped (its port is left as it was) and 503.
\* Otherwise sess.port = port.
ReadPort(t) ==
    /\ th[t].pc = "port"
    /\ LET p == pub[th[t].slug]
           noPort == Put(t, [Sess(t) EXCEPT !.status = "stopped"])
           next == IF th[t].started THEN "recheck" ELSE "confirm"
       IN  \/ /\ p # None
              /\ Memory(Put(t, [Sess(t) EXCEPT !.port = p]), table,
                        [th EXCEPT ![t].pc = next], cands)
              /\ UNCHANGED <<lock, serving>>
           \/ /\ p = None \/ Fails
              /\ lock' = [lock EXCEPT ![th[t].slug] = None]
              /\ Memory(noPort, table, [th EXCEPT ![t] = Idle], cands)
              /\ UNCHANGED serving
           \/ TimesOut /\ Raise(t)
    /\ NoEffect

\* A second inspect, for the image only; then wait_healthy fixes the URL it
\* will poll, from what sess.port is by then.
Recheck(t) ==
    /\ th[t].pc = "recheck"
    /\ \/ /\ Memory(heap, table,
                    [th EXCEPT ![t].pc = "health", ![t].val = Sess(t).port], cands)
          /\ UNCHANGED <<lock, serving>>
       \/ TimesOut /\ Raise(t)
    /\ NoEffect

\* The health poll, until it answers or the deadline has passed.
Reachable(p) == \E x \in Slugs : pub[x] # None /\ pub[x] = p

WaitHealthy(t) ==
    /\ th[t].pc = "health"
    /\ \/ /\ Reachable(th[t].val)
          /\ Memory(heap, table,
                    [th EXCEPT ![t].pc = "confirm", ![t].val = None], cands)
          /\ UNCHANGED <<lock, serving>>
       \/ ("unhealthy" \in Faults \/ ~Reachable(th[t].val)) /\ Raise(t)
    /\ NoEffect

Confirm(t) ==
    /\ th[t].pc = "confirm"
    /\ lock' = [lock EXCEPT ![th[t].slug] = None]
    /\ Memory(Put(t, [Sess(t) EXCEPT !.status = "running", !.age = 0, !.seen = "recent"]),
              table, [th EXCEPT ![t].pc = "reply"], cands)
    /\ UNCHANGED serving
    /\ NoEffect

\* The handler reads sess.port for X-FL-Upstream after the lock is released.
Reply(t) ==
    /\ th[t].pc = "reply"
    /\ Memory(heap, table, [th EXCEPT ![t] = AfterReturn(t)], cands)
    /\ UNCHANGED <<lock, serving>> /\ NoEffect

-----------------------------------------------------------------------------
(* stop_session and wipe_session, under the slug's lock.  The return codes *)
(* of docker stop, rm and volume rm are ignored; only a timeout raises.    *)

StopDone(t) ==
    IF th[t].op = "wipe" THEN Goto(t, "rm")
    ELSE /\ lock' = [lock EXCEPT ![th[t].slug] = None]
         /\ Memory(Put(t, [Sess(t) EXCEPT !.status = "stopped", !.port = None]), table,
                   [th EXCEPT ![t] = AfterReturn(t)], cands)
         /\ UNCHANGED serving

StopContainer(t) ==
    /\ th[t].pc = "stop"
    /\ \/ Stopped(th[t].slug) /\ StopDone(t)
       \/ Fails /\ NoEffect /\ StopDone(t)
       \/ TimesOut /\ NoEffect /\ Raise(t)
       \/ TimesOut /\ Stopped(th[t].slug) /\ Raise(t)

RemoveContainer(t) ==
    /\ th[t].pc = "rm"
    /\ \/ Removed(th[t].slug) /\ Goto(t, "volrm")
       \/ Fails /\ NoEffect /\ Goto(t, "volrm")
       \/ TimesOut /\ NoEffect /\ Raise(t)
       \/ TimesOut /\ Removed(th[t].slug) /\ Raise(t)

\* docker volume rm; then sessions.pop(slug): whoever still waits for the
\* lock keeps the popped object.
PopSession(t) ==
    /\ lock' = [lock EXCEPT ![th[t].slug] = None]
    /\ Memory(heap, [table EXCEPT ![th[t].slug] = None],
              [th EXCEPT ![t] = AfterReturn(t)], cands)
    /\ UNCHANGED serving

RemoveVolume(t) ==
    /\ th[t].pc = "volrm"
    /\ \/ VolumeRemoved(th[t].slug) /\ PopSession(t)
       \/ Fails /\ NoEffect /\ PopSession(t)
       \/ TimesOut /\ NoEffect /\ Raise(t)
       \/ TimesOut /\ VolumeRemoved(th[t].slug) /\ Raise(t)

-----------------------------------------------------------------------------
(* reconcile: no slug lock is held.  The rows are those of one `docker ps  *)
(* -a`; a row that says running is followed by its own `docker port`.      *)

\* The reconcile is over: reap_idle lists its candidates, a list request is
\* answered, main starts serving.
ReconcileEnds(t, tab, failed) ==
    LET op == th[t].op IN
    /\ serving' = (serving \/ op = "boot")
    /\ UNCHANGED lock
    /\ Memory(heap, tab,
              [th EXCEPT ![t] = IF op = "reap" /\ ~failed
                                THEN [Idle EXCEPT !.pc = "pick", !.op = "reap"] ELSE Idle],
              IF op = "reap" /\ ~failed
              THEN {tab[s] : s \in {x \in Slugs : tab[x] # None
                                         /\ heap[tab[x]].status = "running"}}
              ELSE cands)

Snapshot(t, op) ==
    /\ th[t].pc = "idle"
    /\ \/ t \in Clients /\ serving /\ op = "list" /\ op \in Ops
       \/ t = Reaper /\ op = (IF serving THEN "reap" ELSE "boot") /\ (serving => ReaperOn)
    /\ \/ /\ Memory(heap, table,
                    [th EXCEPT ![t] = [Idle EXCEPT !.pc = "row", !.op = op, !.snap = ctr,
                                         !.todo = {s \in Slugs : ctr[s] # "absent"}]], cands)
          /\ UNCHANGED <<lock, serving>>
       \/ /\ Fails \/ TimesOut
          /\ serving' = (serving \/ op = "boot")
          /\ UNCHANGED <<table, heap, lock, cands, th>>
    /\ NoEffect

\* One row: _get_session, the clock, and for a stopped one the new status.
Row(t, s) ==
    /\ th[t].pc = "row" /\ s \in th[t].todo
    /\ CanGet(s)
    /\ IF th[t].snap[s] = "running"
       THEN Memory(HeapWith(s), TableWith(s),
                   [th EXCEPT ![t].pc = "rowPort", ![t].slug = s,
                              ![t].ref = SessionOf(s), ![t].clk = 0], cands)
       ELSE Memory([HeapWith(s) EXCEPT ![SessionOf(s)].status = "stopped",
                                       ![SessionOf(s)].port = None],
                   TableWith(s), [th EXCEPT ![t].todo = @ \ {s}], cands)
    /\ UNCHANGED <<lock, serving>> /\ NoEffect

RowPort(t) ==
    /\ th[t].pc = "rowPort"
    /\ \/ /\ \E p \in {pub[th[t].slug]} \cup (IF Fails THEN {None} ELSE {}) :
                Memory(heap, table, [th EXCEPT ![t].pc = "rowWrite", ![t].val = p], cands)
          /\ UNCHANGED <<lock, serving>>
       \/ TimesOut /\ ReconcileEnds(t, table, TRUE)
    /\ NoEffect

\* Mutant: the status is left to ensure_session.
FromRowWithoutStatus(t) ==
    [Sess(t) EXCEPT !.port = th[t].val, !.age = th[t].clk,
                    !.seen = IF @ = "never" THEN "recent" ELSE @]

\* Mutant: every reconcile counts as having seen the user.
FromRowSeen(t) ==
    [Sess(t) EXCEPT !.status = IF th[t].val # None THEN "running" ELSE "stopped",
                    !.port = th[t].val, !.age = th[t].clk, !.seen = "recent"]

\* The session as a running row describes it; verified_at gets the clock as
\* it was read before `docker port`.
FromRow(t) ==
    [Sess(t) EXCEPT !.status = IF th[t].val # None THEN "running" ELSE "stopped",
                    !.port = th[t].val, !.age = th[t].clk,
                    !.seen = IF @ = "never" THEN "recent" ELSE @]

RowWrite(t) ==
    /\ th[t].pc = "rowWrite"
    /\ Memory(Put(t, FromRow(t)), table,
              [th EXCEPT ![t].pc = "row", ![t].todo = @ \ {th[t].slug},
                         ![t].slug = None, ![t].ref = None, ![t].val = None,
                         ![t].clk = 0], cands)
    /\ UNCHANGED <<lock, serving>> /\ NoEffect

\* Entries without a row are deleted, whatever has happened to them since.
DropUnseen(t) ==
    /\ th[t].pc = "row" /\ th[t].todo = {}
    /\ ReconcileEnds(t, [s \in Slugs |-> IF th[t].snap[s] = "absent" THEN None ELSE table[s]],
                     FALSE)
    /\ NoEffect

-----------------------------------------------------------------------------
(* reap_idle *)

Pick(o) ==
    /\ th[Reaper].pc = "pick" /\ o \in cands
    /\ IF heap[o].seen = "recent"
       THEN Memory(heap, table, th, cands \ {o})
       ELSE Memory(heap, table,
                   [th EXCEPT ![Reaper].pc = "beat", ![Reaper].ref = o,
                              ![Reaper].slug = heap[o].slug], cands \ {o})
    /\ UNCHANGED <<lock, serving>> /\ NoEffect

RoundOver ==
    /\ th[Reaper].pc = "pick" /\ cands = {}
    /\ Memory(heap, table, [th EXCEPT ![Reaper] = Idle], cands)
    /\ UNCHANGED <<lock, serving>> /\ NoEffect

\* heartbeat_mtime: a failing exec counts as old, one that times out raises.
ReadHeartbeat ==
    LET s == th[Reaper].slug
        alive == ctr[s] = "running" /\ beat[s]
    IN
    /\ th[Reaper].pc = "beat"
    /\ \/ /\ alive
          /\ Memory(heap, table, [th EXCEPT ![Reaper] = AfterReturn(Reaper)], cands)
       \/ /\ ~alive \/ Fails
          /\ CanGet(s)
          /\ Memory(HeapWith(s), TableWith(s),
                    [th EXCEPT ![Reaper].pc = "want", ![Reaper].ref = SessionOf(s)], cands)
       \/ TimesOut /\ Memory(heap, table, [th EXCEPT ![Reaper] = Idle], {})
    /\ UNCHANGED <<lock, serving>> /\ NoEffect

-----------------------------------------------------------------------------
(* Time and the world outside the broker *)

Older(n) == IF n < CacheTicks THEN n + 1 ELSE n

Tick ==
    /\ heap' = [o \in Obj |-> [heap[o] EXCEPT !.age = Older(@)]]
    /\ th' = [t \in Threads |-> [th[t] EXCEPT
                !.clk = IF th[t].pc \in {"rowPort", "rowWrite"} THEN Older(@) ELSE @]]
    /\ gone' = [s \in Slugs |-> [p \in Ports |->
                  IF pub[s] = p THEN 0 ELSE Older(gone[s][p])]]
    /\ UNCHANGED <<ctr, pub, old, vol, beat, table, lock, serving, cands>>

\* The idle limit passes since last_seen, or since the heartbeat file's mtime;
\* only the reaper reads either.
SeenExpires(o) ==
    /\ ReaperOn
    /\ heap[o].seen = "recent"
    /\ heap' = [heap EXCEPT ![o].seen = "old"]
    /\ UNCHANGED <<table, lock, serving, cands, th>> /\ NoEffect

UserWorks(s) ==
    /\ ReaperOn
    /\ ctr[s] = "running" /\ ~beat[s]
    /\ beat' = [beat EXCEPT ![s] = TRUE]
    /\ UNCHANGED <<ctr, pub, old, vol, gone, table, heap, lock, serving, cands, th>>

BeatExpires(s) ==
    /\ beat[s]
    /\ beat' = [beat EXCEPT ![s] = FALSE]
    /\ UNCHANGED <<ctr, pub, old, vol, gone, table, heap, lock, serving, cands, th>>

ContainerExits(s) ==
    /\ "exit" \in Faults
    /\ ctr[s] = "running" /\ Stopped(s)
    /\ UNCHANGED <<table, heap, lock, serving, cands, th>>

\* A new image is built or pulled under FL_IMAGE's name.
Rollout ==
    /\ "rollout" \in Faults
    /\ old' = [s \in Slugs |-> ctr[s] # "absent"]
    /\ UNCHANGED <<ctr, pub, vol, beat, gone, table, heap, lock, serving, cands, th>>

\* The broker process dies and is started again: only docker remembers.
BrokerRestart ==
    /\ "restart" \in Faults
    /\ table' = [s \in Slugs |-> None]
    /\ heap' = [o \in Obj |-> Collected]
    /\ lock' = [s \in Slugs |-> None]
    /\ serving' = FALSE
    /\ cands' = {}
    /\ th' = [t \in Threads |-> Idle]
    /\ NoEffect

-----------------------------------------------------------------------------

Init ==
    /\ ctr = [s \in Slugs |-> "absent"]
    /\ pub = [s \in Slugs |-> None]
    /\ old = [s \in Slugs |-> FALSE]
    /\ vol = [s \in Slugs |-> FALSE]
    /\ beat = [s \in Slugs |-> FALSE]
    /\ table = [s \in Slugs |-> None]
    /\ heap = [o \in Obj |-> Collected]
    /\ lock = [s \in Slugs |-> None]
    /\ serving = FALSE
    /\ cands = {}
    /\ th = [t \in Threads |-> Idle]
    /\ gone = [s \in Slugs |-> [p \in Ports |-> Never]]

EnsureStep(t) ==
    \/ CacheHit(t) \/ Inspect(t) \/ CompareImage(t) \/ Replace(t) \/ Admit(t)
    \/ CreateContainer(t) \/ StartContainer(t) \/ ReadPort(t) \/ Recheck(t) \/ WaitHealthy(t)
    \/ Confirm(t) \/ Reply(t)

StopStep(t) == StopContainer(t) \/ RemoveContainer(t) \/ RemoveVolume(t)

ReconcileStep(t) ==
    \/ \E s \in Slugs : Row(t, s)
    \/ RowPort(t) \/ RowWrite(t) \/ DropUnseen(t)

ReapStep == (\E o \in Obj : Pick(o)) \/ RoundOver \/ ReadHeartbeat

\* What a thread does once its request has begun.
Proceed(t) ==
    \/ Acquire(t) \/ EnsureStep(t) \/ StopStep(t) \/ ReconcileStep(t)
    \/ t = Reaper /\ ReapStep

Arrive(t) ==
    \/ \E s \in Slugs, op \in Requests : t \in Clients /\ Begin(t, s, op)
    \/ \E op \in Requests \cup {"boot", "reap"} : Snapshot(t, op)

Environment ==
    \/ Tick \/ Rollout \/ BrokerRestart
    \/ \E o \in Obj : SeenExpires(o)
    \/ \E s \in Slugs : UserWorks(s) \/ BeatExpires(s) \/ ContainerExits(s)

Next == (\E t \in Threads : Proceed(t) \/ Arrive(t)) \/ Environment

Spec == Init /\ [][Next]_vars

(* Fairness: every thread runs, since each docker call and the health poll  *)
(* are bounded by a timeout; a free slug lock is eventually taken by some   *)
(* waiting thread but by none in particular (threading.Lock is not fair);   *)
(* the reaper's wait ends after its interval; the idle limit passes.        *)
(* Clients need not send anything, and nothing else outside is fair.        *)
Fairness ==
    /\ \A t \in Threads : WF_vars(Proceed(t))
    /\ WF_vars(\E op \in {"boot", "reap"} : Snapshot(Reaper, op))
    /\ \A o \in Obj : WF_vars(SeenExpires(o))

FairSpec == Spec /\ Fairness

-----------------------------------------------------------------------------
(* Properties *)

Critical == {"inspect", "image", "replace", "admitCreate", "create", "admitStart",
             "start", "port", "recheck", "health", "confirm", "stop", "rm", "volrm"}

Running == {s \in Slugs : ctr[s] = "running"}

\* A thread is past `with self._slug_lock(slug)` exactly while it holds that
\* lock: ensure, stop and wipe of one slug never overlap, on no error path
\* does a lock stay behind, and the reaper's stop is no exception.
MutualExclusion ==
    \A t \in Threads, s \in Slugs :
        lock[s] = t <=> (th[t].pc \in Critical /\ th[t].slug = s)

\* What ensure_session learnt from docker is still so when it acts on it: the
\* container it starts, or removes for its old image (README: running ones
\* stay untouched), is a stopped one, and the container whose health it awaits
\* is running - unless containers exit by themselves.
ActsOnWhatItSaw ==
    \A t \in Threads :
        /\ th[t].pc \in {"image", "replace", "admitStart", "start"}
              => ctr[th[t].slug] = "exited"
        /\ th[t].pc \in {"recheck", "health", "confirm"} /\ "exit" \notin Faults
              => ctr[th[t].slug] = "running"

\* No session object ever carries a port that was not published by its own
\* slug's container: forward_auth never sends one user to an address that was
\* only ever another user's, whatever the races over the table and the heap.
OwnPort ==
    /\ \A o \in Obj : heap[o].port # None
          => heap[o].slug # None /\ gone[heap[o].slug][heap[o].port] # Never
    /\ \A t \in Threads : th[t].val # None
          => th[t].slug # None /\ gone[th[t].slug][th[t].val] # Never

\* The resolve cache is never staler than it says: a port answered from memory
\* was the slug's published port at some time since verified_at.  (Without
\* reconciles, and with containers that do not exit by themselves.)
CacheHonest ==
    \A o \in Obj : Fresh(o) => gone[heap[o].slug][heap[o].port] <= heap[o].age

\* Without reconciles and failing docker commands the capacity check, made
\* before the container runs and counted after it is healthy, lets through at
\* most one container per further concurrent request.
CapacityBound ==
    Cardinality(Running) < MaxSessions + Cardinality(Clients)

\* A container that runs without the table counting it is found again.
Uncounted(s) ==
    ctr[s] = "running" /\ (table[s] = None \/ heap[table[s]].status # "running")

UncountedFound == \A s \in Slugs : Uncounted(s) ~> ~Uncounted(s)

\* Once nobody asks for a session and its heartbeat stays old, its container
\* is stopped for good.
IdleStopped ==
    \A s \in Slugs :
        <>[]((\A t \in Clients : th[t].pc = "idle") /\ ~beat[s])
            => <>[](ctr[s] # "running")
=============================================================================
