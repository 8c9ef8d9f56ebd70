---------------------------- MODULE BrokerProofs ----------------------------
(* Proofs about Broker, for any slugs, clients, ports, bounds and faults.   *)
EXTENDS Broker, FiniteSetTheorems, TLAPS

-----------------------------------------------------------------------------
(* The inductive invariant *)

\* A session object belongs to the slug it is filed under, and to the slug the
\* thread that holds it works on.
WellFormed(h, tab, T, C) ==
    /\ h \in [Obj -> Session] /\ tab \in [Slugs -> Obj \cup {None}]
    /\ T \in [Threads -> Thread] /\ C \in SUBSET Obj
    /\ \A s \in Slugs : tab[s] # None => h[tab[s]].slug = s
    /\ \A o \in C : h[o].slug \in Slugs
    /\ \A t \in Threads : T[t].ref # None => T[t].slug \in Slugs /\ h[T[t].ref].slug = T[t].slug
    /\ \A t \in Threads : T[t].pc \notin {"idle", "row", "pick"} => T[t].ref # None

MemoryInv == WellFormed(heap, table, th, cands)

LockType == lock \in [Slugs -> Threads \cup {None}] /\ serving \in BOOLEAN

DockerType ==
    /\ ctr \in [Slugs -> CState] /\ pub \in [Slugs -> Ports \cup {None}]
    /\ old \in [Slugs -> BOOLEAN] /\ vol \in [Slugs -> BOOLEAN]
    /\ beat \in [Slugs -> BOOLEAN] /\ gone \in [Slugs -> [Ports -> 0..Never]]

LEMMA TypeParts == MemoryInv /\ LockType /\ DockerType => TypeOK
  BY DEF TypeOK, MemoryInv, WellFormed, LockType, DockerType

-----------------------------------------------------------------------------
(* The memory after a step *)

LEMMA MemoryStep ==
    ASSUME NEW h, NEW tab, NEW T, NEW C, WellFormed(h, tab, T, C), Memory(h, tab, T, C)
    PROVE  MemoryInv'
  <1>1. heap' \in [Obj -> Session]
    BY BrokerAssumption DEF Memory, WellFormed, Collected, NewSession, Session
  <1>2. \A o \in Reached(tab, T, C) : o \in Obj => heap'[o] = h[o]
    BY DEF Memory
  <1>3. /\ \A s \in Slugs : tab[s] \in Reached(tab, T, C)
        /\ \A t \in Threads : T[t].ref \in Reached(tab, T, C)
        /\ C \subseteq Reached(tab, T, C)
    BY DEF Reached
  <1>4. \A t \in Threads : T[t].ref \in Obj \cup {None}
    BY DEF WellFormed, Thread
  <1>5. QED BY <1>1, <1>2, <1>3, <1>4 DEF MemoryInv, WellFormed, Memory

LEMMA IdleType == Idle \in Thread /\ Idle.ref = None /\ Idle.pc = "idle"
  BY BrokerAssumption DEF Idle, Thread, PCs, CState

LEMMA AfterReturnType ==
    ASSUME NEW t
    PROVE  /\ AfterReturn(t) \in Thread /\ AfterReturn(t).ref = None
           /\ AfterReturn(t).pc \in {"idle", "pick"}
  BY IdleType DEF AfterReturn, Idle, Thread, PCs, Requests

\* A thread moves on holding an object of its slug, or lets go of its object.
LEMMA Rebind ==
    ASSUME NEW h, NEW tab, NEW C, NEW D, WellFormed(h, tab, th, C), D \subseteq C,
           NEW t \in Threads, NEW new \in Thread,
           \/ new.slug \in Slugs /\ new.ref \in Obj /\ h[new.ref].slug = new.slug
           \/ new.ref = None /\ new.pc \in {"idle", "row", "pick"}
    PROVE  WellFormed(h, tab, [th EXCEPT ![t] = new], D)
  BY BrokerAssumption DEF WellFormed

\* The object and slug of a thread in the middle of an operation.
LEMMA Holding ==
    ASSUME MemoryInv, NEW t \in Threads, th[t].ref # None
    PROVE  /\ th[t].slug \in Slugs /\ th[t].ref \in Obj /\ Sess(t).slug = th[t].slug
           /\ Sess(t) \in Session
  BY DEF MemoryInv, WellFormed, Thread, Sess

\* Fields of the thread's own session are replaced.
LEMMA PutSession ==
    ASSUME MemoryInv, NEW t \in Threads, th[t].ref # None,
           NEW new \in Session, new.slug = th[t].slug
    PROVE  WellFormed(Put(t, new), table, th, cands)
  BY Holding DEF MemoryInv, WellFormed, Put, Sess, Thread

\* The thread goes on with the object it has, after its own fields and locals
\* have changed.
LEMMA MoveStep ==
    ASSUME MemoryInv, NEW t \in Threads, th[t].ref # None,
           NEW sess \in Session, sess.slug = th[t].slug,
           NEW new \in Thread, new.slug = th[t].slug, new.ref = th[t].ref,
           Memory(Put(t, sess), table, [th EXCEPT ![t] = new], cands)
    PROVE  MemoryInv'
  <1>1. WellFormed(Put(t, sess), table, th, cands)
    BY PutSession
  <1>2. Put(t, sess)[th[t].ref].slug = th[t].slug
    BY <1>1 DEF WellFormed
  <1>3. WellFormed(Put(t, sess), table, [th EXCEPT ![t] = new], cands)
    BY <1>1, <1>2, Holding, Rebind
  <1>4. QED BY <1>3, MemoryStep

\* The thread only goes on to another place.
LEMMA JumpStep ==
    ASSUME MemoryInv, NEW t \in Threads, th[t].ref # None, NEW where \in PCs,
           Memory(heap, table, [th EXCEPT ![t].pc = where], cands)
    PROVE  MemoryInv'
  <1> DEFINE new == [th[t] EXCEPT !.pc = where]
  <1>1. [th EXCEPT ![t].pc = where] = [th EXCEPT ![t] = new]
    BY DEF MemoryInv, WellFormed
  <1>2. new \in Thread /\ new.slug = th[t].slug /\ new.ref = th[t].ref
    BY DEF MemoryInv, WellFormed, Thread
  <1> HIDE DEF new
  <1>3. WellFormed(heap, table, [th EXCEPT ![t] = new], cands)
    BY <1>2, Holding, Rebind DEF MemoryInv, Sess
  <1>4. QED BY <1>1, <1>3, MemoryStep

LEMMA GotoStep ==
    ASSUME MemoryInv, LockType, NEW t \in Threads, NEW where \in PCs,
           th[t].ref # None, Goto(t, where)
    PROVE  MemoryInv' /\ LockType'
  BY JumpStep DEF Goto, LockType

LEMMA RaiseStep ==
    ASSUME MemoryInv, LockType, NEW t \in Threads, Raise(t)
    PROVE  MemoryInv' /\ LockType'
  <1>1. CandsAfterRaise(t) \subseteq cands
    BY DEF CandsAfterRaise
  <1>2. WellFormed(heap, table, [th EXCEPT ![t] = Idle], CandsAfterRaise(t))
    BY <1>1, IdleType, Rebind DEF MemoryInv
  <1>3. lock' \in [Slugs -> Threads \cup {None}]
    BY DEF Raise, LockType
  <1>4. QED BY <1>2, <1>3, MemoryStep DEF Raise, LockType

\* _get_session: the object is the slug's, and no thread's of another slug.
LEMMA GetSession ==
    ASSUME MemoryInv, NEW s \in Slugs, CanGet(s)
    PROVE  /\ SessionOf(s) \in Obj /\ HeapWith(s)[SessionOf(s)].slug = s
           /\ WellFormed(HeapWith(s), TableWith(s), th, cands)
  <1>1. CASE table[s] # None
    <2>1. SessionOf(s) = table[s] /\ HeapWith(s) = heap /\ TableWith(s) = table
      BY <1>1 DEF SessionOf, HeapWith, TableWith, MemoryInv, WellFormed
    <2>2. QED BY <1>1, <2>1 DEF MemoryInv, WellFormed
  <1>2. CASE table[s] = None
    <2> DEFINE o == SessionOf(s)
    <2>1. o \in Obj /\ heap[o].slug = None
      BY <1>2 DEF SessionOf, CanGet, FreeObj
    <2>2. HeapWith(s) = [heap EXCEPT ![o] = NewSession(s)]
      BY <1>2 DEF HeapWith
    <2>3. TableWith(s) = [table EXCEPT ![s] = o]
      BY DEF TableWith
    <2>4. NewSession(s) \in Session /\ NewSession(s).slug = s
      BY BrokerAssumption DEF NewSession, Session
    <2> HIDE DEF o
    <2>5. None \notin Slugs
      BY BrokerAssumption
    <2>6. QED BY <2>1, <2>2, <2>3, <2>4, <2>5 DEF MemoryInv, WellFormed, Thread, o
  <1>3. QED BY <1>1, <1>2

-----------------------------------------------------------------------------
(* Every docker command keeps docker's type. *)
LEMMA DockerStep ==
    ASSUME DockerType, NEW s \in Slugs,
           \/ NoEffect \/ Created(s) \/ Started(s) \/ Stopped(s) \/ Removed(s)
           \/ VolumeRemoved(s) \/ LeftCreated(s)
    PROVE  DockerType'
  <1>1. CASE NoEffect
    BY <1>1 DEF NoEffect, dockerVars, DockerType
  <1>2. CASE Runs(s) /\ old' \in [Slugs -> BOOLEAN] /\ vol' \in [Slugs -> BOOLEAN]
                     /\ beat' \in [Slugs -> BOOLEAN]
    BY <1>2, BrokerAssumption DEF Runs, DockerType, CState, Never
  <1>3. CASE Created(s)
    BY <1>2, <1>3 DEF Created, DockerType
  <1>4. CASE Started(s)
    BY <1>2, <1>4 DEF Started, DockerType
  <1>5. CASE Stopped(s) \/ Removed(s)
    BY <1>5 DEF Stopped, Removed, DockerType, CState
  <1>6. CASE VolumeRemoved(s) \/ LeftCreated(s)
    BY <1>6 DEF VolumeRemoved, LeftCreated, DockerType, CState
  <1>7. QED BY <1>1, <1>3, <1>4, <1>5, <1>6

-----------------------------------------------------------------------------
(* Every step of a thread, and of the world, keeps all types *)

Typed == MemoryInv /\ LockType /\ DockerType

LEMMA BusyHolds ==
    ASSUME MemoryInv, NEW t \in Threads, th[t].pc \notin {"idle", "row", "pick"}
    PROVE  th[t].ref # None
  BY DEF MemoryInv, WellFormed

LEMMA BeginTyped ==
    ASSUME Typed, NEW t \in Threads, NEW s \in Slugs, NEW op \in Requests, Begin(t, s, op)
    PROVE  Typed'
  <1> DEFINE new == [Idle EXCEPT !.pc = "want", !.op = op, !.slug = s, !.ref = SessionOf(s)]
  <1>1. WellFormed(HeapWith(s), TableWith(s), th, cands)
        /\ SessionOf(s) \in Obj /\ HeapWith(s)[SessionOf(s)].slug = s
    BY GetSession DEF Begin, Typed
  <1>2. new \in Thread /\ new.slug = s /\ new.ref = SessionOf(s)
    BY <1>1, IdleType DEF Idle, Thread, PCs
  <1>3. Memory(HeapWith(s), TableWith(s), [th EXCEPT ![t] = new], cands)
    BY DEF Begin
  <1> HIDE DEF new
  <1>4. WellFormed(HeapWith(s), TableWith(s), [th EXCEPT ![t] = new], cands)
    BY <1>1, <1>2, Rebind
  <1>5. QED BY <1>3, <1>4, MemoryStep DEF Begin, Typed, LockType, DockerType, dockerVars

LEMMA LockingTyped ==
    ASSUME Typed, NEW t \in Threads, CacheHit(t) \/ Acquire(t)
    PROVE  Typed'
  <1>0. th[t].ref # None
    BY BusyHolds DEF CacheHit, Acquire, Typed
  <1>1. CASE CacheHit(t)
    <2> DEFINE sess == [Sess(t) EXCEPT !.seen = "recent"]
               new == [th[t] EXCEPT !.pc = "reply"]
    <2>1. sess \in Session /\ sess.slug = th[t].slug
      BY <1>0, Holding DEF Typed, Session
    <2>2. new \in Thread /\ new.slug = th[t].slug /\ new.ref = th[t].ref
      BY DEF Typed, MemoryInv, WellFormed, Thread, PCs
    <2>3. Memory(Put(t, sess), table, [th EXCEPT ![t] = new], cands)
      BY <1>1 DEF CacheHit, Typed, MemoryInv, WellFormed
    <2> HIDE DEF sess, new
    <2>4. MemoryInv'
      BY <1>0, <2>1, <2>2, <2>3, MoveStep DEF Typed
    <2>5. QED BY <1>1, <2>4 DEF CacheHit, Typed, LockType, DockerType, dockerVars
  <1>2. CASE Acquire(t)
    <2> DEFINE where == IF th[t].op = "ensure" THEN "inspect" ELSE "stop"
    <2>1. Memory(heap, table, [th EXCEPT ![t].pc = where], cands)
      BY <1>2 DEF Acquire
    <2>2. lock' \in [Slugs -> Threads \cup {None}] /\ serving' \in BOOLEAN
      BY <1>2 DEF Acquire, Typed, LockType
    <2>3. where \in PCs
      BY DEF PCs
    <2> HIDE DEF where
    <2>4. MemoryInv'
      BY <1>0, <2>1, <2>3, JumpStep DEF Typed
    <2>5. QED BY <1>2, <2>2, <2>4 DEF Acquire, Typed, LockType, DockerType, dockerVars
  <1>3. QED BY <1>1, <1>2

DockerDoes(s) ==
    \/ NoEffect \/ Created(s) \/ Started(s) \/ Stopped(s) \/ Removed(s)
    \/ VolumeRemoved(s) \/ LeftCreated(s)

\* Most steps: a docker command, then the thread goes on or raises.
LEMMA CommandTyped ==
    ASSUME Typed, NEW t \in Threads, th[t].ref # None, DockerDoes(th[t].slug),
           Raise(t) \/ \E where \in PCs : Goto(t, where)
    PROVE  Typed'
  <1>1. th[t].slug \in Slugs
    BY Holding DEF Typed
  <1>2. DockerType'
    BY <1>1, DockerStep DEF DockerDoes, Typed
  <1>3. MemoryInv' /\ LockType'
    BY GotoStep, RaiseStep DEF Typed
  <1>4. QED BY <1>2, <1>3 DEF Typed

LEMMA SlowPathTyped ==
    ASSUME Typed, NEW t \in Threads,
           Inspect(t) \/ CompareImage(t) \/ Replace(t) \/ Admit(t) \/ RemoveContainer(t)
    PROVE  Typed'
  <1>1. th[t].ref # None
    BY BusyHolds DEF Inspect, CompareImage, Replace, Admit, RemoveContainer, Typed
  <1>2. DockerDoes(th[t].slug)
    BY DEF Inspect, CompareImage, Replace, Admit, RemoveContainer, DockerDoes
  <1>3. Raise(t) \/ \E where \in PCs : Goto(t, where)
    BY DEF Inspect, CompareImage, Replace, Admit, RemoveContainer, PCs
  <1>4. QED BY <1>1, <1>2, <1>3, CommandTyped

LEMMA RunTyped ==
    ASSUME Typed, NEW t \in Threads, CreateContainer(t) \/ StartContainer(t)
    PROVE  Typed'
  <1>1. th[t].ref # None
    BY BusyHolds DEF CreateContainer, StartContainer, Typed
  <1>2. DockerDoes(th[t].slug)
    BY DEF CreateContainer, StartContainer, DockerDoes
  <1>3. CASE Raise(t)
    BY <1>1, <1>2, <1>3, CommandTyped
  <1>4. CASE WithStarted(t)
    <2> DEFINE new == [th[t] EXCEPT !.pc = "port", !.started = TRUE]
    <2>1. new \in Thread /\ new.slug = th[t].slug /\ new.ref = th[t].ref
      <3>1. th[t] \in Thread
        BY DEF Typed, MemoryInv, WellFormed
      <3>2. [th[t] EXCEPT !.pc = "port"] \in Thread
        BY <3>1 DEF Thread, PCs
      <3>3. QED BY <3>1, <3>2 DEF Thread
    <2>2. Memory(heap, table, [th EXCEPT ![t] = new], cands)
      BY <1>4 DEF WithStarted, Typed, MemoryInv, WellFormed
    <2> HIDE DEF new
    <2>3. WellFormed(heap, table, [th EXCEPT ![t] = new], cands)
      BY <1>1, <2>1, Holding, Rebind DEF Typed, MemoryInv, Sess
    <2>4. th[t].slug \in Slugs
      BY <1>1, Holding DEF Typed
    <2>5. DockerType'
      BY <1>2, <2>4, DockerStep DEF DockerDoes, Typed
    <2>6. QED BY <1>4, <2>2, <2>3, <2>5, MemoryStep DEF WithStarted, Typed, LockType
  <1>5. QED BY <1>3, <1>4 DEF CreateContainer, StartContainer

\* The second inspect and the health poll: only the thread's locals change.
LEMMA HealthTyped ==
    ASSUME Typed, NEW t \in Threads, Recheck(t) \/ WaitHealthy(t)
    PROVE  Typed'
  <1>1. th[t].ref # None /\ th[t] \in Thread
    BY BusyHolds DEF Recheck, WaitHealthy, Typed, MemoryInv, WellFormed
  <1>2. Sess(t) \in Session /\ th[t].slug \in Slugs /\ Sess(t).slug = th[t].slug
    BY <1>1, Holding DEF Typed
  <1>3. DockerType'
    BY DEF Recheck, WaitHealthy, NoEffect, dockerVars, Typed, DockerType
  <1>4. CASE \E where \in PCs \ {"idle", "row", "pick"}, v \in Ports \cup {None} :
                /\ Memory(heap, table,
                          [th EXCEPT ![t].pc = where, ![t].val = v], cands)
                /\ UNCHANGED <<lock, serving>>
    <2>1. PICK where \in PCs \ {"idle", "row", "pick"}, v \in Ports \cup {None} :
                /\ Memory(heap, table,
                          [th EXCEPT ![t].pc = where, ![t].val = v], cands)
                /\ UNCHANGED <<lock, serving>>
      BY <1>4
    <2> DEFINE new == [th[t] EXCEPT !.pc = where, !.val = v]
    <2>2. new \in Thread /\ new.slug = th[t].slug /\ new.ref = th[t].ref
      <3>1. [th[t] EXCEPT !.pc = where] \in Thread
        BY <1>1 DEF Thread
      <3>2. QED BY <1>1, <3>1 DEF Thread
    <2>3. Memory(heap, table, [th EXCEPT ![t] = new], cands)
      BY <2>1 DEF Typed, MemoryInv, WellFormed
    <2> HIDE DEF new
    <2>4. WellFormed(heap, table, [th EXCEPT ![t] = new], cands)
      BY <1>1, <2>2, Holding, Rebind DEF Typed, MemoryInv, Sess
    <2>5. QED BY <1>3, <2>1, <2>3, <2>4, MemoryStep DEF Typed, LockType
  <1>5. CASE Raise(t)
    BY <1>1, <1>3, <1>5, RaiseStep DEF Typed
  <1>6. Sess(t).port \in Ports \cup {None}
    BY <1>2 DEF Session
  <1>7. QED BY <1>4, <1>5, <1>6 DEF Recheck, WaitHealthy, PCs

LEMMA PortTyped ==
    ASSUME Typed, NEW t \in Threads, ReadPort(t)
    PROVE  Typed'
  <1> DEFINE p == pub[th[t].slug]
             next == IF th[t].started THEN "recheck" ELSE "confirm"
             ported == [Sess(t) EXCEPT !.port = p]
             stopped == [Sess(t) EXCEPT !.status = "stopped"]
             new == [th[t] EXCEPT !.pc = next]
  <1>1. th[t].ref # None
    BY BusyHolds DEF ReadPort, Typed
  <1>2. Sess(t) \in Session /\ th[t].slug \in Slugs /\ Sess(t).slug = th[t].slug
    BY <1>1, Holding DEF Typed
  <1>3. ported \in Session /\ ported.slug = th[t].slug
        /\ stopped \in Session /\ stopped.slug = th[t].slug
    BY <1>2 DEF Session, Typed, DockerType
  <1>4. new \in Thread /\ new.slug = th[t].slug /\ new.ref = th[t].ref
    BY DEF Typed, MemoryInv, WellFormed, Thread, PCs
  <1>5. DockerType'
    BY DEF ReadPort, NoEffect, dockerVars, Typed, DockerType
  <1>6. CASE Memory(Put(t, ported), table, [th EXCEPT ![t].pc = next], cands)
             /\ UNCHANGED <<lock, serving>>
    <2>1. Memory(Put(t, ported), table, [th EXCEPT ![t] = new], cands)
      BY <1>6 DEF Typed, MemoryInv, WellFormed
    <2> HIDE DEF ported, new
    <2>2. MemoryInv'
      BY <1>1, <1>3, <1>4, <2>1, MoveStep DEF Typed
    <2>3. QED BY <1>5, <1>6, <2>2 DEF Typed, LockType
  <1>7. CASE /\ lock' = [lock EXCEPT ![th[t].slug] = None]
             /\ Memory(Put(t, stopped), table, [th EXCEPT ![t] = Idle], cands)
             /\ UNCHANGED serving
    <2> HIDE DEF stopped
    <2>1. WellFormed(Put(t, stopped), table, th, cands)
      BY <1>1, <1>3, PutSession DEF Typed
    <2>2. WellFormed(Put(t, stopped), table, [th EXCEPT ![t] = Idle], cands)
      BY <2>1, IdleType, Rebind
    <2>3. QED BY <1>5, <1>7, <2>2, MemoryStep DEF Typed, LockType
  <1>8. CASE Raise(t)
    BY <1>5, <1>8, RaiseStep DEF Typed
  <1>9. QED BY <1>6, <1>7, <1>8 DEF ReadPort

LEMMA ConfirmTyped ==
    ASSUME Typed, NEW t \in Threads, Confirm(t)
    PROVE  Typed'
  <1> DEFINE sess == [Sess(t) EXCEPT !.status = "running", !.age = 0, !.seen = "recent"]
             new == [th[t] EXCEPT !.pc = "reply"]
  <1>1. th[t].ref # None
    BY BusyHolds DEF Confirm, Typed
  <1>2. sess \in Session /\ sess.slug = th[t].slug
    <2>1. 0 \in 0..CacheTicks
      BY BrokerAssumption
    <2>2. Sess(t) \in Session /\ Sess(t).slug = th[t].slug
      BY <1>1, Holding DEF Typed
    <2>3. QED BY <2>1, <2>2 DEF Session
  <1>3. new \in Thread /\ new.slug = th[t].slug /\ new.ref = th[t].ref
    BY DEF Typed, MemoryInv, WellFormed, Thread, PCs
  <1>4. Memory(Put(t, sess), table, [th EXCEPT ![t] = new], cands)
    BY DEF Confirm, Typed, MemoryInv, WellFormed
  <1> HIDE DEF sess, new
  <1>5. MemoryInv'
    BY <1>1, <1>2, <1>3, <1>4, MoveStep DEF Typed
  <1>6. QED BY <1>5 DEF Confirm, Typed, LockType, DockerType, NoEffect, dockerVars

LEMMA ReplyTyped ==
    ASSUME Typed, NEW t \in Threads, Reply(t)
    PROVE  Typed'
  <1>1. WellFormed(heap, table, [th EXCEPT ![t] = AfterReturn(t)], cands)
    BY AfterReturnType, Rebind DEF Typed, MemoryInv
  <1>2. QED BY <1>1, MemoryStep DEF Reply, Typed, LockType, DockerType, NoEffect, dockerVars

LEMMA StopTyped ==
    ASSUME Typed, NEW t \in Threads, StopContainer(t)
    PROVE  Typed'
  <1> DEFINE sess == [Sess(t) EXCEPT !.status = "stopped", !.port = None]
  <1>1. th[t].ref # None
    BY BusyHolds DEF StopContainer, Typed
  <1>2. DockerDoes(th[t].slug)
    BY DEF StopContainer, DockerDoes
  <1>3. CASE Raise(t) \/ Goto(t, "rm")
    BY <1>1, <1>2, <1>3, CommandTyped DEF PCs
  <1>4. CASE /\ lock' = [lock EXCEPT ![th[t].slug] = None]
             /\ Memory(Put(t, sess), table, [th EXCEPT ![t] = AfterReturn(t)], cands)
             /\ UNCHANGED serving
    <2>1. sess \in Session /\ sess.slug = th[t].slug
      BY <1>1, Holding DEF Typed, Session
    <2> HIDE DEF sess
    <2>2. WellFormed(Put(t, sess), table, th, cands)
      BY <1>1, <2>1, PutSession DEF Typed
    <2>3. WellFormed(Put(t, sess), table, [th EXCEPT ![t] = AfterReturn(t)], cands)
      BY <2>2, AfterReturnType, Rebind
    <2>4. th[t].slug \in Slugs
      BY <1>1, Holding DEF Typed
    <2>5. DockerType'
      BY <1>2, <2>4, DockerStep DEF DockerDoes, Typed
    <2>6. QED BY <1>4, <2>3, <2>5, MemoryStep DEF Typed, LockType
  <1>5. QED BY <1>3, <1>4 DEF StopContainer, StopDone

LEMMA VolumeTyped ==
    ASSUME Typed, NEW t \in Threads, RemoveVolume(t)
    PROVE  Typed'
  <1>1. th[t].ref # None
    BY BusyHolds DEF RemoveVolume, Typed
  <1>2. DockerDoes(th[t].slug)
    BY DEF RemoveVolume, DockerDoes
  <1>3. CASE Raise(t)
    BY <1>1, <1>2, <1>3, CommandTyped
  <1>4. CASE PopSession(t)
    <2> DEFINE tab == [table EXCEPT ![th[t].slug] = None]
    <2>1. WellFormed(heap, tab, th, cands)
      BY DEF Typed, MemoryInv, WellFormed
    <2> HIDE DEF tab
    <2>2. WellFormed(heap, tab, [th EXCEPT ![t] = AfterReturn(t)], cands)
      BY <2>1, AfterReturnType, Rebind
    <2>3. MemoryInv' /\ LockType'
      BY <1>4, <2>2, MemoryStep DEF PopSession, Typed, LockType, tab
    <2>4. th[t].slug \in Slugs
      BY <1>1, Holding DEF Typed
    <2>5. QED BY <1>2, <2>3, <2>4, DockerStep DEF DockerDoes, Typed
  <1>5. QED BY <1>3, <1>4 DEF RemoveVolume

LEMMA ReconcileEndsTyped ==
    ASSUME Typed, NEW t \in Threads, NEW tab, NEW failed \in BOOLEAN,
           \A s \in Slugs : tab[s] \in {None, table[s]}, tab \in [Slugs -> Obj \cup {None}],
           ReconcileEnds(t, tab, failed), NoEffect
    PROVE  Typed'
  <1> DEFINE found == {tab[s] : s \in {x \in Slugs : tab[x] # None
                                              /\ heap[tab[x]].status = "running"}}
             C == IF th[t].op = "reap" /\ ~failed THEN found ELSE cands
             new == IF th[t].op = "reap" /\ ~failed
                    THEN [Idle EXCEPT !.pc = "pick", !.op = "reap"] ELSE Idle
  <1>1. new \in Thread /\ new.ref = None /\ new.pc \in {"idle", "pick"}
    BY IdleType DEF Idle, Thread, PCs, Requests
  <1>2. \A o \in found : o \in Obj /\ heap[o].slug \in Slugs
    BY DEF Typed, MemoryInv, WellFormed
  <1>3. Memory(heap, tab, [th EXCEPT ![t] = new], C)
    BY DEF ReconcileEnds
  <1> HIDE DEF found, new
  <1>4. WellFormed(heap, tab, th, C)
    BY <1>2 DEF Typed, MemoryInv, WellFormed
  <1>5. WellFormed(heap, tab, [th EXCEPT ![t] = new], C)
    BY <1>1, <1>4, Rebind
  <1>6. QED BY <1>3, <1>5, MemoryStep
            DEF ReconcileEnds, Typed, LockType, DockerType, NoEffect, dockerVars

LEMMA SnapshotTyped ==
    ASSUME Typed, NEW t \in Threads, NEW op \in Requests \cup {"boot", "reap"}, Snapshot(t, op)
    PROVE  Typed'
  <1> DEFINE new == [Idle EXCEPT !.pc = "row", !.op = op, !.snap = ctr,
                                 !.todo = {s \in Slugs : ctr[s] # "absent"}]
  <1>1. CASE Memory(heap, table, [th EXCEPT ![t] = new], cands) /\ UNCHANGED <<lock, serving>>
    <2>1. new \in Thread /\ new.ref = None /\ new.pc = "row"
      BY IdleType DEF Idle, Thread, PCs, Typed, DockerType
    <2> HIDE DEF new
    <2>2. WellFormed(heap, table, [th EXCEPT ![t] = new], cands)
      BY <2>1, Rebind DEF Typed, MemoryInv
    <2>3. QED BY <1>1, <2>2, MemoryStep
              DEF Snapshot, Typed, LockType, DockerType, NoEffect, dockerVars
  <1>2. CASE serving' = (serving \/ op = "boot") /\ UNCHANGED <<table, heap, lock, cands, th>>
    BY <1>2 DEF Snapshot, Typed, MemoryInv, WellFormed, LockType, DockerType, NoEffect, dockerVars
  <1>3. QED BY <1>1, <1>2 DEF Snapshot

LEMMA RowTyped ==
    ASSUME Typed, NEW t \in Threads, NEW s \in Slugs, Row(t, s)
    PROVE  Typed'
  <1> DEFINE o == SessionOf(s)
             new == [th[t] EXCEPT !.pc = "rowPort", !.slug = s, !.ref = o, !.clk = 0]
             later == [th[t] EXCEPT !.todo = @ \ {s}]
             h == [HeapWith(s) EXCEPT ![o].status = "stopped", ![o].port = None]
  <1>1. o \in Obj /\ HeapWith(s)[o].slug = s /\ WellFormed(HeapWith(s), TableWith(s), th, cands)
    BY GetSession DEF Row, Typed
  <1>2. th[t] \in Thread /\ th[t].pc = "row"
    BY DEF Row, Typed, MemoryInv, WellFormed
  <1>3. CASE Memory(HeapWith(s), TableWith(s), [th EXCEPT ![t] = new], cands)
    <2>1. 0 \in 0..CacheTicks
      BY BrokerAssumption
    <2>2. new \in Thread /\ new.slug = s /\ new.ref = o
      BY <1>1, <1>2, <2>1 DEF Thread, PCs
    <2> HIDE DEF new
    <2>3. WellFormed(HeapWith(s), TableWith(s), [th EXCEPT ![t] = new], cands)
      BY <1>1, <2>2, Rebind
    <2>4. QED BY <1>3, <2>3, MemoryStep DEF Row, Typed, LockType, DockerType, NoEffect, dockerVars
  <1>4. CASE Memory(h, TableWith(s), [th EXCEPT ![t] = later], cands)
    <2>1. WellFormed(h, TableWith(s), th, cands)
      <3> HIDE DEF o
      <3> DEFINE G == HeapWith(s)
                 r == [G[o] EXCEPT !.status = "stopped", !.port = None]
      <3>0. G \in [Obj -> Session] /\ o \in Obj
        BY <1>1 DEF WellFormed
      <3>a. r \in Session /\ r.slug = G[o].slug
        BY <3>0 DEF Session
      <3>b. h = [G EXCEPT ![o] = r]
        BY <3>0
      <3> HIDE DEF h, r, G
      <3>1. h \in [Obj -> Session] /\ \A x \in Obj : h[x].slug = G[x].slug
        BY <3>0, <3>a, <3>b
      <3> USE DEF G
      <3> HIDE DEF h
      <3>2. QED BY <1>1, <3>1 DEF WellFormed, Thread
    <2>2. later \in Thread /\ later.slug = th[t].slug /\ later.ref = th[t].ref /\ later.pc = "row"
      BY <1>2 DEF Thread
    <2> HIDE DEF h, later
    <2>3. WellFormed(h, TableWith(s), [th EXCEPT ![t] = later], cands)
      BY <2>1, <2>2 DEF WellFormed
    <2>4. QED BY <1>4, <2>3, MemoryStep DEF Row, Typed, LockType, DockerType, NoEffect, dockerVars
  <1>5. /\ [th EXCEPT ![t] = new] = [th EXCEPT ![t].pc = "rowPort", ![t].slug = s, ![t].ref = o,
                                              ![t].clk = 0]
        /\ [th EXCEPT ![t] = later] = [th EXCEPT ![t].todo = @ \ {s}]
    BY DEF Typed, MemoryInv, WellFormed
  <1>6. QED BY <1>3, <1>4, <1>5 DEF Row

LEMMA RowPortTyped ==
    ASSUME Typed, NEW t \in Threads, RowPort(t)
    PROVE  Typed'
  <1>1. th[t].ref # None
    BY BusyHolds DEF RowPort, Typed
  <1>2. ASSUME NEW p \in Ports \cup {None},
               Memory(heap, table, [th EXCEPT ![t].pc = "rowWrite", ![t].val = p], cands),
               UNCHANGED <<lock, serving>>
        PROVE  Typed'
    <2> DEFINE new == [th[t] EXCEPT !.pc = "rowWrite", !.val = p]
    <2>0. th[t] \in Thread
      BY DEF Typed, MemoryInv, WellFormed
    <2>1. new \in Thread /\ new.slug = th[t].slug /\ new.ref = th[t].ref
      BY <2>0, <1>2 DEF Thread, PCs
    <2>2. Memory(heap, table, [th EXCEPT ![t] = new], cands)
      BY <1>2 DEF Typed, MemoryInv, WellFormed
    <2> HIDE DEF new
    <2>3. WellFormed(heap, table, [th EXCEPT ![t] = new], cands)
      BY <1>1, <2>1, Holding, Rebind DEF Typed, MemoryInv, Sess
    <2>4. QED BY <1>2, <2>2, <2>3, MemoryStep
              DEF RowPort, Typed, LockType, DockerType, NoEffect, dockerVars
  <1>3. pub[th[t].slug] \in Ports \cup {None}
    BY <1>1, Holding DEF Typed, DockerType
  <1>4. CASE ReconcileEnds(t, table, TRUE)
    <2>1. table \in [Slugs -> Obj \cup {None}]
      BY DEF Typed, MemoryInv, WellFormed
    <2>2. NoEffect
      BY DEF RowPort
    <2>3. QED BY <1>4, <2>1, <2>2, ReconcileEndsTyped
  <1>5. QED BY <1>2, <1>3, <1>4 DEF RowPort

LEMMA RowWriteTyped ==
    ASSUME Typed, NEW t \in Threads, RowWrite(t)
    PROVE  Typed'
  <1> DEFINE sess == FromRow(t)
             new == [th[t] EXCEPT !.pc = "row", !.todo = @ \ {th[t].slug}, !.slug = None,
                                  !.ref = None, !.val = None, !.clk = 0]
  <1>1. th[t].ref # None /\ th[t] \in Thread
    BY BusyHolds DEF RowWrite, Typed, MemoryInv, WellFormed
  <1>2. Sess(t) \in Session /\ Sess(t).slug = th[t].slug
    BY <1>1, Holding DEF Typed
  <1>3. sess \in Session /\ sess.slug = th[t].slug
    BY <1>1, <1>2 DEF FromRow, Session, Thread
  <1>4. 0 \in 0..CacheTicks
    BY BrokerAssumption
  <1>5. new \in Thread /\ new.ref = None /\ new.pc = "row"
    BY <1>1, <1>4 DEF Thread, PCs
  <1>6. [th EXCEPT ![t] = new] =
            [th EXCEPT ![t].pc = "row", ![t].todo = @ \ {th[t].slug},
                       ![t].slug = None, ![t].ref = None, ![t].val = None, ![t].clk = 0]
    BY DEF Typed, MemoryInv, WellFormed
  <1>7. Memory(Put(t, sess), table, [th EXCEPT ![t] = new], cands)
    BY <1>6 DEF RowWrite
  <1> HIDE DEF sess, new
  <1>8. WellFormed(Put(t, sess), table, th, cands)
    BY <1>1, <1>3, PutSession DEF Typed
  <1>9. WellFormed(Put(t, sess), table, [th EXCEPT ![t] = new], cands)
    BY <1>5, <1>8, Rebind
  <1>10. QED BY <1>7, <1>9, MemoryStep
             DEF RowWrite, Typed, LockType, DockerType, NoEffect, dockerVars

LEMMA DropTyped ==
    ASSUME Typed, NEW t \in Threads, DropUnseen(t)
    PROVE  Typed'
  <1> DEFINE tab == [s \in Slugs |-> IF th[t].snap[s] = "absent" THEN None ELSE table[s]]
  <1>1. /\ \A s \in Slugs : tab[s] \in {None, table[s]}
        /\ tab \in [Slugs -> Obj \cup {None}]
    BY DEF Typed, MemoryInv, WellFormed
  <1>2. ReconcileEnds(t, tab, FALSE) /\ NoEffect
    BY DEF DropUnseen
  <1> HIDE DEF tab
  <1>3. QED BY <1>1, <1>2, ReconcileEndsTyped

LEMMA ReapTyped ==
    ASSUME Typed, ReapStep
    PROVE  Typed'
  <1>0. Reaper \in Threads
    BY DEF Threads
  <1>1. ASSUME NEW o \in Obj, Pick(o)
        PROVE  Typed'
    <2> DEFINE new == [th[Reaper] EXCEPT !.pc = "beat", !.ref = o, !.slug = heap[o].slug]
    <2>1. heap[o].slug \in Slugs /\ o \in cands
      BY <1>1 DEF Pick, Typed, MemoryInv, WellFormed
    <2>a. th[Reaper] \in Thread
      BY <1>0 DEF Typed, MemoryInv, WellFormed
    <2>2. new \in Thread /\ new.ref = o /\ new.slug = heap[o].slug
      BY <2>a, <2>1 DEF Thread, PCs
    <2>3. \/ Memory(heap, table, th, cands \ {o})
          \/ Memory(heap, table, [th EXCEPT ![Reaper] = new], cands \ {o})
      BY <1>0, <1>1 DEF Pick, Typed, MemoryInv, WellFormed
    <2> HIDE DEF new
    <2>4. WellFormed(heap, table, [th EXCEPT ![Reaper] = new], cands \ {o})
      BY <1>0, <2>1, <2>2, Rebind DEF Typed, MemoryInv
    <2>5. WellFormed(heap, table, th, cands \ {o})
      BY DEF Typed, MemoryInv, WellFormed
    <2>6. MemoryInv'
      BY <2>3, <2>4, <2>5, MemoryStep
    <2>7. QED BY <1>1, <2>6 DEF Pick, Typed, LockType, DockerType, NoEffect, dockerVars
  <1>2. CASE RoundOver
    <2>1. WellFormed(heap, table, [th EXCEPT ![Reaper] = Idle], cands)
      BY <1>0, IdleType, Rebind DEF Typed, MemoryInv
    <2>2. QED BY <1>2, <2>1, MemoryStep
              DEF RoundOver, Typed, LockType, DockerType, NoEffect, dockerVars
  <1>3. CASE ReadHeartbeat
    <2> DEFINE s == th[Reaper].slug
               new == [th[Reaper] EXCEPT !.pc = "want", !.ref = SessionOf(s)]
    <2>1. s \in Slugs
      BY <1>0, <1>3, BusyHolds, Holding DEF ReadHeartbeat, Typed
    <2>2. CASE Memory(heap, table, [th EXCEPT ![Reaper] = AfterReturn(Reaper)], cands)
      <3>1. WellFormed(heap, table, [th EXCEPT ![Reaper] = AfterReturn(Reaper)], cands)
        BY <1>0, AfterReturnType, Rebind DEF Typed, MemoryInv
      <3>2. MemoryInv'
        BY <2>2, <3>1, MemoryStep
      <3>3. QED BY <1>3, <3>2
                DEF ReadHeartbeat, Typed, LockType, DockerType, NoEffect, dockerVars
    <2>3. CASE CanGet(s) /\ Memory(HeapWith(s), TableWith(s), [th EXCEPT ![Reaper] = new], cands)
      <3>1. /\ SessionOf(s) \in Obj /\ HeapWith(s)[SessionOf(s)].slug = s
            /\ WellFormed(HeapWith(s), TableWith(s), th, cands)
        BY <2>1, <2>3, GetSession DEF Typed
      <3>a. th[Reaper] \in Thread
        BY <1>0 DEF Typed, MemoryInv, WellFormed
      <3>2. new \in Thread /\ new.ref = SessionOf(s) /\ new.slug = s
        BY <3>a, <3>1 DEF Thread, PCs
      <3> HIDE DEF new
      <3>3. WellFormed(HeapWith(s), TableWith(s), [th EXCEPT ![Reaper] = new], cands)
        BY <1>0, <2>1, <3>1, <3>2, Rebind
      <3>4. MemoryInv'
        BY <2>3, <3>3, MemoryStep
      <3>5. QED BY <1>3, <3>4
                DEF ReadHeartbeat, Typed, LockType, DockerType, NoEffect, dockerVars
    <2>4. CASE Memory(heap, table, [th EXCEPT ![Reaper] = Idle], {})
      <3>1. WellFormed(heap, table, [th EXCEPT ![Reaper] = Idle], {})
        BY <1>0, IdleType, Rebind DEF Typed, MemoryInv
      <3>2. MemoryInv'
        BY <2>4, <3>1, MemoryStep
      <3>3. QED BY <1>3, <3>2
                DEF ReadHeartbeat, Typed, LockType, DockerType, NoEffect, dockerVars
    <2>5. [th EXCEPT ![Reaper] = new] = [th EXCEPT ![Reaper].pc = "want",
                                                   ![Reaper].ref = SessionOf(s)]
      BY <1>0 DEF Typed, MemoryInv, WellFormed
    <2>6. QED BY <1>3, <2>2, <2>3, <2>4, <2>5 DEF ReadHeartbeat
  <1>4. QED BY <1>1, <1>2, <1>3 DEF ReapStep

LEMMA WorldTyped ==
    ASSUME Typed, Environment
    PROVE  Typed'
  <1>1. CASE Tick
    <2>1. ASSUME NEW n \in 0..CacheTicks PROVE Older(n) \in 0..CacheTicks
      BY BrokerAssumption DEF Older
    <2>a. heap \in [Obj -> Session] /\ th \in [Threads -> Thread]
      BY DEF Typed, MemoryInv, WellFormed
    <2>b. ASSUME NEW r \in Session
          PROVE  [r EXCEPT !.age = Older(@)] \in Session
                 /\ [r EXCEPT !.age = Older(@)].slug = r.slug
      BY <2>1 DEF Session
    <2>c. ASSUME NEW r \in Thread, NEW b
          PROVE  LET n == [r EXCEPT !.clk = IF b THEN Older(@) ELSE @]
                 IN  n \in Thread /\ n.slug = r.slug /\ n.ref = r.ref /\ n.pc = r.pc
      BY <2>1 DEF Thread
    <2>2. heap' \in [Obj -> Session] /\ \A o \in Obj : heap'[o].slug = heap[o].slug
      BY <1>1, <2>a, <2>b DEF Tick
    <2>3. th' \in [Threads -> Thread] /\ \A t \in Threads : /\ th'[t].slug = th[t].slug
                                                           /\ th'[t].ref = th[t].ref
                                                           /\ th'[t].pc = th[t].pc
      BY <1>1, <2>a, <2>c DEF Tick
    <2>d. \A t \in Threads : th[t].ref \in Obj \cup {None}
      BY <2>a DEF Thread
    <2>e. table' = table /\ cands' = cands
      BY <1>1 DEF Tick
    <2>4. MemoryInv'
      BY <2>2, <2>3, <2>d, <2>e DEF Typed, MemoryInv, WellFormed
    <2>5. gone' \in [Slugs -> [Ports -> 0..Never]]
      BY <1>1, BrokerAssumption DEF Tick, Typed, DockerType, Older, Never
    <2>6. QED BY <1>1, <2>4, <2>5 DEF Tick, Typed, LockType, DockerType
  <1>2. CASE \E o \in Obj : SeenExpires(o)
    <2>1. heap' \in [Obj -> Session] /\ \A o \in Obj : heap'[o].slug = heap[o].slug
      BY <1>2 DEF SeenExpires, Typed, MemoryInv, WellFormed, Session
    <2>2. MemoryInv'
      BY <1>2, <2>1 DEF SeenExpires, Typed, MemoryInv, WellFormed, Thread
    <2>3. QED BY <1>2, <2>2 DEF SeenExpires, Typed, LockType, DockerType, NoEffect, dockerVars
  <1>3. CASE \E s \in Slugs : UserWorks(s) \/ BeatExpires(s) \/ ContainerExits(s)
    <2>1. UNCHANGED <<table, heap, lock, serving, cands, th>>
      BY <1>3 DEF UserWorks, BeatExpires, ContainerExits
    <2>2. MemoryInv' /\ LockType'
      BY <2>1 DEF Typed, MemoryInv, WellFormed, LockType
    <2>3. ASSUME NEW s \in Slugs, ContainerExits(s)
          PROVE  DockerType'
      BY <2>3, DockerStep DEF ContainerExits, Typed
    <2>4. ASSUME NEW s \in Slugs, UserWorks(s) \/ BeatExpires(s)
          PROVE  DockerType'
      BY <2>4 DEF UserWorks, BeatExpires, Typed, DockerType
    <2>5. QED BY <1>3, <2>2, <2>3, <2>4 DEF Typed
  <1>4. CASE Rollout
    BY <1>4 DEF Rollout, Typed, MemoryInv, WellFormed, LockType, DockerType
  <1>5. CASE BrokerRestart
    <2>1. Collected \in Session
      BY BrokerAssumption DEF Collected, NewSession, Session
    <2>2. MemoryInv'
      BY <1>5, <2>1, IdleType DEF BrokerRestart, MemoryInv, WellFormed
    <2>3. QED BY <1>5, <2>2 DEF BrokerRestart, Typed, LockType, DockerType, NoEffect, dockerVars
  <1>6. QED BY <1>1, <1>2, <1>3, <1>4, <1>5 DEF Environment

THEOREM TypedInit == Init => Typed
  <1> SUFFICES ASSUME Init PROVE Typed
    OBVIOUS
  <1>1. Collected \in Session
    BY BrokerAssumption DEF Collected, NewSession, Session
  <1>2. MemoryInv
    BY <1>1, IdleType DEF Init, MemoryInv, WellFormed
  <1>3. Never \in 0..Never
    BY BrokerAssumption DEF Never
  <1>4. DockerType
    BY <1>3 DEF Init, DockerType, CState
  <1>5. QED BY <1>2, <1>4 DEF Init, Typed, LockType

THEOREM TypedStep == Typed /\ [Next]_vars => Typed'
  <1> SUFFICES ASSUME Typed, [Next]_vars PROVE Typed'
    OBVIOUS
  <1>1. ASSUME NEW t \in Threads, NEW s \in Slugs, NEW op \in Requests, Begin(t, s, op)
        PROVE  Typed'
    BY <1>1, BeginTyped
  <1>2. ASSUME NEW t \in Threads, NEW op \in Requests \cup {"boot", "reap"}, Snapshot(t, op)
        PROVE  Typed'
    BY <1>2, SnapshotTyped
  <1>3. ASSUME NEW t \in Threads, Proceed(t)
        PROVE  Typed'
    BY <1>3, LockingTyped, SlowPathTyped, HealthTyped, RunTyped, PortTyped, ConfirmTyped, ReplyTyped,
       StopTyped, VolumeTyped, RowTyped, RowPortTyped, RowWriteTyped, DropTyped, ReapTyped
       DEF Proceed, EnsureStep, StopStep, ReconcileStep
  <1>4. CASE UNCHANGED vars
    BY <1>4 DEF vars, Typed, MemoryInv, WellFormed, LockType, DockerType
  <1>5. QED BY <1>1, <1>2, <1>3, <1>4, WorldTyped DEF Next, Arrive

(* The broker's state and docker's always have their types, and a session   *)
(* object always belongs to the slug it is filed under and worked on for.   *)
THEOREM AlwaysTyped == Spec => []Typed
  BY TypedInit, TypedStep, PTL DEF Spec

THEOREM TypeCorrect == Spec => []TypeOK
  <1>1. Typed => TypeOK
    BY TypeParts DEF Typed
  <1>2. QED BY <1>1, AlwaysTyped, PTL

-----------------------------------------------------------------------------
(* The slug locks: a step of a thread leaves its lock alone, takes one or   *)
(* releases the one it has, and never touches another thread.               *)

InLock(t, s) == th[t].pc \in Critical /\ th[t].slug = s

Others(t) == \A u \in Threads \ {t} : th'[u].pc = th[u].pc /\ th'[u].slug = th[u].slug

StaysPut(t) ==
    /\ lock' = lock
    /\ th[t].pc \in Critical <=> th'[t].pc \in Critical
    /\ th[t].pc \in Critical => th'[t].slug = th[t].slug

Enters(t) ==
    /\ th[t].pc \notin Critical /\ th'[t].pc \in Critical
    /\ th[t].slug \in Slugs /\ th'[t].slug = th[t].slug
    /\ lock[th[t].slug] = None
    /\ lock' = [lock EXCEPT ![th[t].slug] = t]

Leaves(t) ==
    /\ th[t].pc \in Critical /\ th'[t].pc \notin Critical
    /\ lock' = [lock EXCEPT ![th[t].slug] = None]

LockMove(t) == Others(t) /\ (StaysPut(t) \/ Enters(t) \/ Leaves(t))

LEMMA LockMoveKeeps ==
    ASSUME Typed, Typed', MutualExclusion, NEW t \in Threads, LockMove(t)
    PROVE  MutualExclusion'
  <1>1. lock \in [Slugs -> Threads \cup {None}] /\ None \notin Threads
    BY BrokerAssumption DEF Typed, LockType
  <1>2. CASE StaysPut(t)
    BY <1>1, <1>2 DEF LockMove, Others, StaysPut, MutualExclusion
  <1>3. CASE Enters(t)
    BY <1>1, <1>3 DEF LockMove, Others, Enters, MutualExclusion
  <1>4. CASE Leaves(t)
    BY <1>1, <1>4 DEF LockMove, Others, Leaves, MutualExclusion
  <1>5. QED BY <1>2, <1>3, <1>4 DEF LockMove

LEMMA OutsideMove ==
    ASSUME NEW t \in Threads, \A u \in Threads \ {t} : th'[u] = th[u],
           th[t].pc \notin Critical, th'[t].pc \notin Critical, lock' = lock
    PROVE  LockMove(t)
  BY DEF LockMove, Others, StaysPut

LEMMA ThreadsTyped == Typed => th \in [Threads -> Thread]
  BY DEF Typed, MemoryInv, WellFormed

LEMMA RaiseMove ==
    ASSUME Typed, NEW t \in Threads, th[t].pc \in Critical, Raise(t)
    PROVE  LockMove(t)
  BY IdleType DEF Typed, MemoryInv, WellFormed, Raise, Memory, LockMove, Others, Leaves, Critical

LEMMA GotoMove ==
    ASSUME Typed, NEW t \in Threads, th[t].pc \in Critical, NEW where \in Critical,
           Goto(t, where)
    PROVE  LockMove(t)
  BY DEF Typed, MemoryInv, WellFormed, Goto, Memory, LockMove, Others, StaysPut

LEMMA ArriveMove ==
    ASSUME Typed, NEW t \in Threads, Arrive(t)
    PROVE  LockMove(t)
  <1>1. ASSUME NEW s \in Slugs, NEW op \in Requests, Begin(t, s, op)
        PROVE  LockMove(t)
    BY <1>1 DEF Begin, Typed, MemoryInv, WellFormed, Memory, LockMove, Others, StaysPut,
                Critical, Idle
  <1>2. ASSUME NEW op \in Requests \cup {"boot", "reap"}, Snapshot(t, op)
        PROVE  LockMove(t)
    <2>1. \A u \in Threads \ {t} : th'[u] = th[u]
      BY <1>2, ThreadsTyped DEF Snapshot, Memory
    <2>2. th[t].pc = "idle" /\ th'[t].pc \in {"idle", "row"} /\ lock' = lock
      BY <1>2, ThreadsTyped DEF Snapshot, Memory, Idle
    <2>3. QED BY <2>1, <2>2, OutsideMove DEF Critical
  <1>3. QED BY <1>1, <1>2 DEF Arrive

LEMMA LockingMove ==
    ASSUME Typed, NEW t \in Threads, CacheHit(t) \/ Acquire(t)
    PROVE  LockMove(t)
  <1>1. th[t].slug \in Slugs
    BY BusyHolds, Holding DEF CacheHit, Acquire, Typed
  <1>2. CASE CacheHit(t)
    BY <1>2 DEF CacheHit, Typed, MemoryInv, WellFormed, Memory, LockMove, Others, StaysPut,
                Critical
  <1>3. CASE Acquire(t)
    BY <1>1, <1>3 DEF Acquire, Typed, MemoryInv, WellFormed, Memory, LockMove, Others, Enters,
                Critical
  <1>4. QED BY <1>2, <1>3

LEMMA SlowPathMove ==
    ASSUME Typed, NEW t \in Threads,
           Inspect(t) \/ CompareImage(t) \/ Replace(t) \/ Admit(t) \/ RemoveContainer(t)
    PROVE  LockMove(t)
  <1>1. th[t].pc \in Critical
    BY DEF Inspect, CompareImage, Replace, Admit, RemoveContainer, Critical
  <1>2. Raise(t) \/ \E where \in Critical : Goto(t, where)
    BY DEF Inspect, CompareImage, Replace, Admit, RemoveContainer, Critical
  <1>3. QED BY <1>1, <1>2, RaiseMove, GotoMove

LEMMA RunMove ==
    ASSUME Typed, NEW t \in Threads, CreateContainer(t) \/ StartContainer(t)
    PROVE  LockMove(t)
  <1>1. th[t].pc \in Critical
    BY DEF CreateContainer, StartContainer, Critical
  <1>2. CASE WithStarted(t)
    BY <1>1, <1>2 DEF WithStarted, Typed, MemoryInv, WellFormed, Memory, LockMove, Others,
                StaysPut, Critical
  <1>3. QED BY <1>1, <1>2, RaiseMove DEF CreateContainer, StartContainer

LEMMA HealthMove ==
    ASSUME Typed, NEW t \in Threads, Recheck(t) \/ WaitHealthy(t)
    PROVE  LockMove(t)
  <1>1. th[t].pc \in {"recheck", "health"}
    BY DEF Recheck, WaitHealthy
  <1>2. CASE Raise(t)
    BY <1>1, <1>2, RaiseMove DEF Critical
  <1>3. CASE ~Raise(t)
    <2>1. lock' = lock /\ \A u \in Threads \ {t} : th'[u] = th[u]
      BY <1>3, ThreadsTyped DEF Recheck, WaitHealthy, Memory
    <2>2. th'[t].pc \in {"health", "confirm"} /\ th'[t].slug = th[t].slug
      BY <1>3, ThreadsTyped DEF Recheck, WaitHealthy, Memory, Thread
    <2>3. QED BY <1>1, <2>1, <2>2 DEF LockMove, Others, StaysPut, Critical
  <1>4. QED BY <1>2, <1>3

LEMMA PortMove ==
    ASSUME Typed, NEW t \in Threads, ReadPort(t) \/ Confirm(t)
    PROVE  LockMove(t)
  <1>1. CASE Raise(t) /\ th[t].pc = "port"
    BY <1>1, RaiseMove DEF Critical
  <1>2. CASE ReadPort(t) /\ ~Raise(t)
    <2>1. \A u \in Threads \ {t} : th'[u] = th[u]
      BY <1>2, ThreadsTyped DEF ReadPort, Memory
    <2>2. th[t].pc = "port"
      BY <1>2 DEF ReadPort
    <2>3. \/ lock' = lock /\ th'[t].pc \in {"recheck", "confirm"} /\ th'[t].slug = th[t].slug
          \/ lock' = [lock EXCEPT ![th[t].slug] = None] /\ th'[t] = Idle
      <3>1. CASE th' = [th EXCEPT ![t].pc = IF th[t].started THEN "recheck" ELSE "confirm"]
                 /\ lock' = lock
        BY <3>1, ThreadsTyped DEF Thread
      <3>2. CASE th' = [th EXCEPT ![t] = Idle] /\ lock' = [lock EXCEPT ![th[t].slug] = None]
        BY <3>2, ThreadsTyped
      <3>3. QED BY <1>2, <3>1, <3>2 DEF ReadPort, Memory
    <2>4. QED BY <2>1, <2>2, <2>3, IdleType DEF LockMove, Others, StaysPut, Leaves, Critical
  <1>3. CASE Confirm(t)
    BY <1>3 DEF Confirm, Typed, MemoryInv, WellFormed, Memory, LockMove, Others,
                Leaves, Critical
  <1>4. QED BY <1>1, <1>2, <1>3 DEF ReadPort

LEMMA StopMove ==
    ASSUME Typed, NEW t \in Threads, StopContainer(t) \/ RemoveVolume(t)
    PROVE  LockMove(t)
  <1>1. th[t].pc \in Critical
    BY DEF StopContainer, RemoveVolume, Critical
  <1>2. CASE Raise(t) \/ Goto(t, "rm")
    BY <1>1, <1>2, RaiseMove, GotoMove DEF Critical
  <1>3. CASE StopDone(t) /\ ~Goto(t, "rm")
    BY <1>1, <1>3, AfterReturnType DEF StopDone, Typed, MemoryInv, WellFormed, Memory,
                LockMove, Others, Leaves, Critical
  <1>4. CASE PopSession(t)
    BY <1>1, <1>4, AfterReturnType DEF PopSession, Typed, MemoryInv, WellFormed, Memory,
                LockMove, Others, Leaves, Critical
  <1>5. QED BY <1>2, <1>3, <1>4 DEF StopContainer, RemoveVolume

LEMMA ReconcileMove ==
    ASSUME Typed, NEW t \in Threads, Reply(t) \/ ReconcileStep(t)
    PROVE  LockMove(t)
  <1>1. ASSUME NEW tab, NEW failed, ReconcileEnds(t, tab, failed), th[t].pc \notin Critical
        PROVE  LockMove(t)
    BY <1>1, IdleType DEF ReconcileEnds, Typed, MemoryInv, WellFormed, Memory, LockMove, Others,
                StaysPut, Critical, Idle
  <1>2. CASE Reply(t)
    BY <1>2, AfterReturnType DEF Reply, Typed, MemoryInv, WellFormed, Memory, LockMove, Others,
                StaysPut, Critical
  <1>3. CASE \E s \in Slugs : Row(t, s)
    <2>1. \A u \in Threads \ {t} : th'[u] = th[u]
      BY <1>3, ThreadsTyped DEF Row, Memory
    <2>2. th[t].pc = "row" /\ th'[t].pc \in {"row", "rowPort"} /\ lock' = lock
      <3> PICK s \in Slugs : Row(t, s)
        BY <1>3
      <3>1. CASE th' = [th EXCEPT ![t].pc = "rowPort", ![t].slug = s,
                                  ![t].ref = SessionOf(s), ![t].clk = 0]
        BY <3>1, ThreadsTyped DEF Thread, Row
      <3>2. CASE th' = [th EXCEPT ![t].todo = @ \ {s}]
        BY <3>2, ThreadsTyped DEF Thread, Row
      <3>3. QED BY <3>1, <3>2 DEF Row, Memory
    <2>3. QED BY <2>1, <2>2, OutsideMove DEF Critical
  <1>4. CASE RowPort(t)
    <2>1. th[t].pc = "rowPort"
      BY <1>4 DEF RowPort
    <2>2. CASE ReconcileEnds(t, table, TRUE)
      BY <1>1, <2>1, <2>2 DEF Critical
    <2>3. CASE ~ReconcileEnds(t, table, TRUE)
      <3>1. PICK p : th' = [th EXCEPT ![t].pc = "rowWrite", ![t].val = p] /\ lock' = lock
        BY <1>4, <2>3 DEF RowPort, Memory
      <3>2. /\ \A u \in Threads \ {t} : th'[u] = th[u]
            /\ th'[t].pc = "rowWrite" /\ lock' = lock
        BY <3>1, ThreadsTyped DEF Thread
      <3>3. QED BY <2>1, <3>2, OutsideMove DEF Critical
    <2>4. QED BY <2>2, <2>3
  <1>5. CASE RowWrite(t)
    BY <1>5 DEF RowWrite, Typed, MemoryInv, WellFormed, Memory, LockMove, Others,
                StaysPut, Critical
  <1>6. CASE DropUnseen(t)
    BY <1>1, <1>6 DEF DropUnseen, Critical
  <1>7. QED BY <1>2, <1>3, <1>4, <1>5, <1>6 DEF ReconcileStep

LEMMA ReapMove ==
    ASSUME Typed, ReapStep
    PROVE  LockMove(Reaper)
  <1>1. Reaper \in Threads
    BY DEF Threads
  <1>2. CASE \E o \in Obj : Pick(o)
    <2>1. /\ \A u \in Threads \ {Reaper} : th'[u] = th[u]
          /\ th[Reaper].pc = "pick" /\ th'[Reaper].pc \in {"pick", "beat"} /\ lock' = lock
      <3> PICK o \in Obj : Pick(o)
        BY <1>2
      <3>1. CASE th' = th
        BY <3>1 DEF Pick
      <3>2. CASE th' = [th EXCEPT ![Reaper].pc = "beat", ![Reaper].ref = o,
                                  ![Reaper].slug = heap[o].slug]
        BY <1>1, <3>2, ThreadsTyped DEF Pick, Thread
      <3>3. QED BY <3>1, <3>2 DEF Pick, Memory
    <2>2. QED BY <1>1, <2>1, OutsideMove DEF Critical
  <1>3. CASE RoundOver
    BY <1>1, <1>3, IdleType DEF RoundOver, Typed, MemoryInv, WellFormed, Memory, LockMove,
                Others, StaysPut, Critical
  <1>4. CASE ReadHeartbeat
    <2>1. \A u \in Threads \ {Reaper} : th'[u] = th[u]
      BY <1>1, <1>4, ThreadsTyped DEF ReadHeartbeat, Memory
    <2>2. th[Reaper].pc = "beat" /\ lock' = lock
      BY <1>4 DEF ReadHeartbeat
    <2>3. \/ th'[Reaper] \in {Idle, AfterReturn(Reaper)}
          \/ th'[Reaper].pc = "want"
      <3>1. CASE th' = [th EXCEPT ![Reaper].pc = "want",
                                  ![Reaper].ref = SessionOf(th[Reaper].slug)]
        BY <1>1, <3>1, ThreadsTyped DEF Thread
      <3>2. CASE th' = [th EXCEPT ![Reaper] = AfterReturn(Reaper)]
                 \/ th' = [th EXCEPT ![Reaper] = Idle]
        BY <1>1, <3>2, ThreadsTyped
      <3>3. QED BY <1>4, <3>1, <3>2 DEF ReadHeartbeat, Memory
    <2>4. th'[Reaper].pc \notin Critical
      BY <2>3, IdleType, AfterReturnType DEF Critical
    <2>5. QED BY <1>1, <2>1, <2>2, <2>4, OutsideMove DEF Critical
  <1>5. QED BY <1>2, <1>3, <1>4 DEF ReapStep

THEOREM MutexStep == Typed /\ MutualExclusion /\ [Next]_vars => MutualExclusion'
  <1> SUFFICES ASSUME Typed, MutualExclusion, [Next]_vars PROVE MutualExclusion'
    OBVIOUS
  <1>1. Typed'
    BY TypedStep
  <1>2. ASSUME NEW t \in Threads, Proceed(t) \/ Arrive(t)
        PROVE  MutualExclusion'
    <2>1. LockMove(t)
      BY <1>2, ArriveMove, LockingMove, SlowPathMove, HealthMove, RunMove, PortMove, StopMove,
         ReconcileMove, ReapMove DEF Proceed, EnsureStep, StopStep, ReconcileStep
    <2>2. QED BY <1>1, <2>1, LockMoveKeeps
  <1>3. CASE Environment
    <2>1. CASE Tick
      <3>1. \A t \in Threads : th'[t].pc = th[t].pc /\ th'[t].slug = th[t].slug
        BY <2>1 DEF Tick, Typed, MemoryInv, WellFormed, Thread
      <3>2. QED BY <2>1, <3>1 DEF Tick, MutualExclusion
    <2>2. CASE BrokerRestart
      BY <2>2, IdleType, BrokerAssumption DEF BrokerRestart, MutualExclusion, Critical
    <2>3. CASE UNCHANGED <<lock, th>>
      BY <2>3 DEF MutualExclusion
    <2>4. QED BY <1>3, <2>1, <2>2, <2>3
              DEF Environment, SeenExpires, UserWorks, BeatExpires, ContainerExits, Rollout
  <1>4. CASE UNCHANGED vars
    BY <1>4 DEF vars, MutualExclusion
  <1>5. QED BY <1>2, <1>3, <1>4 DEF Next

(* ensure, stop, wipe and the reaper's stop of one slug never overlap.      *)
THEOREM LocksExclude == Spec => []MutualExclusion
  <1>1. Init => MutualExclusion
    BY IdleType, BrokerAssumption DEF Init, MutualExclusion, Critical
  <1>2. QED BY <1>1, MutexStep, AlwaysTyped, PTL DEF Spec

-----------------------------------------------------------------------------
(* What ensure_session has read from docker still holds when it acts on it: *)
(* only the holder of the slug's lock changes the slug's container.         *)

PublishedRuns == \A s \in Slugs : pub[s] # None => ctr[s] = "running"

ActsRight(t) ==
    /\ th[t].pc \in {"image", "replace", "admitStart", "start"} => ctr[th[t].slug] = "exited"
    /\ th[t].pc \in {"recheck", "health", "confirm"} /\ "exit" \notin Faults
          => ctr[th[t].slug] = "running"

\* A step of t leaves the containers alone, but for the one whose lock t has.
OnlyMine(t) ==
    \A s \in Slugs : ctr'[s] = ctr[s] \/ (th[t].pc \in Critical /\ th[t].slug = s)

LEMMA CommandLocal ==
    ASSUME DockerType, NEW s \in Slugs, DockerDoes(s)
    PROVE  \A x \in Slugs \ {s} : ctr'[x] = ctr[x]
  BY DEF DockerType, DockerDoes, NoEffect, dockerVars, Created, Runs, Started, Stopped,
         Removed, VolumeRemoved, LeftCreated

LEMMA OthersActRight ==
    ASSUME Typed, MutualExclusion, NEW t \in Threads, NEW u \in Threads \ {t},
           LockMove(t), OnlyMine(t), ActsRight(u)
    PROVE  ActsRight(u)'
  <1>1. CASE th[u].pc \in Critical
    <2>1. th[u].slug \in Slugs
      BY <1>1, BusyHolds, Holding DEF Typed, Critical
    <2>2. lock[th[u].slug] = u
      BY <1>1, <2>1 DEF MutualExclusion
    <2>3. ~(th[t].pc \in Critical /\ th[t].slug = th[u].slug)
      BY <2>1, <2>2 DEF MutualExclusion
    <2>4. ctr'[th[u].slug] = ctr[th[u].slug]
      BY <2>1, <2>3 DEF OnlyMine
    <2>5. th'[u].pc = th[u].pc /\ th'[u].slug = th[u].slug
      BY DEF LockMove, Others
    <2>6. QED BY <2>4, <2>5 DEF ActsRight
  <1>2. CASE th[u].pc \notin Critical
    BY <1>2 DEF LockMove, Others, ActsRight, Critical
  <1>3. QED BY <1>1, <1>2

LEMMA ProceedMoves ==
    ASSUME Typed, NEW t \in Threads, Proceed(t) \/ Arrive(t)
    PROVE  LockMove(t)
  BY ArriveMove, LockingMove, SlowPathMove, HealthMove, RunMove, PortMove, StopMove,
     ReconcileMove, ReapMove DEF Proceed, EnsureStep, StopStep, ReconcileStep

LEMMA ProceedLocal ==
    ASSUME Typed, NEW t \in Threads, Proceed(t) \/ Arrive(t)
    PROVE  OnlyMine(t)
  <1>1. CASE NoEffect
    BY <1>1 DEF NoEffect, dockerVars, OnlyMine
  <1>2. CASE th[t].pc \in Critical /\ DockerDoes(th[t].slug)
    <2>1. th[t].slug \in Slugs
      BY <1>2, BusyHolds, Holding DEF Typed, Critical
    <2>2. QED BY <1>2, <2>1, CommandLocal DEF OnlyMine, Typed
  <1>3. CASE Replace(t) \/ CreateContainer(t) \/ StartContainer(t) \/ StopContainer(t)
             \/ RemoveContainer(t) \/ RemoveVolume(t)
    BY <1>2, <1>3 DEF Replace, CreateContainer, StartContainer, StopContainer, RemoveContainer,
                RemoveVolume, DockerDoes, Critical
  <1>4. CASE Arrive(t)
    BY <1>1, <1>4 DEF Arrive, Begin, Snapshot, NoEffect
  <1>5. CASE CacheHit(t) \/ Acquire(t) \/ Inspect(t) \/ CompareImage(t) \/ Admit(t)
             \/ ReadPort(t) \/ Recheck(t) \/ WaitHealthy(t) \/ Confirm(t) \/ Reply(t)
    BY <1>1, <1>5 DEF CacheHit, Acquire, Inspect, CompareImage, Admit, ReadPort,
                Recheck, WaitHealthy, Confirm, Reply, NoEffect
  <1>6. CASE ReconcileStep(t) \/ ReapStep
    BY <1>1, <1>6 DEF ReconcileStep, Row, RowPort, RowWrite, DropUnseen, ReapStep, Pick,
                RoundOver, ReadHeartbeat
  <1>7. QED BY <1>3, <1>4, <1>5, <1>6 DEF Proceed, EnsureStep, StopStep

\* A thread that is about to act on the container has just seen it.
LEMMA SelfActsRight ==
    ASSUME Typed, MutualExclusion, PublishedRuns, NEW t \in Threads, ActsRight(t),
           Proceed(t) \/ Arrive(t)
    PROVE  ActsRight(t)'
  <1> DEFINE About == {"image", "replace", "admitStart", "start", "recheck", "health", "confirm"}
  <1>0. LockMove(t) /\ th \in [Threads -> Thread]
    BY ProceedMoves, ThreadsTyped
  <1>1. CASE th'[t].pc \notin About
    BY <1>1 DEF ActsRight
  <1>2. CASE Inspect(t) \/ CompareImage(t) \/ Admit(t)
    <2>1. CASE Raise(t)
      <3>1. th'[t] = Idle
        BY <1>0, <2>1 DEF Raise, Memory
      <3>2. QED BY <3>1, IdleType DEF ActsRight
    <2>2. CASE \E where \in PCs : Goto(t, where)
      <3>1. PICK where \in PCs : Goto(t, where)
        BY <2>2
      <3>2. th'[t].slug = th[t].slug /\ th'[t].pc = where /\ ctr' = ctr
        BY <1>0, <1>2, <3>1 DEF Goto, Memory, Thread, Inspect, CompareImage, Admit,
                            NoEffect, dockerVars
      <3>3. CASE Inspect(t) /\ ~Raise(t)
        <4>1. \/ Goto(t, "admitCreate") \/ Goto(t, "port")
              \/ ctr[th[t].slug] = "exited" /\ Goto(t, "image")
          BY <3>3 DEF Inspect
        <4>2. th'[t].pc \in {"admitCreate", "port"} \/ ctr[th[t].slug] = "exited"
          BY <1>0, <4>1 DEF Goto, Memory, Thread
        <4>3. th'[t].pc \in {"admitCreate", "port", "image"}
          BY <1>0, <4>1 DEF Goto, Memory, Thread
        <4>4. QED BY <3>2, <4>2, <4>3 DEF ActsRight
      <3>4. CASE CompareImage(t) /\ ~Raise(t)
        <4>1. th[t].pc = "image" /\ (Goto(t, "replace") \/ Goto(t, "admitStart"))
          BY <3>4 DEF CompareImage
        <4>2. th'[t].pc \in {"replace", "admitStart"}
          BY <1>0, <4>1 DEF Goto, Memory, Thread
        <4>3. QED BY <3>2, <4>1, <4>2 DEF ActsRight
      <3>5. CASE Admit(t) /\ ~Raise(t)
        <4>1. \/ Goto(t, "create")
              \/ th[t].pc = "admitStart" /\ Goto(t, "start")
          BY <3>5 DEF Admit
        <4>2. th'[t].pc = "create" \/ (th[t].pc = "admitStart" /\ th'[t].pc = "start")
          BY <1>0, <4>1 DEF Goto, Memory, Thread
        <4>3. QED BY <3>2, <4>2 DEF ActsRight
      <3>6. CASE Raise(t)
        BY <2>1, <3>6
      <3>7. QED BY <1>2, <3>3, <3>4, <3>5, <3>6
    <2>3. QED BY <1>2, <2>1, <2>2 DEF Inspect, CompareImage, Admit, PCs
  <1>10. CASE Recheck(t) \/ WaitHealthy(t)
    <2>1. CASE Raise(t)
      BY <1>0, <1>1, <2>1, IdleType DEF Raise, Memory
    <2>2. CASE ~Raise(t)
      <3>1. th'[t].pc \in {"health", "confirm"} /\ th'[t].slug = th[t].slug /\ ctr' = ctr
        BY <1>0, <1>10, <2>2 DEF Recheck, WaitHealthy, Memory, Thread, NoEffect, dockerVars
      <3>2. th[t].pc \in {"recheck", "health"}
        BY <1>10 DEF Recheck, WaitHealthy
      <3>3. QED BY <3>1, <3>2 DEF ActsRight
    <2>3. QED BY <2>1, <2>2
  <1>3. CASE ReadPort(t)
    <2>1. th[t].slug \in Slugs /\ ctr' = ctr
      BY <1>3, BusyHolds, Holding DEF ReadPort, Typed, NoEffect, dockerVars
    <2>2. CASE Raise(t) \/ th' = [th EXCEPT ![t] = Idle]
      <3>1. th'[t] = Idle
        BY <1>0, <2>2 DEF Raise, Memory
      <3>2. QED BY <3>1, IdleType DEF ActsRight
    <2>3. CASE pub[th[t].slug] # None
               /\ th' = [th EXCEPT ![t].pc = IF th[t].started THEN "recheck" ELSE "confirm"]
      <3>1. th'[t].slug = th[t].slug /\ th'[t].pc \in {"recheck", "confirm"}
        BY <1>0, <2>3 DEF Thread
      <3>2. QED BY <2>1, <2>3, <3>1 DEF ActsRight, PublishedRuns
    <2>4. QED BY <1>3, <2>2, <2>3 DEF ReadPort, Memory
  <1>4. CASE Arrive(t)
    <2>1. th'[t].pc \in {"want", "idle", "row"}
      BY <1>0, <1>4 DEF Arrive, Begin, Snapshot, Memory, Idle
    <2>2. QED BY <1>1, <2>1
  <1>5. CASE CacheHit(t) \/ Acquire(t) \/ Confirm(t)
    <2>1. th'[t].pc \in {"reply", "inspect", "stop"}
      BY <1>0, <1>5 DEF CacheHit, Acquire, Confirm, Memory, Thread
    <2>2. QED BY <1>1, <2>1
  <1>6. CASE Replace(t) \/ CreateContainer(t) \/ StartContainer(t) \/ RemoveContainer(t)
    <2>1. CASE Raise(t)
      BY <1>0, <1>1, <2>1, IdleType DEF Raise, Memory
    <2>2. CASE WithStarted(t) \/ Goto(t, "admitCreate") \/ Goto(t, "volrm")
      <3>1. th'[t].pc \in {"port", "admitCreate", "volrm"}
        BY <1>0, <2>2 DEF WithStarted, Goto, Memory, Thread
      <3>2. QED BY <1>1, <3>1
    <2>3. QED BY <1>6, <2>1, <2>2 DEF Replace, CreateContainer, StartContainer, RemoveContainer
  <1>7. CASE StopContainer(t) \/ RemoveVolume(t) \/ Reply(t)
    <2>1. CASE Raise(t)
      BY <1>0, <1>1, <2>1, IdleType DEF Raise, Memory
    <2>2. CASE Goto(t, "rm")
      BY <1>0, <1>1, <2>2 DEF Goto, Memory, Thread
    <2>3. CASE th' = [th EXCEPT ![t] = AfterReturn(t)]
      BY <1>0, <1>1, <2>3, AfterReturnType
    <2>4. QED BY <1>7, <2>1, <2>2, <2>3
              DEF StopContainer, StopDone, RemoveVolume, PopSession, Reply, Memory
  <1>8. CASE ReconcileStep(t) \/ (t = Reaper /\ ReapStep)
    <2>1. th[t].pc \notin Critical
      BY <1>8 DEF ReconcileStep, Row, RowPort, RowWrite, DropUnseen, ReapStep, Pick,
                  RoundOver, ReadHeartbeat, Critical
    <2>2. UNCHANGED lock
      BY <1>8 DEF ReconcileStep, Row, RowPort, RowWrite, DropUnseen, ReapStep, Pick,
                  RoundOver, ReadHeartbeat, ReconcileEnds
    <2>3. th'[t].pc \notin Critical
      <3>1. lock \in [Slugs -> Threads \cup {None}] /\ None \notin Threads
        BY BrokerAssumption DEF Typed, LockType
      <3>2. ~Leaves(t)
        BY <2>1 DEF Leaves
      <3>3. CASE Enters(t)
        <4>1. lock'[th[t].slug] = t /\ lock[th[t].slug] = None
          BY <3>1, <3>3 DEF Enters
        <4>2. QED BY <2>2, <3>1, <4>1
      <3>4. CASE StaysPut(t)
        BY <2>1, <3>4 DEF StaysPut
      <3>5. QED BY <1>0, <3>2, <3>3, <3>4 DEF LockMove
    <2>4. QED BY <1>1, <2>3 DEF Critical
  <1>9. QED BY <1>2, <1>3, <1>4, <1>5, <1>6, <1>7, <1>8, <1>10
            DEF Proceed, EnsureStep, StopStep

\* A published port means a running container: docker's own bookkeeping.
LEMMA CommandPublishes ==
    ASSUME DockerType, PublishedRuns, NEW s \in Slugs, DockerDoes(s)
    PROVE  PublishedRuns'
  <1>1. CASE Runs(s)
    BY <1>1 DEF Runs, DockerType, PublishedRuns
  <1>2. CASE NoEffect \/ VolumeRemoved(s)
    BY <1>2 DEF NoEffect, dockerVars, VolumeRemoved, PublishedRuns
  <1>3. CASE Stopped(s) \/ Removed(s)
    BY <1>3 DEF Stopped, Removed, DockerType, PublishedRuns
  <1>4. CASE LeftCreated(s)
    BY <1>4 DEF LeftCreated, DockerType, PublishedRuns
  <1>5. QED BY <1>1, <1>2, <1>3, <1>4 DEF DockerDoes, Created, Started

LEMMA ProceedDocker ==
    ASSUME Typed, NEW t \in Threads, Proceed(t) \/ Arrive(t)
    PROVE  NoEffect \/ \E s \in Slugs : DockerDoes(s)
  <1>1. CASE Replace(t) \/ CreateContainer(t) \/ StartContainer(t) \/ StopContainer(t)
             \/ RemoveContainer(t) \/ RemoveVolume(t)
    <2>1. th[t].slug \in Slugs
      BY <1>1, BusyHolds, Holding DEF Replace, CreateContainer, StartContainer,
              StopContainer, RemoveContainer, RemoveVolume, Typed
    <2>2. DockerDoes(th[t].slug)
      BY <1>1 DEF Replace, CreateContainer, StartContainer, StopContainer,
              RemoveContainer, RemoveVolume, DockerDoes
    <2>3. QED BY <2>1, <2>2
  <1>2. CASE Arrive(t)
    BY <1>2 DEF Arrive, Begin, Snapshot, NoEffect
  <1>3. CASE CacheHit(t) \/ Acquire(t) \/ Inspect(t) \/ CompareImage(t) \/ Admit(t)
             \/ ReadPort(t) \/ Recheck(t) \/ WaitHealthy(t) \/ Confirm(t) \/ Reply(t)
    BY <1>3 DEF CacheHit, Acquire, Inspect, CompareImage, Admit, ReadPort, Recheck,
                WaitHealthy, Confirm, Reply, NoEffect
  <1>4. CASE ReconcileStep(t) \/ ReapStep
    BY <1>4 DEF ReconcileStep, Row, RowPort, RowWrite, DropUnseen, ReapStep, Pick,
                RoundOver, ReadHeartbeat
  <1>5. QED BY <1>1, <1>2, <1>3, <1>4 DEF Proceed, EnsureStep, StopStep

\* The inductive invariant.
SeesRight == PublishedRuns /\ \A t \in Threads : ActsRight(t)

LEMMA SeesRightStep ==
    Typed /\ MutualExclusion /\ SeesRight /\ [Next]_vars => SeesRight'
  <1>1. SUFFICES ASSUME Typed, MutualExclusion, SeesRight, [Next]_vars
                 PROVE  SeesRight'
    OBVIOUS
  <1>2. CASE \E t \in Threads : Proceed(t) \/ Arrive(t)
    <2>1. PICK t \in Threads : Proceed(t) \/ Arrive(t)
      BY <1>2
    <2>2. PublishedRuns'
      <3>1. CASE NoEffect
        BY <1>1, <3>1 DEF NoEffect, dockerVars, SeesRight, PublishedRuns
      <3>2. CASE \E s \in Slugs : DockerDoes(s)
        BY <1>1, <3>2, CommandPublishes DEF SeesRight, Typed
      <3>3. QED BY <1>1, <2>1, <3>1, <3>2, ProceedDocker
    <2>3. ActsRight(t)'
      BY <1>1, <2>1, SelfActsRight DEF SeesRight
    <2>4. ASSUME NEW u \in Threads \ {t} PROVE ActsRight(u)'
      BY <1>1, <2>1, ProceedMoves, ProceedLocal, OthersActRight DEF SeesRight
    <2>5. QED BY <2>2, <2>3, <2>4 DEF SeesRight
  <1>3. CASE Environment
    <2>1. CASE Tick
      <3>1. \A t \in Threads : th'[t].pc = th[t].pc /\ th'[t].slug = th[t].slug
        BY <1>1, <2>1, ThreadsTyped DEF Tick, Thread
      <3>2. ctr' = ctr /\ pub' = pub
        BY <2>1 DEF Tick
      <3>3. QED BY <1>1, <3>1, <3>2 DEF SeesRight, PublishedRuns, ActsRight
    <2>2. CASE BrokerRestart
      <3>1. ctr' = ctr /\ pub' = pub /\ \A t \in Threads : th'[t].pc = "idle"
        BY <2>2, IdleType DEF BrokerRestart, NoEffect, dockerVars
      <3>2. QED BY <1>1, <3>1 DEF SeesRight, PublishedRuns, ActsRight
    <2>3. ASSUME NEW s \in Slugs, ContainerExits(s) PROVE SeesRight'
      <3>1. "exit" \in Faults /\ ctr[s] = "running" /\ th' = th
        BY <2>3 DEF ContainerExits
      <3>2. PublishedRuns'
        BY <1>1, <2>3, CommandPublishes DEF ContainerExits, DockerDoes, SeesRight, Typed
      <3>3. \A x \in Slugs : ctr[x] = "exited" => ctr'[x] = "exited"
        BY <1>1, <2>3 DEF ContainerExits, Stopped, Typed, DockerType
      <3>4. ASSUME NEW t \in Threads PROVE ActsRight(t)'
        <4>1. CASE th[t].pc \in {"image", "replace", "admitStart", "start"}
          <5>1. th[t].slug \in Slugs
            BY <1>1, <4>1, BusyHolds, Holding DEF Typed
          <5>2. QED BY <1>1, <3>1, <3>3, <4>1, <5>1 DEF SeesRight, ActsRight
        <4>2. QED BY <3>1, <4>1 DEF ActsRight
      <3>5. QED BY <3>2, <3>4 DEF SeesRight
    <2>4. CASE UNCHANGED <<ctr, pub, th>>
      BY <1>1, <2>4 DEF SeesRight, PublishedRuns, ActsRight
    <2>5. CASE \E o \in Obj : SeenExpires(o)
      BY <2>4, <2>5 DEF SeenExpires, NoEffect, dockerVars
    <2>7. CASE Rollout \/ \E s \in Slugs : UserWorks(s) \/ BeatExpires(s)
      BY <2>4, <2>7 DEF Rollout, UserWorks, BeatExpires
    <2>8. QED BY <1>3, <2>1, <2>2, <2>3, <2>5, <2>7 DEF Environment
  <1>4. CASE UNCHANGED vars
    BY <1>1, <1>4 DEF vars, SeesRight, PublishedRuns, ActsRight
  <1>5. QED BY <1>1, <1>2, <1>3, <1>4 DEF Next

(* ensure_session starts, and removes for its old image, only a container   *)
(* that is stopped; what it waits for runs.                                 *)
THEOREM SawStillHolds == Spec => []ActsOnWhatItSaw
  <1>1. Init => SeesRight
    BY IdleType DEF Init, SeesRight, PublishedRuns, ActsRight
  <1>2. SeesRight => ActsOnWhatItSaw
    BY DEF SeesRight, ActsRight, ActsOnWhatItSaw
  <1>3. QED BY <1>1, <1>2, SeesRightStep, AlwaysTyped, LocksExclude, PTL DEF Spec

-----------------------------------------------------------------------------
(* What a step of thread t writes.  Each lemma of this part is about one    *)
(* variable; the invariants below only use their conclusions.               *)

\* An object is new, or its row or its own stop says that nothing runs.
Blanked(t, o) ==
    /\ heap'[o].port = None /\ heap'[o].status # "running"
    /\ \/ heap[o].slug = None
       \/ th[t].pc = "stop" /\ o = th[t].ref
       \/ th[t].pc = "row" /\ \E s \in Slugs : th[t].snap[s] # "running" /\ heap[o].slug = s

Touched(t, o) ==
    th[t].pc = "want" /\ heap'[o] = [heap[o] EXCEPT !.seen = "recent"]

\* ReadPort, with and without a port.
PortWritten(t, o) ==
    /\ th[t].pc = "port" /\ o = th[t].ref
    /\ \/ /\ pub[th[t].slug] # None
          /\ heap'[o] = [heap[o] EXCEPT !.port = pub[th[t].slug]]
       \/ heap'[o] = [heap[o] EXCEPT !.status = "stopped"] /\ th'[t] = Idle

Confirmed(t, o) ==
    /\ th[t].pc = "confirm" /\ o = th[t].ref
    /\ heap'[o] = [heap[o] EXCEPT !.status = "running", !.age = 0, !.seen = "recent"]

RowWritten(t, o) ==
    th[t].pc = "rowWrite" /\ o = th[t].ref /\ heap'[o] = FromRow(t)

Written(t, o) ==
    \/ heap'[o] = heap[o] \/ heap'[o] = Collected
    \/ Blanked(t, o) \/ Touched(t, o) \/ PortWritten(t, o) \/ Confirmed(t, o)
    \/ RowWritten(t, o)

LEMMA KeptOrCollected ==
    ASSUME NEW h, NEW tab, NEW T, NEW C, Memory(h, tab, T, C), NEW o \in Obj
    PROVE  heap'[o] = h[o] \/ heap'[o] = Collected
  BY DEF Memory

\* _get_session writes at most a new object.
LEMMA GotWritten ==
    ASSUME Typed, NEW t \in Threads, NEW s \in Slugs, CanGet(s), NEW tab, NEW T, NEW C,
           Memory(HeapWith(s), tab, T, C), NEW o \in Obj
    PROVE  Written(t, o)
  <1>1. CASE HeapWith(s)[o] = heap[o]
    BY <1>1, KeptOrCollected DEF Written
  <1>2. CASE HeapWith(s)[o] # heap[o]
    <2>1. table[s] = None /\ heap[o].slug = None /\ HeapWith(s)[o] = NewSession(s)
      <3>1. table[s] = None
        BY <1>2 DEF HeapWith
      <3>2. SessionOf(s) \in FreeObj
        BY <3>1 DEF SessionOf, CanGet
      <3>3. heap \in [Obj -> Session] /\ HeapWith(s) = [heap EXCEPT ![SessionOf(s)] = NewSession(s)]
        BY <3>1 DEF HeapWith, Typed, MemoryInv, WellFormed
      <3>4. o = SessionOf(s)
        BY <1>2, <3>3
      <3>5. QED BY <3>1, <3>2, <3>3, <3>4 DEF FreeObj
    <2>2. NewSession(s).port = None /\ NewSession(s).status = "missing"
      BY DEF NewSession
    <2>3. QED BY <2>1, <2>2, KeptOrCollected DEF Written, Blanked
  <1>3. QED BY <1>1, <1>2

\* A step that replaces the thread's own object writes no other.
LEMMA PutWritten ==
    ASSUME Typed, NEW t \in Threads, th[t].ref # None, NEW sess, NEW tab, NEW T, NEW C,
           Memory(Put(t, sess), tab, T, C), NEW o \in Obj
    PROVE  \/ heap'[o] = heap[o] \/ heap'[o] = Collected
           \/ o = th[t].ref /\ heap'[o] = sess /\ Sess(t) = heap[o]
  <1>1. th[t].ref \in Obj /\ heap \in [Obj -> Session]
    BY Holding DEF Typed, MemoryInv, WellFormed
  <1>2. Put(t, sess)[o] = IF o = th[t].ref THEN sess ELSE heap[o]
    BY <1>1 DEF Put
  <1>3. heap'[o] = Put(t, sess)[o] \/ heap'[o] = Collected
    BY KeptOrCollected
  <1>4. o = th[t].ref => Sess(t) = heap[o]
    BY DEF Sess
  <1>5. QED BY <1>2, <1>3, <1>4

LEMMA ArriveWrites ==
    ASSUME Typed, NEW t \in Threads, Arrive(t), NEW o \in Obj
    PROVE  Written(t, o)
  <1>1. ASSUME NEW s \in Slugs, NEW op \in Requests, Begin(t, s, op)
        PROVE  Written(t, o)
    BY <1>1, GotWritten DEF Begin
  <1>2. ASSUME NEW op \in Requests \cup {"boot", "reap"}, Snapshot(t, op)
        PROVE  Written(t, o)
    BY <1>2, KeptOrCollected DEF Snapshot, Written
  <1>3. QED BY <1>1, <1>2 DEF Arrive

\* Steps that leave the heap alone but for the collection.
LEMMA QuietWrites ==
    ASSUME NEW t \in Threads, NEW o \in Obj,
           \/ Acquire(t) \/ Inspect(t) \/ CompareImage(t) \/ Replace(t) \/ Admit(t)
           \/ CreateContainer(t) \/ StartContainer(t) \/ Recheck(t) \/ WaitHealthy(t)
           \/ Reply(t) \/ RemoveContainer(t) \/ RemoveVolume(t) \/ RowPort(t) \/ DropUnseen(t)
           \/ RoundOver \/ \E x \in Obj : Pick(x)
    PROVE  heap'[o] = heap[o] \/ heap'[o] = Collected
  <1>1. CASE Raise(t) \/ \E where \in PCs : Goto(t, where)
    BY <1>1, KeptOrCollected DEF Raise, Goto
  <1>2. CASE WithStarted(t) \/ PopSession(t)
    BY <1>2, KeptOrCollected DEF WithStarted, PopSession
  <1>3. CASE Acquire(t) \/ Reply(t) \/ RoundOver \/ \E x \in Obj : Pick(x)
    BY <1>3, KeptOrCollected DEF Acquire, Reply, RoundOver, Pick
  <1>4. CASE Recheck(t) \/ WaitHealthy(t)
    BY <1>1, <1>4, KeptOrCollected DEF Recheck, WaitHealthy
  <1>5. CASE RowPort(t) \/ DropUnseen(t)
    BY <1>5, KeptOrCollected DEF RowPort, DropUnseen, ReconcileEnds
  <1>6. CASE Inspect(t) \/ CompareImage(t) \/ Replace(t) \/ Admit(t) \/ RemoveContainer(t)
    BY <1>1, <1>6 DEF Inspect, CompareImage, Replace, Admit, RemoveContainer, PCs
  <1>7. CASE CreateContainer(t) \/ StartContainer(t) \/ RemoveVolume(t)
    BY <1>1, <1>2, <1>7 DEF CreateContainer, StartContainer, RemoveVolume
  <1>8. QED BY <1>3, <1>4, <1>5, <1>6, <1>7

LEMMA EnsureWrites ==
    ASSUME Typed, NEW t \in Threads, CacheHit(t) \/ ReadPort(t) \/ Confirm(t), NEW o \in Obj
    PROVE  Written(t, o)
  <1>1. th[t].ref # None /\ th[t].ref \in Obj
    BY BusyHolds, Holding DEF CacheHit, ReadPort, Confirm, Typed
  <1>2. CASE CacheHit(t)
    BY <1>1, <1>2, PutWritten DEF CacheHit, Written, Touched
  <1>3. CASE Confirm(t)
    <2> DEFINE sess == [Sess(t) EXCEPT !.status = "running", !.age = 0, !.seen = "recent"]
    <2>1. Memory(Put(t, sess), table, [th EXCEPT ![t].pc = "reply"], cands)
      BY <1>3 DEF Confirm
    <2>2. th[t].pc = "confirm"
      BY <1>3 DEF Confirm
    <2>3. Sess(t) = heap[o] => sess = [heap[o] EXCEPT !.status = "running", !.age = 0,
                                                      !.seen = "recent"]
      OBVIOUS
    <2> HIDE DEF sess
    <2>4. \/ heap'[o] = heap[o] \/ heap'[o] = Collected
          \/ o = th[t].ref /\ heap'[o] = sess /\ Sess(t) = heap[o]
      BY <1>1, <2>1, PutWritten
    <2>5. QED BY <2>2, <2>3, <2>4 DEF Written, Confirmed
  <1>4. CASE ReadPort(t)
    <2>1. CASE Raise(t)
      BY <2>1, KeptOrCollected DEF Raise, Written
    <2>2. CASE /\ pub[th[t].slug] # None
               /\ \E T, C : Memory(Put(t, [Sess(t) EXCEPT !.port = pub[th[t].slug]]), table, T, C)
      BY <1>1, <1>4, <2>2, PutWritten DEF ReadPort, Written, PortWritten
    <2>3. CASE Memory(Put(t, [Sess(t) EXCEPT !.status = "stopped"]), table,
                      [th EXCEPT ![t] = Idle], cands)
      <3>1. th'[t] = Idle
        BY <2>3, ThreadsTyped DEF Memory
      <3>2. QED BY <1>1, <1>4, <2>3, <3>1, PutWritten DEF ReadPort, Written, PortWritten
    <2>4. QED BY <1>4, <2>1, <2>2, <2>3 DEF ReadPort
  <1>5. QED BY <1>2, <1>3, <1>4

LEMMA StopWrites ==
    ASSUME Typed, NEW t \in Threads, StopContainer(t), NEW o \in Obj
    PROVE  Written(t, o)
  <1>1. th[t].ref # None /\ th[t].pc = "stop"
    BY BusyHolds DEF StopContainer, Typed
  <1>2. CASE Raise(t) \/ Goto(t, "rm")
    BY <1>2, KeptOrCollected DEF Raise, Goto, Written
  <1>3. CASE StopDone(t) /\ ~Goto(t, "rm")
    <2> DEFINE sess == [Sess(t) EXCEPT !.status = "stopped", !.port = None]
    <2>1. sess.port = None /\ sess.status # "running"
      BY <1>1, Holding DEF Typed, Session
    <2>2. Memory(Put(t, sess), table, [th EXCEPT ![t] = AfterReturn(t)], cands)
      BY <1>3 DEF StopDone
    <2> HIDE DEF sess
    <2>3. QED BY <1>1, <2>1, <2>2, PutWritten DEF Written, Blanked
  <1>4. QED BY <1>2, <1>3 DEF StopContainer

LEMMA RowWrites ==
    ASSUME Typed, NEW t \in Threads, NEW o \in Obj,
           RowWrite(t) \/ \E s \in Slugs : Row(t, s)
    PROVE  Written(t, o)
  <1>1. CASE RowWrite(t)
    <2>1. th[t].ref # None
      BY <1>1, BusyHolds DEF RowWrite, Typed
    <2>2. QED BY <1>1, <2>1, PutWritten DEF RowWrite, Written, RowWritten
  <1>2. ASSUME NEW s \in Slugs, Row(t, s)
        PROVE  Written(t, o)
    <2>1. CASE th[t].snap[s] = "running"
      BY <1>2, <2>1, GotWritten DEF Row
    <2>2. CASE th[t].snap[s] # "running"
      <3> DEFINE G == HeapWith(s)
                 x == SessionOf(s)
                 h == [G EXCEPT ![x].status = "stopped", ![x].port = None]
      <3>1. G \in [Obj -> Session] /\ x \in Obj
        BY <1>2, GetSession DEF Row, Typed, WellFormed
      <3>2. \E tab, T, C : Memory(h, tab, T, C)
        BY <1>2, <2>2 DEF Row
      <3>3. CASE o = x
        <4>1. h[o].port = None /\ h[o].status = "stopped"
          <5> DEFINE r == [G[x] EXCEPT !.status = "stopped", !.port = None]
          <5>1. G[x] \in Session
            BY <3>1
          <5>2. r.port = None /\ r.status = "stopped"
            BY <5>1 DEF Session
          <5>3. h = [G EXCEPT ![x] = r]
            BY <3>1
          <5> HIDE DEF r, G, x, h
          <5>4. h[x] = r
            BY <3>1, <5>3
          <5>5. QED BY <3>3, <5>2, <5>4
        <4> HIDE DEF h
        <4>2. th[t].pc = "row"
          BY <1>2 DEF Row
        <4>3. heap[o].slug = None \/ heap[o].slug = s
          <5>1. CASE table[s] # None
            BY <1>2, <3>3, <5>1, GetSession DEF Row, Typed, HeapWith
          <5>2. CASE table[s] = None
            BY <1>2, <3>3, <5>2 DEF Row, SessionOf, CanGet, FreeObj
          <5>3. QED BY <5>1, <5>2
        <4>4. QED BY <2>2, <3>2, <4>1, <4>2, <4>3, KeptOrCollected DEF Written, Blanked
      <3>4. CASE o # x
        <4>1. h[o] = G[o]
          BY <3>1, <3>4
        <4>2. G[o] = heap[o]
          BY <3>4 DEF HeapWith, Typed, MemoryInv, WellFormed
        <4> HIDE DEF h
        <4>3. QED BY <3>2, <4>1, <4>2, KeptOrCollected DEF Written
      <3>5. QED BY <3>3, <3>4
    <2>3. QED BY <2>1, <2>2
  <1>3. QED BY <1>1, <1>2

LEMMA HeapMove ==
    ASSUME Typed, NEW t \in Threads, Proceed(t) \/ Arrive(t), NEW o \in Obj
    PROVE  Written(t, o)
  <1>1. CASE ReadHeartbeat /\ t = Reaper
    <2>1. th[Reaper].slug \in Slugs
      BY <1>1, BusyHolds, Holding DEF ReadHeartbeat, Typed
    <2>2. QED BY <1>1, <2>1, GotWritten, KeptOrCollected DEF ReadHeartbeat, Written
  <1>2. CASE \/ Acquire(t) \/ Inspect(t) \/ CompareImage(t) \/ Replace(t) \/ Admit(t)
             \/ CreateContainer(t) \/ StartContainer(t) \/ Recheck(t) \/ WaitHealthy(t)
             \/ Reply(t) \/ RemoveContainer(t) \/ RemoveVolume(t) \/ RowPort(t) \/ DropUnseen(t)
             \/ RoundOver \/ \E x \in Obj : Pick(x)
    BY <1>2, QuietWrites DEF Written
  <1>3. QED BY <1>1, <1>2, ArriveWrites, EnsureWrites, StopWrites, RowWrites
            DEF Proceed, EnsureStep, StopStep, ReconcileStep, ReapStep

-----------------------------------------------------------------------------
(* Where thread t goes *)

\* From one place of ensure, stop and wipe to the next.
Arc(from, to) ==
    \/ from = "want" /\ to \in {"reply", "inspect", "stop"}
    \/ from = "inspect" /\ to \in {"admitCreate", "image", "port"}
    \/ from = "image" /\ to \in {"replace", "admitStart"}
    \/ from = "replace" /\ to = "admitCreate"
    \/ from = "admitCreate" /\ to = "create"
    \/ from = "admitStart" /\ to = "start"
    \/ from = "port" /\ to \in {"recheck", "confirm"}
    \/ from = "confirm" /\ to = "reply"
    \/ from = "stop" /\ to = "rm"
    \/ from = "rm" /\ to = "volrm"

ToPick == [Idle EXCEPT !.pc = "pick", !.op = "reap"]

LEMMA IdleFields ==
    /\ Idle.pc = "idle" /\ Idle.op = "none" /\ Idle.ref = None /\ Idle.val = None
    /\ ToPick.pc = "pick" /\ ToPick.op = "reap" /\ ToPick.ref = None /\ ToPick.val = None
  BY DEF Idle, ToPick

\* The operation is over.
Ends(t) ==
    \/ th'[t] = Idle
    \/ th'[t] = ToPick /\ t = Reaper /\ th[t].pc \in {"reply", "stop", "volrm", "beat"}
    \/ th'[t] = ToPick /\ th[t].pc = "row" /\ th[t].op = "reap"

Starts(t) ==
    /\ th[t].pc = "idle"
    /\ \/ /\ serving /\ t \in Clients /\ th'[t].pc = "want" /\ th'[t].op \in Ops
          /\ table'[th'[t].slug] = th'[t].ref
       \/ /\ th'[t].pc = "row" /\ th'[t].ref = None /\ th'[t].snap = ctr
          /\ th'[t].todo = {s \in Slugs : ctr[s] # "absent"}
          /\ \/ t \in Clients /\ serving /\ "list" \in Ops /\ th'[t].op = "list"
             \/ t = Reaper /\ serving /\ ReaperOn /\ th'[t].op = "reap"
             \/ t = Reaper /\ ~serving /\ th'[t].op = "boot"
    /\ th'[t].val = None

GoesOn(t) ==
    \/ \E where \in PCs : /\ Arc(th[t].pc, where) /\ (where = "rm" => th[t].op = "wipe")
                          /\ th'[t] = [th[t] EXCEPT !.pc = where]
    \/ th[t].pc \in {"create", "start"}
       /\ th'[t] = [th[t] EXCEPT !.pc = "port", !.started = TRUE]
    \/ th[t].pc = "recheck" /\ th'[t] = [th[t] EXCEPT !.pc = "health", !.val = Sess(t).port]
    \/ th[t].pc = "health" /\ th'[t] = [th[t] EXCEPT !.pc = "confirm", !.val = None]

ReadsRows(t) ==
    \/ /\ th[t].pc = "row" /\ th'[t].ref # None /\ th'[t].slug \in th[t].todo
       /\ th[t].snap[th'[t].slug] = "running"
       /\ table'[th'[t].slug] = th'[t].ref
       /\ th'[t] = [th[t] EXCEPT !.pc = "rowPort", !.slug = th'[t].slug, !.ref = th'[t].ref,
                                 !.clk = 0]
    \/ /\ th[t].pc = "row"
       /\ \E s \in th[t].todo : /\ th[t].snap[s] # "running"
                                /\ th'[t] = [th[t] EXCEPT !.todo = @ \ {s}]
    \/ /\ th[t].pc = "rowPort"
       /\ \E p \in {pub[th[t].slug]} \cup (IF Fails THEN {None} ELSE {}) :
             th'[t] = [th[t] EXCEPT !.pc = "rowWrite", !.val = p]
    \/ /\ th[t].pc = "rowWrite"
       /\ th'[t] = [th[t] EXCEPT !.pc = "row", !.todo = @ \ {th[t].slug}, !.slug = None,
                                 !.ref = None, !.val = None, !.clk = 0]

Reaps(t) ==
    /\ t = Reaper
    /\ \/ th[t].pc = "pick" /\ (th'[t] = th[t] \/ (th'[t].pc = "beat" /\ th'[t].val = th[t].val))
       \/ th[t].pc = "beat" /\ th'[t].pc = "want" /\ th'[t].val = th[t].val

Refused(t) == th'[t] = th[t] /\ th[t].pc = "idle"   \* docker ps failed

Moved(t) == Ends(t) \/ Starts(t) \/ GoesOn(t) \/ ReadsRows(t) \/ Reaps(t) \/ Refused(t)

\* The rest of the threads stays where it is.
Alone(t) == \A u \in Threads \ {t} : th'[u] = th[u]

LEMMA ReplacedAlone ==
    ASSUME Typed, NEW t \in Threads, NEW new, NEW h, NEW tab, NEW C,
           Memory(h, tab, [th EXCEPT ![t] = new], C)
    PROVE  Alone(t) /\ th'[t] = new
  BY ThreadsTyped DEF Memory, Alone

LEMMA RaiseMoved ==
    ASSUME Typed, NEW t \in Threads, Raise(t)
    PROVE  Alone(t) /\ Moved(t)
  BY ReplacedAlone DEF Raise, Moved, Ends

LEMMA GotoMoved ==
    ASSUME Typed, NEW t \in Threads, NEW where \in PCs, Goto(t, where), Arc(th[t].pc, where),
           where = "rm" => th[t].op = "wipe"
    PROVE  Alone(t) /\ Moved(t)
  <1>1. [th EXCEPT ![t].pc = where] = [th EXCEPT ![t] = [th[t] EXCEPT !.pc = where]]
    BY ThreadsTyped
  <1>2. Alone(t) /\ th'[t] = [th[t] EXCEPT !.pc = where]
    BY <1>1, ReplacedAlone DEF Goto
  <1>3. QED BY <1>2 DEF Moved, GoesOn

LEMMA ArriveMoved ==
    ASSUME Typed, NEW t \in Threads, Arrive(t)
    PROVE  Alone(t) /\ Moved(t)
  <1>1. ASSUME NEW s \in Slugs, NEW op \in Requests, t \in Clients, Begin(t, s, op)
        PROVE  Alone(t) /\ Moved(t)
    <2> DEFINE new == [Idle EXCEPT !.pc = "want", !.op = op, !.slug = s, !.ref = SessionOf(s)]
    <2>1. Memory(HeapWith(s), TableWith(s), [th EXCEPT ![t] = new], cands)
      BY <1>1 DEF Begin
    <2>2. new.pc = "want" /\ new.val = None /\ new.op = op /\ new.slug = s /\ new.ref = SessionOf(s)
      BY DEF Idle
    <2>3. th[t].pc = "idle" /\ serving /\ op \in Ops
      BY <1>1 DEF Begin
    <2>4. table'[s] = SessionOf(s)
      BY <2>1 DEF Memory, TableWith, Typed, MemoryInv, WellFormed
    <2> HIDE DEF new
    <2>5. Alone(t) /\ th'[t] = new
      BY <2>1, ReplacedAlone
    <2>6. QED BY <1>1, <2>2, <2>3, <2>4, <2>5 DEF Moved, Starts
  <1>2. ASSUME NEW op \in Requests \cup {"boot", "reap"}, Snapshot(t, op)
        PROVE  Alone(t) /\ Moved(t)
    <2> DEFINE new == [Idle EXCEPT !.pc = "row", !.op = op, !.snap = ctr,
                                   !.todo = {s \in Slugs : ctr[s] # "absent"}]
    <2>0. /\ th[t].pc = "idle"
          /\ \/ t \in Clients /\ serving /\ op = "list" /\ op \in Ops
             \/ t = Reaper /\ serving /\ ReaperOn /\ op = "reap"
             \/ t = Reaper /\ ~serving /\ op = "boot"
      BY <1>2 DEF Snapshot
    <2>1. CASE Memory(heap, table, [th EXCEPT ![t] = new], cands)
      <3>1. /\ new.pc = "row" /\ new.ref = None /\ new.val = None /\ new.op = op /\ new.snap = ctr
            /\ new.todo = {s \in Slugs : ctr[s] # "absent"}
        BY DEF Idle
      <3> HIDE DEF new
      <3>2. Alone(t) /\ th'[t] = new
        BY <2>1, ReplacedAlone
      <3>3. QED BY <2>0, <3>1, <3>2 DEF Moved, Starts
    <2>2. CASE UNCHANGED th
      BY <2>0, <2>2 DEF Moved, Refused, Alone
    <2>3. QED BY <1>2, <2>1, <2>2 DEF Snapshot
  <1>3. QED BY <1>1, <1>2 DEF Arrive

LEMMA EnsureMoved ==
    ASSUME Typed, NEW t \in Threads, Acquire(t) \/ EnsureStep(t)
    PROVE  Alone(t) /\ Moved(t)
  <1>1. ASSUME NEW where \in PCs, Arc(th[t].pc, where), where # "rm", NEW h, NEW C,
               Memory(h, table, [th EXCEPT ![t].pc = where], C)
        PROVE  Alone(t) /\ Moved(t)
    <2>1. [th EXCEPT ![t].pc = where] = [th EXCEPT ![t] = [th[t] EXCEPT !.pc = where]]
      BY ThreadsTyped
    <2>2. Alone(t) /\ th'[t] = [th[t] EXCEPT !.pc = where]
      BY <1>1, <2>1, ReplacedAlone
    <2>3. QED BY <1>1, <2>2 DEF Moved, GoesOn
  <1>2. CASE Acquire(t) \/ CacheHit(t) \/ Confirm(t)
    BY <1>1, <1>2 DEF Acquire, CacheHit, Confirm, Arc, PCs
  <1>3. CASE Inspect(t) \/ CompareImage(t) \/ Replace(t) \/ Admit(t)
    BY <1>3, RaiseMoved, GotoMoved DEF Inspect, CompareImage, Replace, Admit, Arc, PCs
  <1>4. CASE CreateContainer(t) \/ StartContainer(t)
    <2>1. CASE Raise(t)
      BY <2>1, RaiseMoved
    <2>2. CASE WithStarted(t)
      <3>1. [th EXCEPT ![t].pc = "port", ![t].started = TRUE]
                = [th EXCEPT ![t] = [th[t] EXCEPT !.pc = "port", !.started = TRUE]]
        BY ThreadsTyped
      <3>2. Alone(t) /\ th'[t] = [th[t] EXCEPT !.pc = "port", !.started = TRUE]
        BY <2>2, <3>1, ReplacedAlone DEF WithStarted
      <3>3. th[t].pc \in {"create", "start"}
        BY <1>4 DEF CreateContainer, StartContainer
      <3>4. QED BY <3>2, <3>3 DEF Moved, GoesOn
    <2>3. QED BY <1>4, <2>1, <2>2 DEF CreateContainer, StartContainer
  <1>5. CASE ReadPort(t)
    <2>1. CASE Raise(t)
      BY <2>1, RaiseMoved
    <2>2. CASE \E h : Memory(h, table, [th EXCEPT ![t] = Idle], cands)
      BY <2>2, ReplacedAlone DEF Moved, Ends
    <2>3. CASE \E h : Memory(h, table,
                  [th EXCEPT ![t].pc = IF th[t].started THEN "recheck" ELSE "confirm"], cands)
      BY <1>1, <1>5, <2>3 DEF ReadPort, Arc, PCs
    <2>4. QED BY <1>5, <2>1, <2>2, <2>3 DEF ReadPort
  <1>6. CASE Recheck(t) \/ WaitHealthy(t)
    <2>1. CASE Raise(t)
      BY <2>1, RaiseMoved
    <2>2. CASE Recheck(t) /\ ~Raise(t)
      <3>1. [th EXCEPT ![t].pc = "health", ![t].val = Sess(t).port]
                = [th EXCEPT ![t] = [th[t] EXCEPT !.pc = "health", !.val = Sess(t).port]]
        BY ThreadsTyped
      <3>2. Alone(t) /\ th'[t] = [th[t] EXCEPT !.pc = "health", !.val = Sess(t).port]
        BY <2>2, <3>1, ReplacedAlone DEF Recheck
      <3>3. QED BY <2>2, <3>2 DEF Recheck, Moved, GoesOn
    <2>3. CASE WaitHealthy(t) /\ ~Raise(t)
      <3>1. [th EXCEPT ![t].pc = "confirm", ![t].val = None]
                = [th EXCEPT ![t] = [th[t] EXCEPT !.pc = "confirm", !.val = None]]
        BY ThreadsTyped
      <3>2. Alone(t) /\ th'[t] = [th[t] EXCEPT !.pc = "confirm", !.val = None]
        BY <2>3, <3>1, ReplacedAlone DEF WaitHealthy
      <3>3. QED BY <2>3, <3>2 DEF WaitHealthy, Moved, GoesOn
    <2>4. QED BY <1>6, <2>1, <2>2, <2>3
  <1>7. CASE Reply(t)
    <2>1. Alone(t) /\ th'[t] = AfterReturn(t) /\ th[t].pc = "reply"
      BY <1>7, ReplacedAlone DEF Reply
    <2>2. QED BY <2>1 DEF AfterReturn, Moved, Ends, ToPick
  <1>8. QED BY <1>2, <1>3, <1>4, <1>5, <1>6, <1>7 DEF EnsureStep

LEMMA StopMoved ==
    ASSUME Typed, NEW t \in Threads, StopStep(t)
    PROVE  Alone(t) /\ Moved(t)
  <1>1. CASE Raise(t)
    BY <1>1, RaiseMoved
  <1>2. CASE \/ StopContainer(t) /\ Goto(t, "rm") /\ th[t].op = "wipe"
             \/ RemoveContainer(t) /\ Goto(t, "volrm")
    BY <1>2, GotoMoved DEF StopContainer, RemoveContainer, Arc, PCs
  <1>3. CASE \/ StopContainer(t) /\ StopDone(t) /\ ~(Goto(t, "rm") /\ th[t].op = "wipe")
             \/ RemoveVolume(t) /\ PopSession(t)
    <2>1. \E h, tab : Memory(h, tab, [th EXCEPT ![t] = AfterReturn(t)], cands)
      BY <1>3 DEF StopDone, PopSession
    <2>2. Alone(t) /\ th'[t] = AfterReturn(t)
      BY <2>1, ReplacedAlone
    <2>3. th[t].pc \in {"stop", "volrm"}
      BY <1>3 DEF StopContainer, RemoveVolume
    <2>4. QED BY <2>2, <2>3 DEF AfterReturn, Moved, Ends, ToPick
  <1>4. QED BY <1>1, <1>2, <1>3 DEF StopStep, StopContainer, StopDone, RemoveContainer, RemoveVolume

LEMMA ReconcileMoved ==
    ASSUME Typed, NEW t \in Threads, ReconcileStep(t)
    PROVE  Alone(t) /\ Moved(t)
  <1>1. ASSUME NEW s \in Slugs, Row(t, s)
        PROVE  Alone(t) /\ Moved(t)
    <2>1. CASE th[t].snap[s] = "running"
      <3> DEFINE new == [th[t] EXCEPT !.pc = "rowPort", !.slug = s, !.ref = SessionOf(s), !.clk = 0]
      <3>1. [th EXCEPT ![t].pc = "rowPort", ![t].slug = s, ![t].ref = SessionOf(s), ![t].clk = 0]
                = [th EXCEPT ![t] = new]
        BY ThreadsTyped
      <3>2. Memory(HeapWith(s), TableWith(s), [th EXCEPT ![t] = new], cands)
        BY <1>1, <2>1, <3>1 DEF Row
      <3>3. th[t] \in Thread
        BY ThreadsTyped
      <3>4. new.slug = s /\ new.ref = SessionOf(s)
        BY <3>3 DEF Thread
      <3>5. SessionOf(s) # None
        BY <1>1, GetSession, BrokerAssumption DEF Row, Typed
      <3>6. table'[s] = SessionOf(s)
        BY <3>2 DEF Memory, TableWith, Typed, MemoryInv, WellFormed
      <3> HIDE DEF new
      <3>7. Alone(t) /\ th'[t] = new
        BY <3>2, ReplacedAlone
      <3>8. th[t].pc = "row" /\ s \in th[t].todo
        BY <1>1 DEF Row
      <3> USE DEF new
      <3>9. QED BY <2>1, <3>4, <3>5, <3>6, <3>7, <3>8 DEF Moved, ReadsRows
    <2>2. CASE th[t].snap[s] # "running"
      <3>1. [th EXCEPT ![t].todo = @ \ {s}] = [th EXCEPT ![t] = [th[t] EXCEPT !.todo = @ \ {s}]]
        BY ThreadsTyped
      <3>2. Alone(t) /\ th'[t] = [th[t] EXCEPT !.todo = @ \ {s}]
        BY <1>1, <2>2, <3>1, ReplacedAlone DEF Row
      <3>3. QED BY <1>1, <2>2, <3>2 DEF Row, Moved, ReadsRows
    <2>3. QED BY <2>1, <2>2
  <1>2. CASE RowPort(t)
    <2>1. CASE ReconcileEnds(t, table, TRUE)
      BY <2>1, ReplacedAlone DEF ReconcileEnds, Moved, Ends
    <2>2. ASSUME NEW p \in {pub[th[t].slug]} \cup (IF Fails THEN {None} ELSE {}),
                 Memory(heap, table, [th EXCEPT ![t].pc = "rowWrite", ![t].val = p], cands)
          PROVE  Alone(t) /\ Moved(t)
      <3>1. [th EXCEPT ![t].pc = "rowWrite", ![t].val = p]
                = [th EXCEPT ![t] = [th[t] EXCEPT !.pc = "rowWrite", !.val = p]]
        BY ThreadsTyped
      <3>2. Alone(t) /\ th'[t] = [th[t] EXCEPT !.pc = "rowWrite", !.val = p]
        BY <2>2, <3>1, ReplacedAlone
      <3>3. QED BY <1>2, <2>2, <3>2 DEF RowPort, Moved, ReadsRows
    <2>3. QED BY <1>2, <2>1, <2>2 DEF RowPort
  <1>3. CASE RowWrite(t)
    <2> DEFINE new == [th[t] EXCEPT !.pc = "row", !.todo = @ \ {th[t].slug}, !.slug = None,
                                    !.ref = None, !.val = None, !.clk = 0]
    <2>1. [th EXCEPT ![t].pc = "row", ![t].todo = @ \ {th[t].slug}, ![t].slug = None,
                     ![t].ref = None, ![t].val = None, ![t].clk = 0] = [th EXCEPT ![t] = new]
      BY ThreadsTyped
    <2>2. Memory(Put(t, FromRow(t)), table, [th EXCEPT ![t] = new], cands) /\ th[t].pc = "rowWrite"
      BY <1>3, <2>1 DEF RowWrite
    <2>3. Alone(t) /\ th'[t] = new
      BY <2>2, ReplacedAlone
    <2>4. QED BY <2>2, <2>3 DEF Moved, ReadsRows
  <1>4. CASE DropUnseen(t)
    <2> DEFINE new == IF th[t].op = "reap" /\ ~FALSE THEN ToPick ELSE Idle
    <2>1. \E tab, C : Memory(heap, tab, [th EXCEPT ![t] = new], C)
      BY <1>4 DEF DropUnseen, ReconcileEnds, ToPick
    <2>2. Alone(t) /\ th'[t] = new /\ th[t].pc = "row"
      BY <1>4, <2>1, ReplacedAlone DEF DropUnseen
    <2>3. QED BY <2>2 DEF Moved, Ends
  <1>5. QED BY <1>1, <1>2, <1>3, <1>4 DEF ReconcileStep

LEMMA ReapMoved ==
    ASSUME Typed, ReapStep
    PROVE  Alone(Reaper) /\ Moved(Reaper)
  <1>0. Reaper \in Threads /\ th[Reaper] \in Thread
    BY ThreadsTyped DEF Threads
  <1>1. ASSUME NEW o \in Obj, Pick(o)
        PROVE  Alone(Reaper) /\ Moved(Reaper)
    <2> DEFINE new == [th[Reaper] EXCEPT !.pc = "beat", !.ref = o, !.slug = heap[o].slug]
    <2>1. [th EXCEPT ![Reaper].pc = "beat", ![Reaper].ref = o, ![Reaper].slug = heap[o].slug]
              = [th EXCEPT ![Reaper] = new]
      BY <1>0, ThreadsTyped
    <2>2. new.pc = "beat" /\ new.val = th[Reaper].val
      BY <1>0 DEF Thread
    <2>3. th[Reaper].pc = "pick"
      BY <1>1 DEF Pick
    <2>4. th' = th \/ th' = [th EXCEPT ![Reaper] = new]
      BY <1>1, <2>1 DEF Pick, Memory
    <2> HIDE DEF new
    <2>5. Alone(Reaper) /\ th'[Reaper] \in {th[Reaper], new}
      BY <1>0, <2>4, ThreadsTyped DEF Alone
    <2>6. QED BY <2>2, <2>3, <2>5 DEF Moved, Reaps
  <1>2. CASE RoundOver
    BY <1>0, <1>2, ReplacedAlone DEF RoundOver, Moved, Ends
  <1>3. CASE ReadHeartbeat
    <2> DEFINE s == th[Reaper].slug
               new == [th[Reaper] EXCEPT !.pc = "want", !.ref = SessionOf(s)]
    <2>1. [th EXCEPT ![Reaper].pc = "want", ![Reaper].ref = SessionOf(s)] = [th EXCEPT ![Reaper] = new]
      BY <1>0, ThreadsTyped
    <2>2. new.pc = "want" /\ new.val = th[Reaper].val
      BY <1>0 DEF Thread
    <2>3. th[Reaper].pc = "beat"
      BY <1>3 DEF ReadHeartbeat
    <2>4. \/ th' = [th EXCEPT ![Reaper] = new]
          \/ th' = [th EXCEPT ![Reaper] = AfterReturn(Reaper)] \/ th' = [th EXCEPT ![Reaper] = Idle]
      BY <1>3, <2>1 DEF ReadHeartbeat, Memory
    <2> HIDE DEF new
    <2>5. Alone(Reaper) /\ th'[Reaper] \in {new, ToPick, Idle}
      BY <1>0, <2>4, ThreadsTyped DEF Alone, AfterReturn, ToPick
    <2>6. QED BY <2>2, <2>3, <2>5 DEF Moved, Reaps, Ends
  <1>4. QED BY <1>1, <1>2, <1>3 DEF ReapStep

LEMMA ThreadMove ==
    ASSUME Typed, NEW t \in Threads, Proceed(t) \/ Arrive(t)
    PROVE  Alone(t) /\ Moved(t)
  BY ArriveMoved, EnsureMoved, StopMoved, ReconcileMoved, ReapMoved DEF Proceed

-----------------------------------------------------------------------------
(* docker: a port is published exactly by a running container, which is the *)
(* one that published it last; how long ago is only reset by publishing.    *)

Published ==
    \A s \in Slugs : /\ pub[s] # None <=> ctr[s] = "running"
                     /\ pub[s] # None => gone[s][pub[s]] = 0

\* No step but Tick makes the last publication longer ago.
NotOlder == \A s \in Slugs, p \in Ports : gone'[s][p] \in {0, gone[s][p]}

LEMMA ZeroTick == 0 \in 0..CacheTicks /\ 0 # Never /\ CacheTicks \in Nat /\ Never = CacheTicks + 1
  BY BrokerAssumption DEF Never

LEMMA CommandPublished ==
    ASSUME DockerType, Published, NEW s \in Slugs, NoEffect \/ DockerDoes(s)
    PROVE  Published' /\ NotOlder
  <1>0. None \notin Ports
    BY BrokerAssumption
  <1>1. CASE Runs(s)
    <2>1. PICK p \in Ports : /\ pub' = [pub EXCEPT ![s] = p]
                             /\ gone' = [gone EXCEPT ![s][p] = 0]
      BY <1>1 DEF Runs
    <2>2. ctr' = [ctr EXCEPT ![s] = "running"]
      BY <1>1 DEF Runs
    <2>3. /\ ctr'[s] = "running" /\ pub'[s] = p /\ gone'[s][p] = 0
          /\ \A x \in Slugs \ {s} : ctr'[x] = ctr[x] /\ pub'[x] = pub[x] /\ gone'[x] = gone[x]
          /\ \A q \in Ports : gone'[s][q] \in {0, gone[s][q]}
      BY <2>1, <2>2 DEF DockerType
    <2>4. QED BY <1>0, <2>3 DEF Published, NotOlder
  <1>2. CASE NoEffect \/ VolumeRemoved(s)
    BY <1>2 DEF NoEffect, dockerVars, VolumeRemoved, Published, NotOlder
  <1>3. CASE Stopped(s) \/ Removed(s)
    <2>1. gone' = gone /\ pub' = [pub EXCEPT ![s] = None]
      BY <1>3 DEF Stopped, Removed
    <2>2. ctr'[s] # "running" /\ \A x \in Slugs \ {s} : ctr'[x] = ctr[x]
      BY <1>3 DEF Stopped, Removed, DockerType
    <2>3. pub'[s] = None /\ \A x \in Slugs \ {s} : pub'[x] = pub[x]
      BY <2>1 DEF DockerType
    <2>4. QED BY <2>1, <2>2, <2>3 DEF Published, NotOlder
  <1>4. CASE LeftCreated(s)
    BY <1>4 DEF LeftCreated, DockerType, Published, NotOlder
  <1>5. QED BY <1>1, <1>2, <1>3, <1>4 DEF DockerDoes, Created, Started

LEMMA PublishedMove ==
    ASSUME Typed, Published, NEW t \in Threads, Proceed(t) \/ Arrive(t)
    PROVE  Published' /\ NotOlder
  <1>1. CASE NoEffect
    BY <1>1 DEF NoEffect, dockerVars, Published, NotOlder
  <1>2. CASE \E s \in Slugs : DockerDoes(s)
    BY <1>2, CommandPublished DEF Typed
  <1>3. QED BY <1>1, <1>2, ProceedDocker

\* Time passes for the ports that are not published.
LEMMA TickGone ==
    ASSUME DockerType, Published, Tick
    PROVE  /\ Published'
           /\ \A s \in Slugs, p \in Ports :
                 gone'[s][p] \in {0, gone[s][p]} \/ (gone[s][p] < CacheTicks
                                                     /\ gone'[s][p] = gone[s][p] + 1)
  <1>1. \A s \in Slugs, p \in Ports :
            gone'[s][p] = IF pub[s] = p THEN 0 ELSE Older(gone[s][p])
    BY DEF Tick
  <1>2. ctr' = ctr /\ pub' = pub
    BY DEF Tick
  <1>3. Published'
    BY <1>1, <1>2 DEF Published, DockerType
  <1>4. QED BY <1>1, <1>3 DEF Older

\* What the rest of the world does to docker and to the broker's memory.
LEMMA WorldPublished ==
    ASSUME Typed, Published, Environment, ~Tick
    PROVE  Published' /\ NotOlder
  <1>1. CASE \E s \in Slugs : ContainerExits(s)
    BY <1>1, CommandPublished DEF ContainerExits, DockerDoes, Typed
  <1>2. CASE pub' = pub /\ ctr' = ctr /\ gone' = gone
    BY <1>2 DEF Published, NotOlder
  <1>3. CASE BrokerRestart \/ \E o \in Obj : SeenExpires(o)
    BY <1>2, <1>3 DEF BrokerRestart, SeenExpires, NoEffect, dockerVars
  <1>4. CASE Rollout \/ \E s \in Slugs : UserWorks(s) \/ BeatExpires(s)
    BY <1>2, <1>4 DEF Rollout, UserWorks, BeatExpires
  <1>5. QED BY <1>1, <1>3, <1>4 DEF Environment

LEMMA WorldMoved ==
    ASSUME Typed, Environment, ~Tick
    PROVE  \/ BrokerRestart
           \/ /\ th' = th /\ table' = table /\ lock' = lock /\ serving' = serving
              /\ \A o \in Obj : /\ heap'[o].slug = heap[o].slug /\ heap'[o].port = heap[o].port
                                /\ heap'[o].status = heap[o].status /\ heap'[o].age = heap[o].age
  <1>1. ASSUME NEW x \in Obj, SeenExpires(x)
        PROVE  \A o \in Obj : /\ heap'[o].slug = heap[o].slug /\ heap'[o].port = heap[o].port
                              /\ heap'[o].status = heap[o].status /\ heap'[o].age = heap[o].age
    BY <1>1 DEF SeenExpires, Typed, MemoryInv, WellFormed, Session
  <1>2. QED BY <1>1 DEF Environment, SeenExpires, Rollout, UserWorks, BeatExpires, ContainerExits

LEMMA TickMoved ==
    ASSUME Typed, Tick
    PROVE  /\ table' = table /\ lock' = lock /\ serving' = serving /\ ctr' = ctr /\ pub' = pub
           /\ \A o \in Obj : /\ heap'[o].slug = heap[o].slug /\ heap'[o].port = heap[o].port
                             /\ heap'[o].status = heap[o].status
                             /\ heap'[o].age = Older(heap[o].age)
           /\ \A t \in Threads :
                 /\ th'[t].pc = th[t].pc /\ th'[t].slug = th[t].slug /\ th'[t].ref = th[t].ref
                 /\ th'[t].val = th[t].val /\ th'[t].op = th[t].op /\ th'[t].snap = th[t].snap
                 /\ th'[t].todo = th[t].todo
                 /\ th'[t].clk = IF th[t].pc \in {"rowPort", "rowWrite"} THEN Older(th[t].clk)
                                                                       ELSE th[t].clk
  <1>1. ASSUME NEW r \in Session
        PROVE  LET n == [r EXCEPT !.age = Older(@)]
               IN  n.slug = r.slug /\ n.port = r.port /\ n.status = r.status /\ n.age = Older(r.age)
    BY DEF Session
  <1>2. ASSUME NEW r \in Thread, NEW c
        PROVE  LET n == [r EXCEPT !.clk = c]
               IN  /\ n.pc = r.pc /\ n.slug = r.slug /\ n.ref = r.ref /\ n.val = r.val /\ n.op = r.op
                   /\ n.snap = r.snap /\ n.todo = r.todo /\ n.clk = c
    BY DEF Thread
  <1>3. heap \in [Obj -> Session] /\ th \in [Threads -> Thread]
    BY DEF Typed, MemoryInv, WellFormed
  <1>4. \A o \in Obj : heap'[o] = [heap[o] EXCEPT !.age = Older(@)]
    BY DEF Tick
  <1>5. \A t \in Threads : th'[t] = [th[t] EXCEPT !.clk =
            IF th[t].pc \in {"rowPort", "rowWrite"} THEN Older(@) ELSE @]
    BY DEF Tick
  <1>6. \A o \in Obj : /\ heap'[o].slug = heap[o].slug /\ heap'[o].port = heap[o].port
                       /\ heap'[o].status = heap[o].status
                       /\ heap'[o].age = Older(heap[o].age)
    BY <1>1, <1>3, <1>4
  <1>7. ASSUME NEW t \in Threads
        PROVE    /\ th'[t].pc = th[t].pc /\ th'[t].slug = th[t].slug /\ th'[t].ref = th[t].ref
                 /\ th'[t].val = th[t].val /\ th'[t].op = th[t].op /\ th'[t].snap = th[t].snap
                 /\ th'[t].todo = th[t].todo
                 /\ th'[t].clk = IF th[t].pc \in {"rowPort", "rowWrite"} THEN Older(th[t].clk)
                                                                       ELSE th[t].clk
    <2> DEFINE c == IF th[t].pc \in {"rowPort", "rowWrite"} THEN Older(th[t].clk) ELSE th[t].clk
    <2>1. th'[t] = [th[t] EXCEPT !.clk = c]
      BY <1>5
    <2> HIDE DEF c
    <2>2. th[t] \in Thread
      BY <1>3
    <2>3. /\ th'[t].pc = th[t].pc /\ th'[t].slug = th[t].slug /\ th'[t].ref = th[t].ref
          /\ th'[t].val = th[t].val /\ th'[t].op = th[t].op /\ th'[t].snap = th[t].snap
          /\ th'[t].todo = th[t].todo /\ th'[t].clk = c
      BY <1>2, <2>1, <2>2
    <2>4. QED BY <2>3 DEF c
  <1>8. QED BY <1>6, <1>7 DEF Tick

-----------------------------------------------------------------------------
(* OwnPort: ports come from docker's answer about the object's own slug and *)
(* are handed on only between a thread and its object, which have the same  *)
(* slug.  A thread has a port in its hands only while it waits for health   *)
(* and while it fills in a row.                                             *)

ValInUse == \A t \in Threads : th[t].val # None => th[t].pc \in {"health", "rowWrite"}

Owns(s, p) == s # None /\ gone[s][p] # Never

PortsOwned ==
    /\ Published /\ ValInUse
    /\ \A o \in Obj : heap[o].port # None => Owns(heap[o].slug, heap[o].port)
    /\ \A t \in Threads : th[t].val # None => Owns(th[t].slug, th[t].val)

\* Where a thread's port comes from.
LEMMA ValMove ==
    ASSUME Typed, ValInUse, NEW t \in Threads, Moved(t)
    PROVE  \/ th'[t].val = None
           \/ /\ th[t].pc = "recheck"
              /\ th'[t].pc = "health" /\ th'[t].val = Sess(t).port
              /\ th'[t].slug = th[t].slug /\ th'[t].ref = th[t].ref /\ th'[t].clk = th[t].clk
           \/ /\ th[t].pc = "rowPort"
              /\ th'[t].pc = "rowWrite" /\ th'[t].val = pub[th[t].slug]
              /\ th'[t].slug = th[t].slug /\ th'[t].ref = th[t].ref /\ th'[t].clk = th[t].clk
  <1>0. th[t] \in Thread
    BY ThreadsTyped
  <1>1. Idle.val = None /\ ToPick.val = None
    BY DEF Idle, ToPick
  <1>2. th[t].pc \in {"health", "rowWrite"} \/ th[t].val = None
    BY DEF ValInUse
  <1>3. CASE Ends(t) \/ Starts(t) \/ Reaps(t) \/ Refused(t)
    BY <1>1, <1>2, <1>3 DEF Ends, Starts, Reaps, Refused
  <1>4. CASE GoesOn(t)
    BY <1>0, <1>2, <1>4 DEF GoesOn, Arc, Thread
  <1>5. CASE ReadsRows(t)
    <2>1. CASE th[t].pc = "row"
      BY <1>0, <1>2, <1>5, <2>1 DEF ReadsRows, Thread
    <2>2. CASE th[t].pc = "rowPort"
      BY <1>0, <1>5, <2>2 DEF ReadsRows, Thread
    <2>3. CASE th[t].pc = "rowWrite"
      BY <1>0, <1>5, <2>3 DEF ReadsRows, Thread
    <2>4. QED BY <1>5, <2>1, <2>2, <2>3 DEF ReadsRows
  <1>6. QED BY <1>3, <1>4, <1>5 DEF Moved

\* No step but a publication changes whether a port was ever a slug's.
LEMMA OwnsKept ==
    ASSUME NotOlder \/ (Tick /\ Published), DockerType,
           NEW s \in Slugs \cup {None}, NEW p \in Ports, Owns(s, p)
    PROVE  s # None /\ gone'[s][p] # Never
  <1>1. s \in Slugs /\ s # None /\ gone[s][p] \in 0..Never /\ gone[s][p] # Never
    BY BrokerAssumption DEF Owns, DockerType
  <1>2. CASE NotOlder
    BY <1>1, <1>2, ZeroTick DEF NotOlder
  <1>3. CASE Tick /\ Published
    <2>1. gone'[s][p] \in {0, gone[s][p]} \/ (gone[s][p] < CacheTicks
                                              /\ gone'[s][p] = gone[s][p] + 1)
      BY <1>1, <1>3, TickGone
    <2>2. QED BY <1>1, <2>1, ZeroTick
  <1>4. QED BY <1>1, <1>2, <1>3

LEMMA PortsOwnedMove ==
    ASSUME Typed, Typed', PortsOwned, NEW t \in Threads, Proceed(t) \/ Arrive(t)
    PROVE  PortsOwned'
  <1>1. Published' /\ NotOlder
    BY PublishedMove DEF PortsOwned
  <1>2. Alone(t) /\ Moved(t)
    BY ThreadMove
  <1>3. heap \in [Obj -> Session] /\ th \in [Threads -> Thread] /\ DockerType
    BY DEF Typed, MemoryInv, WellFormed
  <1>4. ValInUse'
    BY <1>2, ValMove DEF PortsOwned, ValInUse, Alone
  <1>5. ASSUME NEW s \in Slugs, pub[s] # None
        PROVE  s # None /\ pub[s] \in Ports /\ gone'[s][pub[s]] # Never
    <2>1. pub[s] \in Ports /\ gone[s][pub[s]] = 0
      BY <1>3, <1>5 DEF DockerType, PortsOwned, Published
    <2>2. QED BY <1>1, <2>1, ZeroTick, BrokerAssumption DEF NotOlder
  <1>6. ASSUME NEW o \in Obj, heap[o].port # None
        PROVE  heap[o].slug # None /\ gone'[heap[o].slug][heap[o].port] # Never
    <2>1. heap[o].slug \in Slugs \cup {None} /\ heap[o].port \in Ports
      BY <1>3, <1>6 DEF Session
    <2>2. Owns(heap[o].slug, heap[o].port)
      BY <1>6 DEF PortsOwned
    <2>3. QED BY <1>1, <1>3, <2>1, <2>2, OwnsKept
  <1>7. ASSUME NEW u \in Threads, th[u].val # None
        PROVE  th[u].slug # None /\ gone'[th[u].slug][th[u].val] # Never
    <2>1. th[u].slug \in Slugs \cup {None} /\ th[u].val \in Ports
      BY <1>3, <1>7 DEF Thread
    <2>2. Owns(th[u].slug, th[u].val)
      BY <1>7 DEF PortsOwned
    <2>3. QED BY <1>1, <1>3, <2>1, <2>2, OwnsKept
  <1>8. ASSUME th[t].ref # None
        PROVE  th[t].slug \in Slugs /\ Sess(t) = heap[th[t].ref] /\ th[t].ref \in Obj
               /\ heap[th[t].ref].slug = th[t].slug
    BY <1>8, Holding DEF Typed, Sess
  <1>9. ASSUME NEW o \in Obj, heap'[o].port # None
        PROVE  heap'[o].slug # None /\ gone'[heap'[o].slug][heap'[o].port] # Never
    <2>0. Written(t, o)
      BY HeapMove
    <2>1. CASE heap'[o] = heap[o]
      BY <1>6, <1>9, <2>1
    <2>2. heap'[o] # Collected /\ ~Blanked(t, o)
      BY <1>9 DEF Collected, NewSession, Blanked
    <2>3. CASE Touched(t, o) \/ Confirmed(t, o)
      <3>1. heap'[o].port = heap[o].port /\ heap'[o].slug = heap[o].slug
        BY <1>3, <2>3 DEF Touched, Confirmed, Session
      <3>2. QED BY <1>6, <1>9, <3>1
    <2>4. CASE PortWritten(t, o)
      <3>1. th[t].ref # None
        BY <2>4, BusyHolds DEF PortWritten, Typed
      <3>2. CASE pub[th[t].slug] # None /\ heap'[o] = [heap[o] EXCEPT !.port = pub[th[t].slug]]
        <4>1. heap'[o].port = pub[th[t].slug] /\ heap'[o].slug = heap[o].slug
          BY <1>3, <3>2 DEF Session
        <4>2. o = th[t].ref
          BY <2>4 DEF PortWritten
        <4>3. QED BY <1>5, <1>8, <3>1, <3>2, <4>1, <4>2
      <3>3. CASE heap'[o] = [heap[o] EXCEPT !.status = "stopped"]
        <4>1. heap'[o].port = heap[o].port /\ heap'[o].slug = heap[o].slug
          BY <1>3, <3>3 DEF Session
        <4>2. QED BY <1>6, <1>9, <4>1
      <3>4. QED BY <2>4, <3>2, <3>3 DEF PortWritten
    <2>5. CASE RowWritten(t, o)
      <3>1. th[t].ref # None /\ o = th[t].ref
        BY <2>5, BusyHolds DEF RowWritten, Typed
      <3>2. Sess(t) \in Session /\ heap'[o] = FromRow(t)
        BY <2>5, <3>1, Holding DEF RowWritten, Typed
      <3>3. heap'[o].port = th[t].val /\ heap'[o].slug = th[t].slug
        BY <1>8, <3>1, <3>2 DEF FromRow, Session
      <3>4. QED BY <1>7, <1>9, <3>3
    <2>6. QED BY <2>0, <2>1, <2>2, <2>3, <2>4, <2>5 DEF Written
  <1>10. ASSUME NEW u \in Threads, th'[u].val # None
         PROVE  th'[u].slug # None /\ gone'[th'[u].slug][th'[u].val] # Never
    <2>1. CASE u # t
      BY <1>2, <1>7, <1>10, <2>1 DEF Alone
    <2>2. CASE u = t /\ th[t].pc = "recheck" /\ th'[t].slug = th[t].slug /\ th'[t].val = Sess(t).port
      <3>1. th[t].ref # None
        BY <2>2, BusyHolds DEF Typed
      <3>2. QED BY <1>6, <1>8, <1>10, <2>2, <3>1
    <2>3. CASE u = t /\ th[t].pc = "rowPort" /\ th'[t].slug = th[t].slug
               /\ th'[t].val = pub[th[t].slug]
      <3>1. th[t].ref # None
        BY <2>3, BusyHolds DEF Typed
      <3>2. QED BY <1>5, <1>8, <1>10, <2>3, <3>1
    <2>4. QED BY <1>2, <1>10, <2>1, <2>2, <2>3, ValMove DEF PortsOwned
  <1>11. QED BY <1>1, <1>4, <1>9, <1>10 DEF PortsOwned, Owns

LEMMA PortsOwnedStep ==
    ASSUME Typed, Typed', PortsOwned, [Next]_vars
    PROVE  PortsOwned'
  <1>1. CASE \E t \in Threads : Proceed(t) \/ Arrive(t)
    BY <1>1, PortsOwnedMove
  <1>2. heap \in [Obj -> Session] /\ th \in [Threads -> Thread] /\ DockerType /\ Published
    BY DEF Typed, MemoryInv, WellFormed, PortsOwned
  <1>3. ASSUME NotOlder \/ Tick, Published',
               \A o \in Obj : heap'[o].slug = heap[o].slug /\ heap'[o].port = heap[o].port,
               \A t \in Threads : /\ th'[t].pc = th[t].pc /\ th'[t].slug = th[t].slug
                                  /\ th'[t].val = th[t].val
        PROVE  PortsOwned'
    <2>1. \A o \in Obj : heap[o].slug \in Slugs \cup {None} /\ heap[o].port \in Ports \cup {None}
      BY <1>2 DEF Session
    <2>2. \A t \in Threads : th[t].slug \in Slugs \cup {None} /\ th[t].val \in Ports \cup {None}
      BY <1>2 DEF Thread
    <2>3. \A s \in Slugs \cup {None}, p \in Ports : Owns(s, p) => s # None /\ gone'[s][p] # Never
      BY <1>2, <1>3, OwnsKept
    <2>4. QED BY <1>3, <2>1, <2>2, <2>3 DEF PortsOwned, ValInUse, Owns
  <1>4. CASE Tick
    BY <1>2, <1>3, <1>4, TickGone, TickMoved
  <1>5. CASE Environment /\ ~Tick /\ ~BrokerRestart
    BY <1>2, <1>3, <1>5, WorldPublished, WorldMoved
  <1>6. CASE BrokerRestart
    <2>1. pub' = pub /\ ctr' = ctr /\ gone' = gone
      BY <1>6 DEF BrokerRestart, NoEffect, dockerVars
    <2>2. /\ \A o \in Obj : heap'[o].port = None
          /\ \A t \in Threads : th'[t].val = None
      BY <1>6 DEF BrokerRestart, Collected, NewSession, Idle
    <2>3. QED BY <1>2, <2>1, <2>2 DEF PortsOwned, Published, ValInUse
  <1>7. CASE UNCHANGED vars
    <2>1. UNCHANGED <<heap, th>> /\ UNCHANGED <<pub, ctr, gone>>
      BY <1>7 DEF vars
    <2>2. QED BY <2>1 DEF PortsOwned, Published, ValInUse, Owns
  <1>8. QED BY <1>1, <1>4, <1>5, <1>6, <1>7 DEF Next, Environment

LEMMA PortsOwnedInit == Init => PortsOwned
  BY IdleType DEF Init, PortsOwned, Published, ValInUse, Collected, NewSession, Idle

(* No session object ever carries a port that was not published by its own  *)
(* slug's container, with every fault, request and the reaper allowed.      *)
THEOREM OwnPortAlways == Spec => []OwnPort
  <1>1. PortsOwned => OwnPort
    BY DEF PortsOwned, OwnPort, Owns
  <1>2. Typed /\ Typed' /\ PortsOwned /\ [Next]_vars => PortsOwned'
    BY PortsOwnedStep
  <1>3. QED BY <1>1, <1>2, PortsOwnedInit, AlwaysTyped, PTL DEF Spec

-----------------------------------------------------------------------------
(* CacheHonest.  Without list requests and reaper rounds the only reconcile *)
(* is the one before serving; clients are idle meanwhile.                   *)

NoReconcile == "list" \notin Ops /\ ~ReaperOn

RowPCs == {"row", "rowPort", "rowWrite"}

BootOnly ==
    /\ \A c \in Clients : th[c].pc \notin RowPCs \cup {"pick", "beat"}
    /\ ~serving => \A c \in Clients : th[c].pc = "idle"
    /\ th[Reaper].pc \in RowPCs \cup {"idle"}
    /\ th[Reaper].pc # "idle" => ~serving /\ th[Reaper].op = "boot"

\* Serving starts when a reconcile, or the attempt at one, ends.
LEMMA ServingMove ==
    ASSUME Typed, NEW t \in Threads, Proceed(t) \/ Arrive(t)
    PROVE  \/ serving' = serving
           \/ serving' = TRUE /\ th'[t].pc = "idle" /\ (th[t].pc \in RowPCs \/ t = Reaper)
  <1>1. CASE \E tab, failed : ReconcileEnds(t, tab, failed) /\ th[t].pc \in RowPCs
    <2>1. PICK tab, failed : ReconcileEnds(t, tab, failed)
      BY <1>1
    <2>2. serving' = (serving \/ th[t].op = "boot") /\ serving \in BOOLEAN
      BY <2>1 DEF ReconcileEnds, Typed, LockType
    <2>3. CASE th[t].op = "boot"
      <3>1. th'[t] = Idle
        BY <2>1, <2>3, ThreadsTyped DEF ReconcileEnds, Memory
      <3>2. QED BY <1>1, <2>2, <2>3, <3>1, IdleType
    <2>4. QED BY <2>2, <2>3
  <1>2. ASSUME NEW op \in Requests \cup {"boot", "reap"}, Snapshot(t, op)
        PROVE  \/ serving' = serving
               \/ serving' = TRUE /\ th'[t].pc = "idle" /\ t = Reaper
    <2>1. CASE UNCHANGED serving
      BY <2>1
    <2>2. CASE serving' = (serving \/ op = "boot") /\ th' = th
      <3>1. th[t].pc = "idle" /\ (op = "list" \/ t = Reaper) /\ serving \in BOOLEAN
        BY <1>2 DEF Snapshot, Typed, LockType
      <3>2. QED BY <2>2, <3>1
    <2>3. QED BY <1>2, <2>1, <2>2 DEF Snapshot
  <1>3. CASE ReconcileStep(t)
    BY <1>1, <1>3 DEF ReconcileStep, Row, RowPort, RowWrite, DropUnseen, RowPCs
  <1>4. CASE Acquire(t) \/ EnsureStep(t) \/ StopStep(t) \/ ReapStep
             \/ \E s \in Slugs, op \in Requests : Begin(t, s, op)
    BY <1>4 DEF Acquire, EnsureStep, CacheHit, Inspect, CompareImage, Replace, Admit,
                CreateContainer, StartContainer, ReadPort, Recheck, WaitHealthy, Confirm, Reply,
                StopStep, StopContainer, StopDone, RemoveContainer, RemoveVolume, PopSession,
                ReapStep, Pick, RoundOver, ReadHeartbeat, Begin, Raise, Goto, WithStarted
  <1>5. QED BY <1>2, <1>3, <1>4 DEF Proceed, Arrive

\* Where a client and the reaper may go next.
LEMMA ClientMoves ==
    ASSUME Typed, NoReconcile, BootOnly, NEW t \in Clients, Moved(t)
    PROVE  /\ th'[t].pc \notin RowPCs \cup {"pick", "beat"}
           /\ ~serving => th'[t].pc = "idle"
  <1>0. t \in Threads /\ t # Reaper /\ th[t] \in Thread
    BY ThreadsTyped, BrokerAssumption DEF Threads
  <1>1. th[t].pc \notin RowPCs \cup {"pick", "beat"} /\ (~serving => th[t].pc = "idle")
    BY DEF BootOnly
  <1>2. CASE Ends(t)
    BY <1>0, <1>1, <1>2, IdleType DEF Ends, RowPCs
  <1>3. CASE Starts(t)
    BY <1>0, <1>3 DEF Starts, NoReconcile, RowPCs
  <1>4. CASE GoesOn(t)
    <2>1. th[t].pc # "idle"
      BY <1>4 DEF GoesOn, Arc
    <2>2. th'[t].pc \notin RowPCs \cup {"pick", "beat"}
      <3>1. CASE \E where \in PCs : Arc(th[t].pc, where) /\ th'[t] = [th[t] EXCEPT !.pc = where]
        <4>1. PICK where \in PCs : Arc(th[t].pc, where) /\ th'[t] = [th[t] EXCEPT !.pc = where]
          BY <3>1
        <4>2. th'[t].pc = where
          BY <1>0, <4>1 DEF Thread
        <4>3. QED BY <4>1, <4>2 DEF Arc, RowPCs
      <3>2. QED BY <1>0, <1>4, <3>1 DEF GoesOn, RowPCs, Thread
    <2>3. QED BY <1>1, <2>1, <2>2
  <1>5. ~ReadsRows(t) /\ ~Reaps(t)
    BY <1>0, <1>1 DEF ReadsRows, RowPCs, Reaps
  <1>6. CASE Refused(t)
    BY <1>1, <1>6 DEF Refused
  <1>7. QED BY <1>2, <1>3, <1>4, <1>5, <1>6 DEF Moved

LEMMA ReaperMoves ==
    ASSUME Typed, NoReconcile, BootOnly, Moved(Reaper)
    PROVE  /\ th'[Reaper].pc \in RowPCs \cup {"idle"}
           /\ th'[Reaper].pc # "idle" => ~serving /\ th'[Reaper].op = "boot"
  <1>0. Reaper \in Threads /\ Reaper \notin Clients /\ th[Reaper] \in Thread
    BY ThreadsTyped, BrokerAssumption DEF Threads
  <1>1. /\ th[Reaper].pc \in RowPCs \cup {"idle"}
        /\ th[Reaper].pc # "idle" => ~serving /\ th[Reaper].op = "boot"
    BY DEF BootOnly
  <1>2. CASE Ends(Reaper)
    BY <1>1, <1>2, IdleType DEF Ends, RowPCs
  <1>3. CASE Starts(Reaper)
    BY <1>0, <1>3 DEF Starts, NoReconcile, RowPCs
  <1>4. ~GoesOn(Reaper) /\ ~Reaps(Reaper)
    BY <1>1 DEF GoesOn, Arc, Reaps, RowPCs
  <1>5. CASE ReadsRows(Reaper)
    <2>1. th[Reaper].pc # "idle"
      BY <1>5 DEF ReadsRows
    <2>2. th'[Reaper].pc \in RowPCs /\ th'[Reaper].op = th[Reaper].op
      BY <1>0, <1>5 DEF ReadsRows, RowPCs, Thread
    <2>3. QED BY <1>1, <2>1, <2>2
  <1>6. CASE Refused(Reaper)
    BY <1>6 DEF Refused
  <1>7. QED BY <1>2, <1>3, <1>4, <1>5, <1>6 DEF Moved

LEMMA BootOnlyMove ==
    ASSUME Typed, NoReconcile, BootOnly, NEW t \in Threads, Proceed(t) \/ Arrive(t)
    PROVE  BootOnly'
  <1>1. Alone(t) /\ Moved(t)
    BY ThreadMove
  <1>2. Reaper \in Threads /\ Reaper \notin Clients /\ serving \in BOOLEAN
    BY BrokerAssumption DEF Threads, Typed, LockType
  <1>3. CASE t \in Clients
    <2>1. th'[Reaper] = th[Reaper] /\ \A c \in Clients \ {t} : th'[c] = th[c]
      BY <1>1, <1>2, <1>3 DEF Alone, Threads
    <2>2. /\ th'[t].pc \notin RowPCs \cup {"pick", "beat"}
          /\ ~serving => th'[t].pc = "idle"
      BY <1>1, <1>3, ClientMoves
    <2>3. serving' = serving
      BY <1>2, <1>3, ServingMove DEF BootOnly
    <2>4. QED BY <2>1, <2>2, <2>3 DEF BootOnly
  <1>4. CASE t = Reaper
    <2>1. \A c \in Clients : th'[c] = th[c]
      BY <1>1, <1>2, <1>4 DEF Alone, Threads
    <2>2. /\ th'[Reaper].pc \in RowPCs \cup {"idle"}
          /\ th'[Reaper].pc # "idle" => ~serving /\ th'[Reaper].op = "boot"
      BY <1>1, <1>4, ReaperMoves
    <2>3. serving' = serving \/ (serving' = TRUE /\ th'[Reaper].pc = "idle")
      BY <1>4, ServingMove
    <2>4. QED BY <2>1, <2>2, <2>3 DEF BootOnly
  <1>5. QED BY <1>3, <1>4 DEF Threads

LEMMA BootOnlyStep ==
    ASSUME Typed, NoReconcile, BootOnly, [Next]_vars
    PROVE  BootOnly'
  <1>0. Clients \subseteq Threads /\ Reaper \in Threads
    BY DEF Threads
  <1>1. CASE \E t \in Threads : Proceed(t) \/ Arrive(t)
    BY <1>1, BootOnlyMove
  <1>2. CASE BrokerRestart
    <2>1. \A t \in Threads : th'[t].pc = "idle"
      BY <1>2, IdleType DEF BrokerRestart
    <2>2. QED BY <1>0, <2>1 DEF BootOnly, RowPCs
  <1>3. CASE Tick
    <2>1. serving' = serving /\ \A t \in Threads : th'[t].pc = th[t].pc /\ th'[t].op = th[t].op
      BY <1>3, TickMoved
    <2>2. QED BY <1>0, <2>1 DEF BootOnly
  <1>4. CASE Environment /\ ~Tick /\ ~BrokerRestart
    BY <1>4, WorldMoved DEF BootOnly
  <1>5. CASE UNCHANGED vars
    BY <1>5 DEF vars, BootOnly
  <1>6. QED BY <1>1, <1>2, <1>3, <1>4, <1>5 DEF Next

-----------------------------------------------------------------------------
(* Between reading the port and confirming the session nothing may touch    *)
(* the container, its port or the session object.                           *)

AfterPort == {"recheck", "health", "confirm"}

Sure(t) ==
    th[t].pc \in AfterPort =>
        /\ pub[th[t].slug] # None /\ heap[th[t].ref].port = pub[th[t].slug]
        /\ th[t].pc = "health" => th[t].val = pub[th[t].slug]

SureOfPort == \A t \in Threads : Sure(t)

Acts == {"replace", "create", "start", "stop", "rm", "volrm"}

\* A step of t changes docker only for the slug it acts on.
LEMMA DockerLocal ==
    ASSUME Typed, NEW t \in Threads, Proceed(t) \/ Arrive(t), NEW s \in Slugs
    PROVE  (ctr'[s] = ctr[s] /\ pub'[s] = pub[s]) \/ (th[t].pc \in Acts /\ th[t].slug = s)
  <1>1. CASE NoEffect
    BY <1>1 DEF NoEffect, dockerVars
  <1>2. CASE th[t].pc \in Acts /\ DockerDoes(th[t].slug)
    <2>1. th[t].slug \in Slugs
      BY <1>2, BusyHolds, Holding DEF Typed, Acts
    <2>2. \A x \in Slugs \ {th[t].slug} : pub'[x] = pub[x]
      BY <1>2, <2>1 DEF Typed, DockerType, DockerDoes, NoEffect, dockerVars, Created, Runs,
                        Started, Stopped, Removed, VolumeRemoved, LeftCreated
    <2>3. \A x \in Slugs \ {th[t].slug} : ctr'[x] = ctr[x]
      BY <1>2, <2>1, CommandLocal DEF Typed
    <2>4. QED BY <1>2, <2>2, <2>3
  <1>3. CASE Replace(t) \/ CreateContainer(t) \/ StartContainer(t) \/ StopContainer(t)
             \/ RemoveContainer(t) \/ RemoveVolume(t)
    BY <1>2, <1>3 DEF Replace, CreateContainer, StartContainer, StopContainer, RemoveContainer,
                RemoveVolume, DockerDoes, Acts
  <1>4. CASE Arrive(t)
    BY <1>1, <1>4 DEF Arrive, Begin, Snapshot, NoEffect
  <1>5. CASE CacheHit(t) \/ Acquire(t) \/ Inspect(t) \/ CompareImage(t) \/ Admit(t)
             \/ ReadPort(t) \/ Recheck(t) \/ WaitHealthy(t) \/ Confirm(t) \/ Reply(t)
    BY <1>1, <1>5 DEF CacheHit, Acquire, Inspect, CompareImage, Admit, ReadPort,
                Recheck, WaitHealthy, Confirm, Reply, NoEffect
  <1>6. CASE ReconcileStep(t) \/ ReapStep
    BY <1>1, <1>6 DEF ReconcileStep, Row, RowPort, RowWrite, DropUnseen, ReapStep, Pick,
                RoundOver, ReadHeartbeat
  <1>7. QED BY <1>3, <1>4, <1>5, <1>6 DEF Proceed, EnsureStep, StopStep

\* A lock excludes the others from the slug's object as well.
LEMMA NotMine ==
    ASSUME Typed, MutualExclusion, NEW t \in Threads, NEW u \in Threads \ {t},
           th[u].pc \in Critical, th[t].pc \in Critical
    PROVE  th[t].slug # th[u].slug /\ th[t].ref # th[u].ref
  <1>1. th[u].slug \in Slugs /\ heap[th[u].ref].slug = th[u].slug
    BY BusyHolds, Holding DEF Typed, Critical, Sess
  <1>2. heap[th[t].ref].slug = th[t].slug
    BY BusyHolds, Holding DEF Typed, Critical, Sess
  <1>3. lock[th[u].slug] = u
    BY <1>1 DEF MutualExclusion
  <1>4. th[t].slug # th[u].slug
    BY <1>1, <1>3 DEF MutualExclusion
  <1>5. QED BY <1>1, <1>2, <1>4

\* An object in a thread's hands is not collected.
LEMMA HeldNotCollected ==
    ASSUME Typed', NEW t \in Threads, th'[t].ref # None
    PROVE  heap'[th'[t].ref] # Collected
  <1>1. heap'[th'[t].ref].slug = th'[t].slug /\ th'[t].slug \in Slugs
    BY DEF Typed, MemoryInv, WellFormed
  <1>2. QED BY <1>1, BrokerAssumption DEF Collected, NewSession

LEMMA OthersSure ==
    ASSUME Typed, Typed', MutualExclusion, BootOnly,
           NEW t \in Threads, NEW u \in Threads \ {t}, Proceed(t) \/ Arrive(t), Sure(u)
    PROVE  Sure(u)'
  <1>0. th'[u] = th[u]
    BY ThreadMove DEF Alone
  <1> SUFFICES ASSUME th[u].pc \in AfterPort PROVE Sure(u)'
    BY <1>0 DEF Sure
  <1>1. th[u].pc \in Critical /\ th[u].ref # None
    BY BusyHolds DEF AfterPort, Critical, Typed
  <1>2. th[u].slug \in Slugs /\ th[u].ref \in Obj /\ heap[th[u].ref].slug = th[u].slug
    BY <1>1, Holding DEF Typed, Sess
  <1>3. pub'[th[u].slug] = pub[th[u].slug]
    BY <1>1, <1>2, DockerLocal, NotMine DEF Acts, Critical
  <1> DEFINE o == th[u].ref
  <1>4. heap'[o].port = heap[o].port
    <2>1. Written(t, o)
      BY <1>2, HeapMove
    <2>2. heap'[o] # Collected
      BY <1>0, <1>1, HeldNotCollected
    <2>3. th[t].pc \in Critical => o # th[t].ref
      BY <1>1, NotMine
    <2>4. th[t].pc \notin RowPCs
      <3>1. u \in Clients \/ u = Reaper
        BY DEF Threads
      <3>2. th[u].pc \notin RowPCs \cup {"idle"}
        BY DEF AfterPort, RowPCs
      <3>3. u \in Clients /\ serving
        BY <3>1, <3>2 DEF BootOnly
      <3>4. t \in Clients \/ t = Reaper
        BY DEF Threads
      <3>5. QED BY <3>3, <3>4 DEF BootOnly, RowPCs
    <2>5. ~Blanked(t, o) /\ ~PortWritten(t, o) /\ ~Confirmed(t, o) /\ ~RowWritten(t, o)
      BY <1>2, <2>3, <2>4, BrokerAssumption DEF Blanked, PortWritten, Confirmed, RowWritten,
              Critical, RowPCs
    <2>6. heap[o] \in Session
      BY <1>2 DEF Typed, MemoryInv, WellFormed
    <2>7. QED BY <2>1, <2>2, <2>5, <2>6 DEF Written, Touched, Session
  <1>5. QED BY <1>0, <1>3, <1>4 DEF Sure

\* A port that was read is the published one, and is kept in the object.
LEMMA PortGot ==
    ASSUME Typed, NEW t \in Threads, ReadPort(t), th'[t].pc # "idle"
    PROVE  /\ pub[th[t].slug] # None /\ pub' = pub
           /\ heap'[th[t].ref] \in {Collected, [Sess(t) EXCEPT !.port = pub[th[t].slug]]}
  <1>1. th[t].ref # None /\ th[t].ref \in Obj
    BY BusyHolds, Holding DEF ReadPort, Typed
  <1>2. ~Raise(t)
    BY ThreadsTyped, IdleType DEF Raise, Memory
  <1>3. ~\E h : Memory(h, table, [th EXCEPT ![t] = Idle], cands)
    BY ThreadsTyped, IdleType DEF Memory
  <1>4. pub[th[t].slug] # None /\ pub' = pub
        /\ \E T : Memory(Put(t, [Sess(t) EXCEPT !.port = pub[th[t].slug]]), table, T, cands)
    BY <1>2, <1>3 DEF ReadPort, NoEffect, dockerVars
  <1>5. heap \in [Obj -> Session]
    BY DEF Typed, MemoryInv, WellFormed
  <1>6. Put(t, [Sess(t) EXCEPT !.port = pub[th[t].slug]])[th[t].ref]
            = [Sess(t) EXCEPT !.port = pub[th[t].slug]]
    BY <1>1, <1>5 DEF Put
  <1>7. QED BY <1>1, <1>4, <1>6, KeptOrCollected

LEMMA SelfSure ==
    ASSUME Typed, Typed', NEW t \in Threads, Proceed(t) \/ Arrive(t), Sure(t),
           th'[t].pc \in AfterPort
    PROVE  Sure(t)'
  <1>0. th[t] \in Thread /\ Moved(t)
    BY ThreadsTyped, ThreadMove
  <1>1. /\ th[t].pc \in {"port", "recheck", "health"}
        /\ th'[t].slug = th[t].slug /\ th'[t].ref = th[t].ref
        /\ th'[t].pc = "health" => th[t].pc = "recheck" /\ th'[t].val = Sess(t).port
    <2>1. CASE Ends(t) \/ Starts(t) \/ Reaps(t) \/ Refused(t)
      BY <2>1, IdleType DEF Ends, Starts, Reaps, Refused, AfterPort, ToPick, Idle
    <2>2. CASE GoesOn(t)
      BY <1>0, <2>2 DEF GoesOn, Arc, AfterPort, Thread
    <2>3. CASE ReadsRows(t)
      BY <1>0, <2>3 DEF ReadsRows, AfterPort, Thread
    <2>4. QED BY <1>0, <2>1, <2>2, <2>3 DEF Moved
  <1>2. th[t].ref # None /\ th[t].ref \in Obj /\ th[t].slug \in Slugs
    BY <1>1, BusyHolds, Holding DEF Typed
  <1>3. heap'[th[t].ref] # Collected
    BY <1>1, <1>2, HeldNotCollected
  <1>4. CASE th[t].pc = "port"
    <2>1. ReadPort(t)
      BY <1>4 DEF Proceed, Arrive, Begin, Snapshot, Acquire, EnsureStep, CacheHit, Inspect,
              CompareImage, Replace, Admit, CreateContainer, StartContainer, Recheck,
              WaitHealthy, Confirm, Reply, StopStep, StopContainer, RemoveContainer, RemoveVolume,
              ReconcileStep, Row, RowPort, RowWrite, DropUnseen, ReapStep, Pick, RoundOver,
              ReadHeartbeat
    <2>2. /\ pub[th[t].slug] # None /\ pub' = pub
          /\ heap'[th[t].ref] = [Sess(t) EXCEPT !.port = pub[th[t].slug]]
      BY <1>3, <2>1, PortGot DEF AfterPort
    <2>3. Sess(t) \in Session
      BY <1>2, Holding DEF Typed
    <2>4. heap'[th[t].ref].port = pub[th[t].slug]
      BY <2>2, <2>3 DEF Session
    <2>5. QED BY <1>1, <1>4, <2>2, <2>4 DEF Sure
  <1>5. CASE th[t].pc \in {"recheck", "health"}
    <2>1. pub'[th[t].slug] = pub[th[t].slug]
      BY <1>2, <1>5, DockerLocal DEF Acts
    <2>2. heap'[th[t].ref] = heap[th[t].ref]
      <3>1. Written(t, th[t].ref)
        BY <1>2, HeapMove
      <3>2. heap[th[t].ref].slug # None
        BY <1>2, Holding, BrokerAssumption DEF Typed, Sess
      <3>3. QED BY <1>3, <1>5, <3>1, <3>2 DEF Written, Blanked, Touched, PortWritten, Confirmed,
                  RowWritten
    <2>3. QED BY <1>1, <1>5, <2>1, <2>2 DEF Sure, AfterPort, Sess
  <1>6. QED BY <1>1, <1>4, <1>5

LEMMA SureStep ==
    ASSUME Typed, Typed', MutualExclusion, BootOnly, SureOfPort, "exit" \notin Faults,
           [Next]_vars
    PROVE  SureOfPort'
  <1>1. CASE \E t \in Threads : Proceed(t) \/ Arrive(t)
    <2>1. PICK t \in Threads : Proceed(t) \/ Arrive(t)
      BY <1>1
    <2>2. ASSUME NEW u \in Threads PROVE Sure(u)'
      <3>1. CASE u # t
        BY <2>1, <3>1, OthersSure DEF SureOfPort
      <3>2. CASE u = t /\ th'[t].pc \in AfterPort
        BY <2>1, <3>2, SelfSure DEF SureOfPort
      <3>3. CASE u = t /\ th'[t].pc \notin AfterPort
        BY <3>3 DEF Sure
      <3>4. QED BY <3>1, <3>2, <3>3
    <2>3. QED BY <2>2 DEF SureOfPort
  <1>2. CASE BrokerRestart
    <2>1. \A t \in Threads : th'[t].pc = "idle"
      BY <1>2, IdleType DEF BrokerRestart
    <2>2. QED BY <2>1 DEF SureOfPort, Sure, AfterPort
  <1>3. ASSUME pub' = pub,
               \A o \in Obj : heap'[o].port = heap[o].port,
               \A t \in Threads : /\ th'[t].pc = th[t].pc /\ th'[t].slug = th[t].slug
                                  /\ th'[t].val = th[t].val /\ th'[t].ref = th[t].ref
        PROVE  SureOfPort'
    <2>1. ASSUME NEW t \in Threads PROVE Sure(t)'
      <3>1. CASE th[t].pc \in AfterPort
        <4>1. th[t].ref \in Obj
          BY <3>1, BusyHolds, Holding DEF Typed, AfterPort
        <4>2. QED BY <1>3, <3>1, <4>1 DEF SureOfPort, Sure
      <3>2. QED BY <1>3, <3>1 DEF Sure
    <2>2. QED BY <2>1 DEF SureOfPort
  <1>4. CASE Tick
    BY <1>3, <1>4, TickMoved
  <1>5. CASE Environment /\ ~Tick /\ ~BrokerRestart
    <2>1. pub' = pub
      BY <1>5 DEF Environment, SeenExpires, UserWorks, BeatExpires, ContainerExits, Rollout,
              NoEffect, dockerVars
    <2>2. QED BY <1>3, <1>5, <2>1, WorldMoved
  <1>6. CASE UNCHANGED vars
    BY <1>3, <1>6 DEF vars
  <1>7. QED BY <1>1, <1>2, <1>4, <1>5, <1>6 DEF Next, Environment

-----------------------------------------------------------------------------
(* A port in memory, or about to be written there, was published no longer  *)
(* ago than the time that goes with it.                                     *)

RowsHonest ==
    \A t \in Threads : th[t].pc = "rowWrite" /\ th[t].val # None =>
        gone[th[t].slug][th[t].val] <= th[t].clk

LEMMA GoneNat ==
    ASSUME DockerType, NEW s \in Slugs, NEW p \in Ports
    PROVE  gone[s][p] \in Nat
  BY BrokerAssumption DEF DockerType, Never

\* What honesty compares is well-typed.
LEMMA FreshTyped ==
    ASSUME Typed, PortsOwned, NEW o \in Obj, heap[o].port # None
    PROVE  heap[o].slug \in Slugs /\ heap[o].port \in Ports /\ heap[o].age \in 0..CacheTicks
  BY DEF Typed, MemoryInv, WellFormed, Session, PortsOwned, Owns

LEMMA RowTypes ==
    ASSUME Typed, PortsOwned, NEW t \in Threads, th[t].val # None
    PROVE  th[t].slug \in Slugs /\ th[t].val \in Ports /\ th[t].clk \in 0..CacheTicks
  BY DEF Typed, MemoryInv, WellFormed, Thread, PortsOwned, Owns

LEMMA RowsHonestMove ==
    ASSUME Typed, PortsOwned, RowsHonest, NEW t \in Threads, Proceed(t) \/ Arrive(t)
    PROVE  RowsHonest'
  <1>1. Alone(t) /\ Moved(t) /\ NotOlder
    BY ThreadMove, PublishedMove DEF PortsOwned
  <1>2. ASSUME NEW u \in Threads, th'[u].pc = "rowWrite", th'[u].val # None
        PROVE  gone'[th'[u].slug][th'[u].val] <= th'[u].clk
    <2>1. CASE u # t
      <3>1. th'[u] = th[u]
        BY <1>1, <2>1 DEF Alone
      <3>2. gone[th[u].slug][th[u].val] <= th[u].clk
        BY <1>2, <3>1 DEF RowsHonest
      <3>3. th[u].slug \in Slugs /\ th[u].val \in Ports /\ th[u].clk \in 0..CacheTicks
        BY <1>2, <3>1, RowTypes
      <3>4. gone'[th[u].slug][th[u].val] \in {0, gone[th[u].slug][th[u].val]}
        BY <1>1, <3>3 DEF NotOlder
      <3>5. QED BY <3>1, <3>2, <3>3, <3>4, ZeroTick
    <2>2. CASE u = t
      <3>1. /\ th[t].pc = "rowPort" /\ th'[t].val = pub[th[t].slug]
            /\ th'[t].slug = th[t].slug /\ th'[t].clk = th[t].clk
        BY <1>1, <1>2, <2>2, ValMove DEF PortsOwned
      <3>2. th[t].slug \in Slugs
        BY <3>1, BusyHolds, Holding DEF Typed
      <3>3. pub[th[t].slug] \in Ports /\ gone[th[t].slug][pub[th[t].slug]] = 0
        BY <1>2, <2>2, <3>1, <3>2 DEF PortsOwned, Published, Typed, DockerType
      <3>4. gone'[th[t].slug][pub[th[t].slug]] = 0
        BY <1>1, <3>2, <3>3 DEF NotOlder
      <3>5. th[t].clk \in Nat
        BY ThreadsTyped, ZeroTick DEF Thread
      <3>6. QED BY <2>2, <3>1, <3>4, <3>5
    <2>3. QED BY <2>1, <2>2
  <1>3. QED BY <1>2 DEF RowsHonest

LEMMA CacheHonestMove ==
    ASSUME Typed, PortsOwned, SureOfPort, RowsHonest, CacheHonest,
           NEW t \in Threads, Proceed(t) \/ Arrive(t)
    PROVE  CacheHonest'
  <1>1. NotOlder
    BY PublishedMove DEF PortsOwned
  <1>2. heap \in [Obj -> Session] /\ th[t] \in Thread /\ DockerType
    BY ThreadsTyped DEF Typed, MemoryInv, WellFormed
  <1>3. ASSUME NEW s \in Slugs, NEW p \in Ports, NEW n \in 0..CacheTicks, gone[s][p] <= n
        PROVE  gone'[s][p] <= n
    <2>1. gone'[s][p] \in {0, gone[s][p]}
      BY <1>1 DEF NotOlder
    <2>2. QED BY <1>3, <2>1, ZeroTick
  <1>4. ASSUME NEW o \in Obj, Fresh(o)'
        PROVE  gone'[heap'[o].slug][heap'[o].port] <= heap'[o].age
    <2>0. Written(t, o) /\ heap'[o].status = "running" /\ heap'[o].port # None
          /\ heap'[o].age < CacheTicks
      BY <1>4, HeapMove DEF Fresh
    <2>1. CASE /\ heap'[o].slug = heap[o].slug /\ heap'[o].port = heap[o].port
               /\ heap'[o].age = heap[o].age /\ heap'[o].status = heap[o].status
      <3>1. Fresh(o)
        BY <2>0, <2>1 DEF Fresh
      <3>2. gone[heap[o].slug][heap[o].port] <= heap[o].age
        BY <3>1 DEF CacheHonest
      <3>3. heap[o].slug \in Slugs /\ heap[o].port \in Ports /\ heap[o].age \in 0..CacheTicks
        BY <3>1, FreshTyped DEF Fresh
      <3>4. QED BY <1>3, <2>1, <3>2, <3>3
    <2>2. heap'[o] # Collected /\ ~Blanked(t, o)
      BY <2>0 DEF Collected, NewSession, Blanked
    <2>3. CASE Touched(t, o)
      BY <1>2, <2>1, <2>3 DEF Touched, Session
    <2>4. CASE PortWritten(t, o)
      <3>0. o = th[t].ref /\ th[t].ref # None
        BY <2>4, BusyHolds DEF PortWritten, Typed
      <3>1. th[t].slug \in Slugs /\ heap[o].slug = th[t].slug
        BY <3>0, Holding DEF Typed, Sess
      <3>2. /\ pub[th[t].slug] # None
            /\ heap'[o] = [heap[o] EXCEPT !.port = pub[th[t].slug]]
        <4>1. heap'[o] # [heap[o] EXCEPT !.status = "stopped"]
          BY <1>2, <2>0 DEF Session
        <4>2. QED BY <2>4, <4>1 DEF PortWritten
      <3>3. /\ heap'[o].slug = th[t].slug /\ heap'[o].port = pub[th[t].slug]
            /\ heap'[o].age \in 0..CacheTicks
        BY <1>2, <3>1, <3>2 DEF Session
      <3>4. pub[th[t].slug] \in Ports /\ gone[th[t].slug][pub[th[t].slug]] = 0
        BY <1>2, <3>1, <3>2 DEF PortsOwned, Published, DockerType
      <3>5. gone[th[t].slug][pub[th[t].slug]] <= heap'[o].age
        BY <3>3, <3>4
      <3>6. QED BY <1>3, <3>1, <3>3, <3>4, <3>5
    <2>5. CASE Confirmed(t, o)
      <3>0. o = th[t].ref /\ th[t].ref # None /\ th[t].pc = "confirm"
        BY <2>5, BusyHolds DEF Confirmed, Typed
      <3>1. th[t].slug \in Slugs /\ heap[o].slug = th[t].slug
        BY <3>0, Holding DEF Typed, Sess
      <3>2. pub[th[t].slug] # None /\ heap[o].port = pub[th[t].slug]
        BY <3>0 DEF SureOfPort, Sure, AfterPort
      <3>3. heap'[o].slug = heap[o].slug /\ heap'[o].port = heap[o].port /\ heap'[o].age = 0
        BY <1>2, <2>5 DEF Confirmed, Session
      <3>4. pub[th[t].slug] \in Ports /\ gone[th[t].slug][pub[th[t].slug]] = 0
        BY <1>2, <3>1, <3>2 DEF PortsOwned, Published, DockerType
      <3>5. gone'[th[t].slug][pub[th[t].slug]] <= 0
        BY <1>3, <3>1, <3>4, ZeroTick
      <3>6. QED BY <3>1, <3>2, <3>3, <3>5
    <2>6. CASE RowWritten(t, o)
      <3>0. o = th[t].ref /\ th[t].ref # None /\ th[t].pc = "rowWrite"
        BY <2>6, BusyHolds DEF RowWritten, Typed
      <3>1. Sess(t) \in Session /\ Sess(t).slug = th[t].slug
        BY <3>0, Holding DEF Typed
      <3>2. /\ heap'[o].slug = th[t].slug /\ heap'[o].port = th[t].val
            /\ heap'[o].age = th[t].clk
        BY <2>6, <3>1 DEF RowWritten, FromRow, Session
      <3>3. gone[th[t].slug][th[t].val] <= th[t].clk
        BY <2>0, <3>0, <3>2 DEF RowsHonest
      <3>4. th[t].slug \in Slugs /\ th[t].val \in Ports /\ th[t].clk \in 0..CacheTicks
        BY <2>0, <3>2, RowTypes
      <3>5. QED BY <1>3, <3>2, <3>3, <3>4
    <2>7. QED BY <2>0, <2>1, <2>2, <2>3, <2>4, <2>5, <2>6 DEF Written
  <1>5. QED BY <1>4 DEF CacheHonest

\* Time passes for the answer and for the port at the same pace.
LEMMA OlderBoth ==
    ASSUME Typed, PortsOwned, Tick, NEW s \in Slugs, NEW p \in Ports, NEW n \in 0..CacheTicks,
           gone[s][p] <= n
    PROVE  gone'[s][p] <= Older(n)
  <1>1. gone[s][p] \in Nat
    BY GoneNat DEF Typed
  <1>2. gone'[s][p] \in {0, gone[s][p]} \/ (gone[s][p] < CacheTicks
                                            /\ gone'[s][p] = gone[s][p] + 1)
    BY TickGone DEF Typed, PortsOwned
  <1>3. QED BY <1>1, <1>2, ZeroTick DEF Older

LEMMA HonestTick ==
    ASSUME Typed, PortsOwned, RowsHonest, CacheHonest, Tick
    PROVE  RowsHonest' /\ CacheHonest'
  <1>1. ASSUME NEW t \in Threads, th'[t].pc = "rowWrite", th'[t].val # None
        PROVE  gone'[th'[t].slug][th'[t].val] <= th'[t].clk
    <2>1. /\ th[t].pc = "rowWrite" /\ th[t].val # None /\ th'[t].slug = th[t].slug
          /\ th'[t].val = th[t].val /\ th'[t].clk = Older(th[t].clk)
      BY <1>1, TickMoved
    <2>2. gone[th[t].slug][th[t].val] <= th[t].clk
      BY <2>1 DEF RowsHonest
    <2>3. th[t].slug \in Slugs /\ th[t].val \in Ports /\ th[t].clk \in 0..CacheTicks
      BY <2>1, RowTypes
    <2>4. QED BY <2>1, <2>2, <2>3, OlderBoth
  <1>2. ASSUME NEW o \in Obj, Fresh(o)'
        PROVE  gone'[heap'[o].slug][heap'[o].port] <= heap'[o].age
    <2>1. /\ heap'[o].slug = heap[o].slug /\ heap'[o].port = heap[o].port
          /\ heap'[o].status = heap[o].status /\ heap'[o].age = Older(heap[o].age)
      BY TickMoved
    <2>2. heap[o].port # None /\ heap[o].status = "running" /\ Older(heap[o].age) < CacheTicks
      BY <1>2, <2>1 DEF Fresh
    <2>3. heap[o].slug \in Slugs /\ heap[o].port \in Ports /\ heap[o].age \in 0..CacheTicks
      BY <2>2, FreshTyped
    <2>4. heap[o].age < CacheTicks
      BY <2>2, <2>3, ZeroTick DEF Older
    <2>5. gone[heap[o].slug][heap[o].port] <= heap[o].age
      BY <2>2, <2>4 DEF CacheHonest, Fresh
    <2>6. QED BY <2>1, <2>3, <2>5, OlderBoth
  <1>3. QED BY <1>1, <1>2 DEF RowsHonest, CacheHonest

LEMMA HonestStep ==
    ASSUME Typed, PortsOwned, SureOfPort, RowsHonest, CacheHonest, [Next]_vars
    PROVE  RowsHonest' /\ CacheHonest'
  <1>1. CASE \E t \in Threads : Proceed(t) \/ Arrive(t)
    BY <1>1, RowsHonestMove, CacheHonestMove
  <1>2. CASE Tick
    BY <1>2, HonestTick
  <1>3. CASE BrokerRestart
    <2>1. /\ \A o \in Obj : heap'[o].port = None
          /\ \A t \in Threads : th'[t].val = None
      BY <1>3 DEF BrokerRestart, Collected, NewSession, Idle
    <2>2. QED BY <2>1 DEF RowsHonest, CacheHonest, Fresh
  <1>4. CASE Environment /\ ~Tick /\ ~BrokerRestart
    <2>1. gone' = gone
      BY <1>4 DEF Environment, SeenExpires, UserWorks, BeatExpires, ContainerExits, Stopped,
              Rollout, NoEffect, dockerVars
    <2>2. /\ th' = th
          /\ \A o \in Obj : /\ heap'[o].slug = heap[o].slug /\ heap'[o].port = heap[o].port
                            /\ heap'[o].status = heap[o].status /\ heap'[o].age = heap[o].age
      BY <1>4, WorldMoved
    <2>3. QED BY <2>1, <2>2 DEF RowsHonest, CacheHonest, Fresh
  <1>5. CASE UNCHANGED vars
    <2>1. gone' = gone /\ th' = th /\ heap' = heap
      BY <1>5 DEF vars
    <2>2. QED BY <2>1 DEF RowsHonest, CacheHonest, Fresh
  <1>6. QED BY <1>1, <1>2, <1>3, <1>4, <1>5 DEF Next

LEMMA AlwaysOwned == Spec => []PortsOwned
  <1>1. Typed /\ Typed' /\ PortsOwned /\ [Next]_vars => PortsOwned'
    BY PortsOwnedStep
  <1>2. QED BY <1>1, PortsOwnedInit, AlwaysTyped, PTL DEF Spec

LEMMA HonestInit == Init => BootOnly /\ SureOfPort /\ RowsHonest /\ CacheHonest
  <1> SUFFICES ASSUME Init PROVE BootOnly /\ SureOfPort /\ RowsHonest /\ CacheHonest
    OBVIOUS
  <1>1. /\ \A o \in Obj : heap[o].port = None
        /\ \A t \in Threads : th[t].val = None /\ th[t].pc = "idle"
    BY DEF Init, Collected, NewSession, Idle
  <1>2. Clients \subseteq Threads /\ Reaper \in Threads
    BY DEF Threads
  <1>3. QED BY <1>1, <1>2 DEF BootOnly, RowPCs, SureOfPort, Sure, AfterPort, RowsHonest,
               CacheHonest, Fresh

(* The resolve cache is never staler than it says, for any cache time and   *)
(* any number of requests and restarts, if no reconcile runs beside the     *)
(* requests and no container exits by itself.                               *)
THEOREM CacheHonestAlways ==
    ASSUME NoReconcile, "exit" \notin Faults
    PROVE  Spec => []CacheHonest
  <1>1. Typed /\ BootOnly /\ [Next]_vars => BootOnly'
    BY BootOnlyStep
  <1>2. Typed /\ Typed' /\ MutualExclusion /\ BootOnly /\ SureOfPort /\ [Next]_vars => SureOfPort'
    BY SureStep
  <1>3. Typed /\ PortsOwned /\ SureOfPort /\ RowsHonest /\ CacheHonest /\ [Next]_vars
            => RowsHonest' /\ CacheHonest'
    BY HonestStep
  <1>4. QED BY <1>1, <1>2, <1>3, HonestInit, AlwaysTyped, AlwaysOwned, LocksExclude, PTL DEF Spec

-----------------------------------------------------------------------------
(* CapacityBound.  The setting of the claim: no reconcile beside the        *)
(* requests, no wipe, and docker does what it is told.                      *)

CapacityCase ==
    Ops \subseteq {"ensure", "stop"} /\ ~ReaperOn /\ Faults \subseteq {"rollout", "restart"}

LEMMA CaseFacts ==
    CapacityCase => NoReconcile /\ ~Fails /\ ~TimesOut /\ "exit" \notin Faults
                    /\ "unhealthy" \notin Faults /\ "wipe" \notin Ops
  BY DEF CapacityCase, NoReconcile, Fails, TimesOut

\* The program counter tells the action.
LEMMA ActionAt ==
    ASSUME NEW t \in Threads, Proceed(t) \/ Arrive(t)
    PROVE  /\ th[t].pc = "inspect" => Inspect(t)
           /\ th[t].pc \in {"admitCreate", "admitStart"} => Admit(t)
           /\ th[t].pc = "replace" => Replace(t)
           /\ th[t].pc = "create" => CreateContainer(t)
           /\ th[t].pc = "start" => StartContainer(t)
           /\ th[t].pc = "port" => ReadPort(t)
           /\ th[t].pc = "recheck" => Recheck(t)
           /\ th[t].pc = "health" => WaitHealthy(t)
           /\ th[t].pc = "confirm" => Confirm(t)
           /\ th[t].pc = "stop" => StopContainer(t)
           /\ th[t].pc = "row" => DropUnseen(t) \/ \E s \in Slugs : Row(t, s)
           /\ th[t].pc = "rowPort" => RowPort(t)
           /\ th[t].pc = "rowWrite" => RowWrite(t)
  BY DEF Proceed, Arrive, Begin, Snapshot, Acquire, EnsureStep, CacheHit, Inspect,
         CompareImage, Replace, Admit, CreateContainer, StartContainer, ReadPort, Recheck,
         WaitHealthy, Confirm, Reply, StopStep, StopContainer, RemoveContainer, RemoveVolume,
         ReconcileStep, Row, RowPort, RowWrite, DropUnseen, ReapStep, Pick, RoundOver,
         ReadHeartbeat

\* What a step of t does to the table.
LEMMA TableMove ==
    ASSUME Typed, NEW t \in Threads, Proceed(t) \/ Arrive(t), NEW s \in Slugs
    PROVE  \/ table'[s] = table[s]
           \/ table[s] = None /\ table'[s] \in Obj /\ heap[table'[s]].slug = None
           \/ table'[s] = None /\ th[t].pc = "volrm"
           \/ table'[s] = None /\ th[t].pc = "row" /\ th[t].snap[s] = "absent"
  <1>0. table \in [Slugs -> Obj \cup {None}]
    BY DEF Typed, MemoryInv, WellFormed
  <1>1. CASE table' = table
    BY <1>1
  <1>2. ASSUME NEW x \in Slugs, CanGet(x), table' = TableWith(x)
        PROVE  \/ table'[s] = table[s]
               \/ table[s] = None /\ table'[s] \in Obj /\ heap[table'[s]].slug = None
    <2>1. table'[s] = IF s = x THEN SessionOf(x) ELSE table[s]
      BY <1>0, <1>2 DEF TableWith
    <2>2. QED BY <1>2, <2>1 DEF SessionOf, CanGet, FreeObj
  <1>3. CASE Arrive(t)
    BY <1>1, <1>2, <1>3 DEF Arrive, Begin, Snapshot, Memory
  <1>4. CASE Raise(t) \/ WithStarted(t) \/ \E where \in PCs : Goto(t, where)
    BY <1>1, <1>4 DEF Raise, WithStarted, Goto, Memory
  <1>5. CASE Acquire(t) \/ CacheHit(t) \/ Confirm(t) \/ Reply(t) \/ ReadPort(t) \/ Recheck(t)
             \/ WaitHealthy(t)
    BY <1>1, <1>4, <1>5 DEF Acquire, CacheHit, Confirm, Reply, ReadPort, Recheck, WaitHealthy,
                            Memory
  <1>6. CASE Inspect(t) \/ CompareImage(t) \/ Replace(t) \/ Admit(t) \/ CreateContainer(t)
             \/ StartContainer(t) \/ RemoveContainer(t)
    BY <1>4, <1>6 DEF Inspect, CompareImage, Replace, Admit, CreateContainer, StartContainer,
                      RemoveContainer, PCs
  <1>7. CASE StopContainer(t)
    BY <1>1, <1>7 DEF StopContainer, StopDone, Raise, Goto, Memory
  <1>8. CASE RemoveVolume(t)
    <2>1. CASE PopSession(t)
      <3>1. table' = [table EXCEPT ![th[t].slug] = None]
        BY <2>1 DEF PopSession, Memory
      <3>2. QED BY <1>0, <1>8, <3>1 DEF RemoveVolume
    <2>2. QED BY <1>4, <1>8, <2>1 DEF RemoveVolume
  <1>9. CASE \E x \in Slugs : Row(t, x)
    BY <1>2, <1>9 DEF Row, Memory
  <1>10. CASE RowPort(t) \/ RowWrite(t)
    BY <1>1, <1>10 DEF RowPort, RowWrite, ReconcileEnds, Memory
  <1>11. CASE DropUnseen(t)
    BY <1>11 DEF DropUnseen, ReconcileEnds, Memory
  <1>12. CASE ReapStep /\ t = Reaper
    <2>1. CASE ReadHeartbeat
      <3>1. th[Reaper].slug \in Slugs
        BY <1>12, <2>1, BusyHolds, Holding DEF ReadHeartbeat, Typed
      <3>2. QED BY <1>1, <1>2, <2>1, <3>1 DEF ReadHeartbeat, Memory
    <2>2. CASE RoundOver \/ \E o \in Obj : Pick(o)
      BY <1>1, <2>2 DEF RoundOver, Pick, Memory
    <2>3. QED BY <1>12, <2>1, <2>2 DEF ReapStep
  <1>13. QED BY <1>3, <1>5, <1>6, <1>7, <1>8, <1>9, <1>10, <1>11, <1>12
             DEF Proceed, EnsureStep, StopStep, ReconcileStep

-----------------------------------------------------------------------------
(* Nobody wipes; what is in the table stays there but for the drops of the  *)
(* start-up reconcile, so a thread's object is its slug's entry.            *)

NoWipe == \A t \in Threads : th[t].pc \notin {"rm", "volrm"} /\ th[t].op # "wipe"

LEMMA NoWipeMove ==
    ASSUME Typed, CapacityCase, BootOnly, NoWipe, NEW t \in Threads, Proceed(t) \/ Arrive(t)
    PROVE  NoWipe'
  <1>1. Alone(t) /\ Moved(t) /\ th[t] \in Thread
    BY ThreadMove, ThreadsTyped
  <1>2. th[t].pc \notin {"rm", "volrm"} /\ th[t].op # "wipe"
    BY DEF NoWipe
  <1>3. th'[t].pc \notin {"rm", "volrm"} /\ th'[t].op # "wipe"
    <2>1. CASE Ends(t)
      BY <2>1, IdleFields DEF Ends
    <2>2. CASE Starts(t)
      BY <2>2, CaseFacts DEF Starts
    <2>3. CASE GoesOn(t)
      <3>1. CASE \E where \in PCs : /\ Arc(th[t].pc, where) /\ (where = "rm" => th[t].op = "wipe")
                                    /\ th'[t] = [th[t] EXCEPT !.pc = where]
        <4>1. PICK where \in PCs : /\ Arc(th[t].pc, where) /\ (where = "rm" => th[t].op = "wipe")
                                   /\ th'[t] = [th[t] EXCEPT !.pc = where]
          BY <3>1
        <4>2. th'[t].pc = where /\ th'[t].op = th[t].op
          BY <1>1, <4>1 DEF Thread
        <4>3. QED BY <1>2, <4>1, <4>2 DEF Arc
      <3>2. QED BY <1>1, <1>2, <2>3, <3>1 DEF GoesOn, Thread
    <2>4. CASE ReadsRows(t)
      <3>1. CASE th[t].pc = "row"
        <4>1. th'[t].pc \in {"row", "rowPort"} /\ th'[t].op = th[t].op
          BY <1>1, <2>4, <3>1 DEF ReadsRows, Thread
        <4>2. QED BY <1>2, <4>1
      <3>2. CASE th[t].pc = "rowPort"
        <4>1. PICK p : th'[t] = [th[t] EXCEPT !.pc = "rowWrite", !.val = p]
          BY <2>4, <3>2 DEF ReadsRows
        <4>2. th'[t].pc = "rowWrite" /\ th'[t].op = th[t].op
          BY <1>1, <4>1 DEF Thread
        <4>3. QED BY <1>2, <4>2
      <3>3. CASE th[t].pc = "rowWrite"
        <4>1. th'[t].pc = "row" /\ th'[t].op = th[t].op
          BY <1>1, <2>4, <3>3 DEF ReadsRows, Thread
        <4>2. QED BY <1>2, <4>1
      <3>4. QED BY <2>4, <3>1, <3>2, <3>3 DEF ReadsRows
    <2>5. CASE Reaps(t) \/ Refused(t)
      BY <1>2, <2>5 DEF Reaps, Refused, BootOnly, RowPCs
    <2>6. QED BY <1>1, <2>1, <2>2, <2>3, <2>4, <2>5 DEF Moved
  <1>4. QED BY <1>1, <1>3 DEF Alone, NoWipe

FiledAs(t) ==
    /\ th[t].pc \in {"idle", "row"} => th[t].ref = None
    /\ th[t].ref # None => table[th[t].slug] = th[t].ref

Filed == \A t \in Threads : FiledAs(t)

LEMMA FiledMove ==
    ASSUME Typed, BootOnly, NoWipe, Filed, NEW t \in Threads, Proceed(t) \/ Arrive(t)
    PROVE  Filed'
  <1>0. Alone(t) /\ Moved(t) /\ th[t] \in Thread /\ None \notin Slugs
    BY ThreadMove, ThreadsTyped, BrokerAssumption
  \* Entries only go while the reaper drops what it has not seen, at the start.
  <1>1. ASSUME NEW u \in Threads, th[u].ref # None, th[t].pc # "row" \/ u # t
        PROVE  table'[th[u].slug] = th[u].ref
    <2>1. th[u].slug \in Slugs /\ table[th[u].slug] = th[u].ref
      BY <1>1, Holding DEF Typed, Filed, FiledAs
    <2>2. CASE th[t].pc # "row"
      BY <1>1, <2>1, <2>2, TableMove DEF NoWipe
    <2>3. CASE th[t].pc = "row"
      <3>1. t = Reaper /\ u \in Clients /\ ~serving
        BY <1>1, <2>3 DEF BootOnly, RowPCs, Threads
      <3>2. th[u].pc = "idle"
        BY <3>1 DEF BootOnly
      <3>3. QED BY <1>1, <3>2 DEF Filed, FiledAs
    <2>4. QED BY <2>2, <2>3
  <1>2. ASSUME NEW u \in Threads \ {t} PROVE FiledAs(u)'
    <2>1. th'[u] = th[u] /\ FiledAs(u)
      BY <1>0 DEF Alone, Filed
    <2>2. th[u].ref # None => table'[th[u].slug] = th[u].ref
      BY <1>1
    <2>3. QED BY <2>1, <2>2 DEF FiledAs
  <1>3. FiledAs(t)'
    <2>0. FiledAs(t)
      BY DEF Filed
    <2>1. CASE Ends(t)
      BY <2>1, IdleFields DEF Ends, FiledAs
    <2>2. CASE Starts(t)
      BY <2>2 DEF Starts, FiledAs
    <2>3. CASE GoesOn(t)
      <3>1. th'[t].ref = th[t].ref /\ th'[t].slug = th[t].slug
        BY <1>0, <2>3 DEF GoesOn, Thread
      <3>2. th'[t].pc \notin {"idle", "row"} /\ th[t].pc # "row"
        <4>1. CASE \E where \in PCs : /\ Arc(th[t].pc, where) /\ (where = "rm" => th[t].op = "wipe")
                                      /\ th'[t] = [th[t] EXCEPT !.pc = where]
          <5>1. PICK where \in PCs : Arc(th[t].pc, where) /\ th'[t] = [th[t] EXCEPT !.pc = where]
            BY <4>1
          <5>2. th'[t].pc = where
            BY <1>0, <5>1 DEF Thread
          <5>3. QED BY <5>1, <5>2 DEF Arc
        <4>2. QED BY <1>0, <2>3, <4>1 DEF GoesOn, Thread
      <3>3. QED BY <1>1, <3>1, <3>2 DEF FiledAs
    <2>4. CASE ReadsRows(t)
      <3>1. CASE th[t].pc = "row"
        <4>1. \/ th'[t].pc = "rowPort" /\ table'[th'[t].slug] = th'[t].ref
              \/ th'[t].ref = th[t].ref
          BY <1>0, <2>4, <3>1 DEF ReadsRows, Thread
        <4>2. QED BY <2>0, <3>1, <4>1 DEF FiledAs
      <3>2. CASE th[t].pc = "rowPort"
        <4>1. th'[t].pc = "rowWrite" /\ th'[t].ref = th[t].ref /\ th'[t].slug = th[t].slug
          BY <1>0, <2>4, <3>2 DEF ReadsRows, Thread
        <4>2. QED BY <1>1, <3>2, <4>1 DEF FiledAs
      <3>3. CASE th[t].pc = "rowWrite"
        <4>1. th'[t].ref = None
          BY <1>0, <2>4, <3>3 DEF ReadsRows, Thread
        <4>2. QED BY <4>1 DEF FiledAs
      <3>4. QED BY <2>4, <3>1, <3>2, <3>3 DEF ReadsRows
    <2>5. ~Reaps(t)
      BY DEF Reaps, BootOnly, RowPCs
    <2>6. CASE Refused(t)
      BY <2>0, <2>6 DEF Refused, FiledAs
    <2>7. QED BY <1>0, <2>1, <2>2, <2>3, <2>4, <2>5, <2>6 DEF Moved
  <1>4. QED BY <1>2, <1>3 DEF Filed

-----------------------------------------------------------------------------
(* docker run is only asked for where there is no container: it cannot fail *)
(* for a name in use.                                                       *)

AbsentFor(t) == th[t].pc \in {"admitCreate", "create"} => ctr[th[t].slug] = "absent"

AbsentRight == \A t \in Threads : AbsentFor(t)

LEMMA AbsentMove ==
    ASSUME Typed, MutualExclusion, CapacityCase, AbsentRight,
           NEW t \in Threads, Proceed(t) \/ Arrive(t)
    PROVE  AbsentRight'
  <1>0. Alone(t) /\ Moved(t) /\ th[t] \in Thread
    BY ThreadMove, ThreadsTyped
  <1>1. ASSUME NEW u \in Threads \ {t} PROVE AbsentFor(u)'
    <2>1. th'[u] = th[u]
      BY <1>0 DEF Alone
    <2>2. CASE th[u].pc \in {"admitCreate", "create"}
      <3>1. th[u].slug \in Slugs /\ th[u].pc \in Critical
        BY <2>2, BusyHolds, Holding DEF Typed, Critical
      <3>2. ctr'[th[u].slug] = ctr[th[u].slug]
        BY <3>1, DockerLocal, NotMine DEF Acts, Critical
      <3>3. QED BY <2>1, <3>2 DEF AbsentRight, AbsentFor
    <2>3. QED BY <2>1, <2>2 DEF AbsentFor
  <1>2. ASSUME th'[t].pc \in {"admitCreate", "create"} PROVE ctr'[th'[t].slug] = "absent"
    <2>1. /\ th'[t].slug = th[t].slug
          /\ \/ th[t].pc \in {"inspect", "replace"} /\ th'[t].pc = "admitCreate"
             \/ th[t].pc = "admitCreate" /\ th'[t].pc = "create"
      <3>1. GoesOn(t)
        <4>1. ~Ends(t) /\ ~Starts(t) /\ ~Refused(t) /\ ~Reaps(t)
          BY <1>2, IdleFields DEF Ends, Starts, Refused, Reaps
        <4>2. ~ReadsRows(t)
          BY <1>0, <1>2 DEF ReadsRows, Thread
        <4>3. QED BY <1>0, <4>1, <4>2 DEF Moved
      <3>2. CASE \E where \in PCs : /\ Arc(th[t].pc, where) /\ (where = "rm" => th[t].op = "wipe")
                                    /\ th'[t] = [th[t] EXCEPT !.pc = where]
        <4>1. PICK where \in PCs : Arc(th[t].pc, where) /\ th'[t] = [th[t] EXCEPT !.pc = where]
          BY <3>2
        <4>2. th'[t].pc = where /\ th'[t].slug = th[t].slug
          BY <1>0, <4>1 DEF Thread
        <4>3. QED BY <1>2, <4>1, <4>2 DEF Arc
      <3>3. QED BY <1>0, <1>2, <3>1, <3>2 DEF GoesOn, Thread
    <2>2. th[t].slug \in Slugs /\ ctr \in [Slugs -> CState]
      BY <2>1, BusyHolds, Holding DEF Typed, DockerType
    <2>3. CASE th[t].pc = "inspect"
      <3>1. Inspect(t) /\ ~Fails
        BY <2>3, ActionAt, CaseFacts
      <3>2. ctr' = ctr
        BY <3>1 DEF Inspect, NoEffect, dockerVars
      <3>3. CASE Goto(t, "admitCreate") /\ ctr[th[t].slug] = "absent"
        BY <2>1, <3>2, <3>3
      <3>4. CASE Goto(t, "image") \/ Goto(t, "port") \/ Raise(t)
        <4>1. th'[t].pc \in {"image", "port", "idle"}
          BY <1>0, <3>4, ThreadsTyped, IdleFields DEF Goto, Raise, Memory, Thread
        <4>2. QED BY <1>2, <4>1
      <3>5. QED BY <3>1, <3>3, <3>4 DEF Inspect
    <2>4. CASE th[t].pc = "replace"
      <3>1. Replace(t) /\ ~Fails /\ ~TimesOut
        BY <2>4, ActionAt, CaseFacts
      <3>2. ctr' = [ctr EXCEPT ![th[t].slug] = "absent"]
        BY <3>1 DEF Replace, Removed
      <3>3. QED BY <2>1, <2>2, <3>2
    <2>5. CASE th[t].pc = "admitCreate"
      <3>1. ctr'[th[t].slug] = ctr[th[t].slug]
        BY <2>2, <2>5, DockerLocal DEF Acts
      <3>2. QED BY <2>1, <2>5, <3>1 DEF AbsentRight, AbsentFor
    <2>6. QED BY <2>1, <2>3, <2>4, <2>5
  <1>3. QED BY <1>1, <1>2 DEF AbsentRight, AbsentFor

-----------------------------------------------------------------------------
(* The sessions the capacity check counts, and the ones it has let through. *)

Counted == {s \in Slugs : table[s] # None /\ heap[table[s]].status = "running"}

PastAdmit == {"create", "start", "port"} \cup AfterPort

Admitted == {th[c].slug : c \in {d \in Clients : th[d].pc \in PastAdmit}}

Taken == Running \cup Counted \cup Admitted

LEMMA CountedGrows ==
    ASSUME Typed, Typed', NEW t \in Threads, Proceed(t) \/ Arrive(t),
           NEW s \in Slugs, s \in Counted', s \notin Counted
    PROVE  th[t].pc \in {"confirm", "rowWrite"} /\ s = th[t].slug
  <1> DEFINE o == table'[s]
  <1>1. o \in Obj /\ heap'[o].slug = s /\ heap'[o].status = "running"
    BY DEF Counted, Typed, MemoryInv, WellFormed
  <1>2. Written(t, o) /\ heap[o] \in Session /\ None \notin Slugs
    BY <1>1, HeapMove, BrokerAssumption DEF Typed, MemoryInv, WellFormed
  <1>3. heap'[o] # Collected /\ ~Blanked(t, o)
    BY <1>1, <1>2 DEF Collected, NewSession, Blanked
  <1>4. ~(heap[o].slug = s /\ heap[o].status = "running")
    <2>1. SUFFICES ASSUME heap[o].slug = s, heap[o].status = "running" PROVE FALSE
      OBVIOUS
    <2>2. table'[s] # None
      BY <1>1, BrokerAssumption
    <2>3. table'[s] = table[s]
      BY <1>2, <2>1, <2>2, TableMove
    <2>4. QED BY <2>1, <2>2, <2>3 DEF Counted
  <1>5. heap'[o] # heap[o]
    BY <1>1, <1>4
  <1>6. ~Touched(t, o)
    BY <1>1, <1>2, <1>4 DEF Touched, Session
  <1>7. ~PortWritten(t, o)
    BY <1>1, <1>2, <1>4 DEF PortWritten, Session
  <1>8. CASE Confirmed(t, o)
    <2>1. heap'[o].slug = heap[o].slug /\ o = th[t].ref /\ th[t].pc = "confirm"
      BY <1>2, <1>8 DEF Confirmed, Session
    <2>2. heap[o].slug = th[t].slug
      BY <2>1, BusyHolds, Holding DEF Typed, Sess
    <2>3. QED BY <1>1, <2>1, <2>2
  <1>9. CASE RowWritten(t, o)
    <2>1. o = th[t].ref /\ th[t].pc = "rowWrite" /\ heap'[o] = FromRow(t)
      BY <1>9 DEF RowWritten
    <2>2. Sess(t) \in Session /\ Sess(t).slug = th[t].slug
      BY <2>1, BusyHolds, Holding DEF Typed
    <2>3. heap'[o].slug = th[t].slug
      BY <2>1, <2>2 DEF FromRow, Session
    <2>4. QED BY <1>1, <2>1, <2>3
  <1>10. QED BY <1>2, <1>3, <1>5, <1>6, <1>7, <1>8, <1>9 DEF Written

LEMMA CountedShrinks ==
    ASSUME Typed, Typed', NoWipe, NEW t \in Threads, Proceed(t) \/ Arrive(t),
           NEW s \in Slugs, s \in Counted, s \notin Counted'
    PROVE  \/ th[t].pc = "stop" /\ s = th[t].slug
           \/ th[t].pc = "port" /\ s = th[t].slug /\ th'[t] = Idle
           \/ th[t].pc = "rowWrite" /\ s = th[t].slug /\ th[t].val = None
           \/ th[t].pc = "row" /\ th[t].snap[s] # "running"
  <1> DEFINE o == table[s]
  <1>1. /\ o \in Obj /\ o # None /\ heap[o].slug = s /\ heap[o].status = "running"
        /\ heap[o] \in Session /\ None \notin Slugs
    BY BrokerAssumption DEF Counted, Typed, MemoryInv, WellFormed
  <1>2. CASE table'[s] # o
    BY <1>1, <1>2, TableMove DEF NoWipe
  <1>3. CASE table'[s] = o
    <2>1. heap'[o].slug = s /\ heap'[o].status # "running"
      BY <1>1, <1>3 DEF Typed, MemoryInv, WellFormed, Counted
    <2>2. Written(t, o)
      BY <1>1, HeapMove
    <2>3. heap'[o] # heap[o] /\ heap'[o] # Collected
      BY <1>1, <2>1 DEF Collected, NewSession
    <2>4. ~Touched(t, o) /\ ~Confirmed(t, o)
      BY <1>1, <2>1 DEF Touched, Confirmed, Session
    <2>5. ASSUME o = th[t].ref, th[t].pc \in {"stop", "port", "rowWrite"}
          PROVE  s = th[t].slug /\ Sess(t) \in Session
      BY <1>1, <2>5, BusyHolds, Holding DEF Typed, Sess
    <2>6. CASE Blanked(t, o)
      BY <1>1, <2>5, <2>6 DEF Blanked
    <2>7. CASE PortWritten(t, o)
      <3>1. heap'[o] # [heap[o] EXCEPT !.port = pub[th[t].slug]]
        BY <1>1, <2>1 DEF Session
      <3>2. QED BY <2>5, <2>7, <3>1 DEF PortWritten
    <2>8. CASE RowWritten(t, o)
      <3>1. th[t].pc = "rowWrite" /\ o = th[t].ref /\ heap'[o] = FromRow(t)
        BY <2>8 DEF RowWritten
      <3>2. th[t].val = None
        BY <2>1, <2>5, <3>1 DEF FromRow, Session
      <3>3. QED BY <2>5, <3>1, <3>2
    <2>9. QED BY <2>2, <2>3, <2>4, <2>6, <2>7, <2>8 DEF Written
  <1>4. QED BY <1>2, <1>3

\* A confirmed session, and a row with a port, count.
LEMMA ConfirmCounts ==
    ASSUME Typed, Typed', NoWipe, Filed, NEW t \in Threads, Proceed(t) \/ Arrive(t),
           th[t].pc = "confirm" \/ (th[t].pc = "rowWrite" /\ th[t].val # None)
    PROVE  th[t].slug \in Counted'
  <1> DEFINE o == th[t].ref
             s == th[t].slug
  <1>1. /\ o \in Obj /\ o # None /\ s \in Slugs /\ table[s] = o /\ heap[o].slug = s
        /\ heap[o] \in Session /\ None \notin Slugs /\ Sess(t) = heap[o]
    BY BusyHolds, Holding, BrokerAssumption DEF Typed, Filed, FiledAs, Sess
  <1>2. table'[s] = o
    BY <1>1, TableMove
  <1>3. heap'[o] # Collected
    BY <1>1, <1>2 DEF Collected, NewSession, Typed, MemoryInv, WellFormed
  <1>4. heap \in [Obj -> Session]
    BY DEF Typed, MemoryInv, WellFormed
  <1>5. CASE th[t].pc = "confirm"
    <2> DEFINE r == [Sess(t) EXCEPT !.status = "running", !.age = 0, !.seen = "recent"]
    <2>1. \E T : Memory(Put(t, r), table, T, cands)
      BY <1>5, ActionAt DEF Confirm
    <2>2. r.status = "running"
      BY <1>1 DEF Session
    <2> HIDE DEF r
    <2>3. Put(t, r)[o] = r
      BY <1>1, <1>4 DEF Put
    <2>4. heap'[o] = r
      BY <1>1, <1>3, <2>1, <2>3, KeptOrCollected
    <2>5. QED BY <1>1, <1>2, <2>2, <2>4 DEF Counted
  <1>6. CASE th[t].pc = "rowWrite" /\ th[t].val # None
    <2>1. \E T : Memory(Put(t, FromRow(t)), table, T, cands)
      BY <1>6, ActionAt DEF RowWrite
    <2>2. FromRow(t).status = "running"
      BY <1>1, <1>6 DEF FromRow, Session
    <2>3. Put(t, FromRow(t))[o] = FromRow(t)
      BY <1>1, <1>4 DEF Put
    <2>4. heap'[o] = FromRow(t)
      BY <1>1, <1>3, <2>1, <2>3, KeptOrCollected
    <2>5. QED BY <1>1, <1>2, <2>2, <2>4 DEF Counted
  <1>7. QED BY <1>5, <1>6

\* How a client comes past the capacity check.
LEMMA AdmittedGrows ==
    ASSUME Typed, CapacityCase, BootOnly, NEW t \in Clients, Proceed(t) \/ Arrive(t),
           NEW s, s \in Admitted', s \notin Admitted
    PROVE  /\ s = th[t].slug /\ s \in Slugs
           /\ \/ th[t].pc = "inspect" /\ ctr[s] = "running"
              \/ th[t].pc \in {"admitCreate", "admitStart"}
                 /\ (Sess(t).status = "running" \/ ~(RunningCount >= MaxSessions))
  <1>0. t \in Threads /\ t # Reaper /\ Clients \subseteq Threads
    BY BrokerAssumption DEF Threads
  <1>1. Alone(t) /\ Moved(t) /\ th[t] \in Thread
    BY <1>0, ThreadMove, ThreadsTyped
  <1>2. PICK c \in Clients : th'[c].pc \in PastAdmit /\ th'[c].slug = s
    BY DEF Admitted
  <1>3. c = t
    BY <1>0, <1>1, <1>2 DEF Alone, Admitted
  <1>4. GoesOn(t)
    <2>1. ~Ends(t) /\ ~Starts(t) /\ ~Reaps(t) /\ ~Refused(t)
      BY <1>0, <1>2, <1>3, IdleFields
         DEF Ends, Starts, Reaps, Refused, PastAdmit, AfterPort
    <2>2. ~ReadsRows(t)
      BY <1>0 DEF ReadsRows, BootOnly, RowPCs
    <2>3. QED BY <1>1, <2>1, <2>2 DEF Moved
  <1>5. th'[t].slug = th[t].slug
    BY <1>1, <1>4 DEF GoesOn, Thread
  <1>6. th[t].pc \notin PastAdmit
    BY <1>2, <1>3, <1>5 DEF Admitted
  <1>7. \/ th[t].pc = "inspect" /\ th'[t].pc = "port"
        \/ th[t].pc \in {"admitCreate", "admitStart"} /\ th'[t].pc # "idle"
    <2>1. CASE \E where \in PCs : /\ Arc(th[t].pc, where) /\ (where = "rm" => th[t].op = "wipe")
                                  /\ th'[t] = [th[t] EXCEPT !.pc = where]
      <3>1. PICK where \in PCs : Arc(th[t].pc, where) /\ th'[t] = [th[t] EXCEPT !.pc = where]
        BY <2>1
      <3>2. th'[t].pc = where
        BY <1>1, <3>1 DEF Thread
      <3>3. QED BY <1>2, <1>3, <1>6, <3>1, <3>2 DEF Arc, PastAdmit, AfterPort
    <2>2. QED BY <1>4, <1>6, <2>1 DEF GoesOn, PastAdmit, AfterPort
  <1>8. s = th[t].slug /\ s \in Slugs
    BY <1>0, <1>2, <1>3, <1>5, <1>7, BusyHolds, Holding DEF Typed
  <1>9. CASE th[t].pc = "inspect"
    <2>1. Inspect(t) /\ ~Raise(t) /\ ~Goto(t, "admitCreate") /\ ~Goto(t, "image")
      BY <1>0, <1>1, <1>7, <1>9, ActionAt, ThreadsTyped, IdleFields
         DEF Raise, Goto, Memory, Thread
    <2>2. QED BY <1>8, <1>9, <2>1 DEF Inspect
  <1>10. CASE th[t].pc \in {"admitCreate", "admitStart"}
    <2>1. Admit(t) /\ ~Raise(t)
      BY <1>0, <1>7, <1>10, ActionAt, ThreadsTyped, IdleFields DEF Raise, Memory
    <2>2. ~(Sess(t).status # "running" /\ RunningCount >= MaxSessions)
      BY <2>1 DEF Admit
    <2>3. QED BY <1>8, <1>10, <2>2
  <1>11. QED BY <1>7, <1>9, <1>10

\* Who has passed the check goes on to count, or finds nothing running.
LEMMA NoLeave ==
    ASSUME Typed, CapacityCase, BootOnly, SureOfPort, AbsentRight, ActsOnWhatItSaw,
           NEW t \in Clients, Proceed(t) \/ Arrive(t), th[t].pc \in PastAdmit
    PROVE  \/ th'[t].pc \in PastAdmit /\ th'[t].slug = th[t].slug
           \/ th[t].pc = "confirm"
           \/ th[t].pc = "port" /\ pub[th[t].slug] = None
  <1>0. t \in Threads
    BY DEF Threads
  <1>1. th[t] \in Thread /\ ~Fails /\ ~TimesOut /\ "unhealthy" \notin Faults
    BY <1>0, ThreadsTyped, CaseFacts
  <1>2. th \in [Threads -> Thread]
    BY ThreadsTyped
  <1>3. CASE th[t].pc \in {"create", "start"}
    <2>1. WithStarted(t)
      <3>1. CASE th[t].pc = "create"
        <4>1. CreateContainer(t) /\ ctr[th[t].slug] = "absent"
          BY <1>0, <3>1, ActionAt DEF AbsentRight, AbsentFor
        <4>2. QED BY <1>1, <4>1 DEF CreateContainer
      <3>2. CASE th[t].pc = "start"
        <4>1. StartContainer(t)
          BY <1>0, <3>2, ActionAt
        <4>2. QED BY <1>1, <4>1 DEF StartContainer
      <3>3. QED BY <1>3, <3>1, <3>2
    <2>2. [th EXCEPT ![t].pc = "port", ![t].started = TRUE]
              = [th EXCEPT ![t] = [th[t] EXCEPT !.pc = "port", !.started = TRUE]]
      BY <1>2
    <2>3. th'[t] = [th[t] EXCEPT !.pc = "port", !.started = TRUE]
      BY <1>0, <1>2, <2>1, <2>2 DEF WithStarted, Memory
    <2>4. th'[t].pc = "port" /\ th'[t].slug = th[t].slug
      BY <1>1, <2>3 DEF Thread
    <2>5. QED BY <2>4 DEF PastAdmit
  <1>4. CASE th[t].pc = "port" /\ pub[th[t].slug] # None
    <2>1. ReadPort(t)
      BY <1>0, <1>4, ActionAt
    <2>2. th' = [th EXCEPT ![t].pc = IF th[t].started THEN "recheck" ELSE "confirm"]
      BY <1>1, <1>4, <2>1 DEF ReadPort, Memory
    <2>3. th'[t].pc \in {"recheck", "confirm"} /\ th'[t].slug = th[t].slug
      BY <1>0, <1>1, <1>2, <2>2 DEF Thread
    <2>4. QED BY <2>3 DEF PastAdmit, AfterPort
  <1>5. CASE th[t].pc = "recheck"
    <2>1. Recheck(t)
      BY <1>0, <1>5, ActionAt
    <2>2. th' = [th EXCEPT ![t].pc = "health", ![t].val = Sess(t).port]
      BY <1>1, <2>1 DEF Recheck, Memory
    <2>3. th'[t].pc = "health" /\ th'[t].slug = th[t].slug
      BY <1>0, <1>1, <1>2, <2>2 DEF Thread
    <2>4. QED BY <2>3 DEF PastAdmit, AfterPort
  <1>6. CASE th[t].pc = "health"
    <2>1. WaitHealthy(t) /\ th[t].slug \in Slugs
      BY <1>0, <1>6, ActionAt, BusyHolds, Holding DEF Typed
    <2>2. Reachable(th[t].val)
      BY <1>0, <1>6, <2>1 DEF SureOfPort, Sure, AfterPort, Reachable
    <2>3. th' = [th EXCEPT ![t].pc = "confirm", ![t].val = None]
      BY <1>1, <2>1, <2>2 DEF WaitHealthy, Memory
    <2>4. th'[t].pc = "confirm" /\ th'[t].slug = th[t].slug
      BY <1>0, <1>1, <1>2, <2>3 DEF Thread
    <2>5. QED BY <2>4 DEF PastAdmit, AfterPort
  <1>7. QED BY <1>3, <1>4, <1>5, <1>6 DEF PastAdmit, AfterPort

\* A stop, and the removal of an outdated container, leave nothing running.
LEMMA StopsRight ==
    ASSUME Typed, CapacityCase, NEW t \in Threads, Proceed(t) \/ Arrive(t),
           th[t].pc \in {"stop", "replace"}
    PROVE  ctr'[th[t].slug] # "running"
  <1>1. th[t].slug \in Slugs /\ ctr \in [Slugs -> CState] /\ ~Fails /\ ~TimesOut
    BY BusyHolds, Holding, CaseFacts DEF Typed, DockerType
  <1>2. CASE th[t].pc = "stop"
    <2>1. Stopped(th[t].slug)
      BY <1>1, <1>2, ActionAt DEF StopContainer
    <2>2. QED BY <1>1, <2>1 DEF Stopped, CState
  <1>3. CASE th[t].pc = "replace"
    <2>1. Removed(th[t].slug)
      BY <1>1, <1>3, ActionAt DEF Replace
    <2>2. QED BY <1>1, <2>1 DEF Removed
  <1>4. QED BY <1>2, <1>3

-----------------------------------------------------------------------------
(* While the broker serves, what runs is counted or has just been let in.   *)

RunningIsCounted == serving => Running \subseteq Counted \cup Admitted

CapacityFacts ==
    /\ Typed /\ MutualExclusion /\ ActsOnWhatItSaw /\ Published
    /\ BootOnly /\ SureOfPort /\ NoWipe /\ Filed /\ AbsentRight

LEMMA RunningMove ==
    ASSUME CapacityCase, CapacityFacts, Typed', serving, RunningIsCounted,
           NEW t \in Clients, Proceed(t) \/ Arrive(t)
    PROVE  Running' \subseteq Counted' \cup Admitted'
  <1> USE DEF CapacityFacts
  <1>0. t \in Threads /\ Clients \subseteq Threads /\ t # Reaper
    BY BrokerAssumption DEF Threads
  <1>a. Alone(t)
    BY <1>0, ThreadMove
  <1> SUFFICES ASSUME NEW s \in Slugs, ctr'[s] = "running", s \notin Counted'
               PROVE  s \in Admitted'
    BY DEF Running
  \* The slug of a client past the check stays let in, counts or does not run.
  <1>1. CASE th[t].pc \in PastAdmit /\ th[t].slug = s
    <2>1. CASE th'[t].pc \in PastAdmit /\ th'[t].slug = th[t].slug
      BY <1>1, <2>1 DEF Admitted
    <2>2. CASE th[t].pc = "confirm"
      BY <1>0, <1>1, <2>2, ConfirmCounts
    <2>3. CASE th[t].pc = "port" /\ pub[th[t].slug] = None
      <3>1. ctr'[s] = ctr[s]
        BY <1>0, <2>3, DockerLocal DEF Acts
      <3>2. QED BY <1>1, <2>3, <3>1 DEF Published
    <2>4. QED BY <1>1, <2>1, <2>2, <2>3, NoLeave
  <1>2. CASE ~(th[t].pc \in PastAdmit /\ th[t].slug = s)
    <2>1. ctr[s] = "running"
      <3>1. CASE th[t].pc \in Acts /\ th[t].slug = s
        <4>1. th[t].pc \in {"replace", "stop"}
          BY <1>0, <1>2, <3>1 DEF Acts, PastAdmit, NoWipe
        <4>2. QED BY <1>0, <3>1, <4>1, StopsRight
      <3>2. QED BY <1>0, <3>1, DockerLocal
    <2>2. CASE s \in Counted
      <3>1. ~(th[t].pc = "stop" /\ s = th[t].slug)
        BY <1>0, StopsRight
      <3>2. th[t].pc \notin RowPCs
        BY DEF BootOnly
      <3>3. QED BY <1>0, <1>2, <2>2, <3>1, <3>2, CountedShrinks DEF PastAdmit, RowPCs
    <2>3. CASE s \in Admitted
      <3>1. PICK c \in Clients : th[c].pc \in PastAdmit /\ th[c].slug = s
        BY <2>3 DEF Admitted
      <3>2. c # t
        BY <1>2, <3>1
      <3>3. th'[c] = th[c]
        BY <1>0, <1>a, <3>2 DEF Alone
      <3>4. QED BY <3>1, <3>3 DEF Admitted
    <2>4. QED BY <2>1, <2>2, <2>3 DEF RunningIsCounted, Running
  <1>3. QED BY <1>1, <1>2

-----------------------------------------------------------------------------
(* Before the broker serves, the start-up reconcile counts row by row what  *)
(* runs; nothing else happens to the containers meanwhile.                  *)

Booting ==
    th[Reaper].pc # "idle" =>
        /\ th[Reaper].snap = ctr
        /\ \A s \in Running \ th[Reaper].todo : s \in Counted
        /\ th[Reaper].pc \in {"rowPort", "rowWrite"} => ctr[th[Reaper].slug] = "running"
        /\ th[Reaper].pc = "rowWrite" => th[Reaper].val # None

\* A step of the reaper, or of a client before the broker serves.
LEMMA BootContainers ==
    ASSUME CapacityFacts, NEW t \in Threads, Proceed(t) \/ Arrive(t), t = Reaper \/ ~serving
    PROVE  ctr' = ctr
  <1>1. th[t].pc \notin Acts
    BY DEF CapacityFacts, BootOnly, RowPCs, Acts, Threads
  <1>2. \A s \in Slugs : ctr'[s] = ctr[s]
    BY <1>1, DockerLocal DEF CapacityFacts
  <1>3. DockerType'
    BY TypedStep DEF CapacityFacts, Typed, Next
  <1>4. QED BY <1>2, <1>3 DEF CapacityFacts, Typed, DockerType

\* Such a step stops counting nothing that runs.
LEMMA BootKeepsCounted ==
    ASSUME CapacityFacts, Typed', Booting, NEW t \in Threads, Proceed(t) \/ Arrive(t),
           t = Reaper \/ ~serving, NEW s \in Running, s \in Counted
    PROVE  s \in Counted'
  <1> USE DEF CapacityFacts
  <1>1. s \in Slugs /\ ctr[s] = "running"
    BY DEF Running
  <1>2. th[t].pc \in RowPCs \cup {"idle"} /\ (th[t].pc # "idle" => t = Reaper)
    BY DEF BootOnly, RowPCs, Threads
  <1>3. CASE th[t].pc = "idle"
    BY <1>1, <1>3, CountedShrinks
  <1>4. CASE th[t].pc # "idle"
    <2>1. /\ th[t].snap[s] = "running"
          /\ th[t].pc = "rowWrite" => th[t].val # None
      BY <1>1, <1>2, <1>4 DEF Booting
    <2>2. th[t].pc \in RowPCs
      BY <1>2, <1>4
    <2>3. QED BY <1>1, <2>1, <2>2, CountedShrinks DEF RowPCs
  <1>5. QED BY <1>3, <1>4

LEMMA BootingMove ==
    ASSUME CapacityCase, CapacityFacts, Typed', BootOnly', Booting,
           NEW t \in Threads, Proceed(t) \/ Arrive(t)
    PROVE  Booting'
  <1> USE DEF CapacityFacts
  <1>0. Alone(t) /\ Moved(t) /\ th[t] \in Thread /\ Reaper \in Threads /\ Reaper \notin Clients
        /\ th[Reaper] \in Thread
    BY ThreadMove, ThreadsTyped, BrokerAssumption DEF Threads
  <1> SUFFICES ASSUME th'[Reaper].pc # "idle" PROVE Booting'
    BY DEF Booting
  <1>1. CASE t # Reaper
    <2>1. th'[Reaper] = th[Reaper] /\ t \in Clients
      BY <1>0, <1>1 DEF Alone, Threads
    <2>2. ~serving
      BY <2>1 DEF BootOnly
    <2>3. ctr' = ctr /\ Running' = Running
      BY <2>2, BootContainers DEF Running
    <2>4. \A s \in Running \ th[Reaper].todo : s \in Counted'
      BY <2>1, <2>2, BootKeepsCounted DEF Booting
    <2>5. QED BY <2>1, <2>3, <2>4 DEF Booting
  <1>2. CASE t = Reaper
    <2>1. ctr' = ctr /\ Running' = Running
      BY <1>2, BootContainers DEF Running
    <2>2. \A s \in Running : s \in Counted => s \in Counted'
      BY <1>2, BootKeepsCounted
    <2>3. CASE Starts(t)
      <3>1. th'[t].pc = "row" /\ th'[t].snap = ctr
            /\ th'[t].todo = {s \in Slugs : ctr[s] # "absent"}
        BY <1>0, <1>2, <2>3 DEF Starts
      <3>2. Running \subseteq th'[t].todo
        BY <3>1 DEF Running
      <3>3. QED BY <1>2, <2>1, <3>1, <3>2 DEF Booting
    <2>4. CASE ReadsRows(t)
      <3>0. /\ th[t].snap = ctr
            /\ \A s \in Running \ th[t].todo : s \in Counted
            /\ th[t].pc \in {"rowPort", "rowWrite"} => ctr[th[t].slug] = "running"
            /\ th[t].pc = "rowWrite" => th[t].val # None
        BY <1>2, <2>4 DEF ReadsRows, Booting
      <3>1. CASE th[t].pc = "row" /\ th'[t].pc = "rowPort"
        <4>1. th'[t].snap = th[t].snap /\ th'[t].todo = th[t].todo
              /\ th[t].snap[th'[t].slug] = "running"
          BY <1>0, <2>4, <3>1 DEF ReadsRows, Thread
        <4>2. QED BY <1>2, <2>1, <2>2, <3>0, <3>1, <4>1 DEF Booting
      <3>2. CASE th[t].pc = "row" /\ th'[t].pc # "rowPort"
        <4>1. PICK x \in th[t].todo : /\ th[t].snap[x] # "running"
                                      /\ th'[t] = [th[t] EXCEPT !.todo = @ \ {x}]
          BY <1>0, <2>4, <3>2 DEF ReadsRows, Thread
        <4>2. th'[t].snap = th[t].snap /\ th'[t].todo = th[t].todo \ {x} /\ th'[t].pc = "row"
          BY <1>0, <3>2, <4>1 DEF Thread
        <4>3. x \notin Running
          BY <3>0, <4>1 DEF Running
        <4>4. \A s \in Running \ th'[t].todo : s \in Counted'
          BY <2>2, <3>0, <4>2, <4>3
        <4>5. QED BY <1>2, <2>1, <3>0, <4>2, <4>4 DEF Booting
      <3>3. CASE th[t].pc = "rowPort"
        <4>1. th[t].slug \in Slugs
          BY <3>3, BusyHolds, Holding DEF Typed
        <4>2. pub[th[t].slug] # None
          BY <3>0, <3>3, <4>1 DEF Published
        <4>3. th'[t] = [th[t] EXCEPT !.pc = "rowWrite", !.val = pub[th[t].slug]]
          BY <2>4, <3>3, CaseFacts DEF ReadsRows
        <4>4. /\ th'[t].snap = th[t].snap /\ th'[t].todo = th[t].todo /\ th'[t].slug = th[t].slug
              /\ th'[t].val # None
          BY <1>0, <4>2, <4>3 DEF Thread
        <4>5. \A s \in Running \ th'[t].todo : s \in Counted'
          BY <2>2, <3>0, <4>4
        <4>6. QED BY <1>2, <2>1, <3>0, <3>3, <4>4, <4>5 DEF Booting
      <3>4. CASE th[t].pc = "rowWrite"
        <4>1. th'[t].snap = th[t].snap /\ th'[t].todo = th[t].todo \ {th[t].slug}
              /\ th'[t].pc = "row"
          BY <1>0, <2>4, <3>4 DEF ReadsRows, Thread
        <4>2. th[t].slug \in Counted'
          BY <3>0, <3>4, ConfirmCounts
        <4>3. \A s \in Running \ th'[t].todo : s \in Counted'
          BY <2>2, <3>0, <4>1, <4>2
        <4>4. QED BY <1>2, <2>1, <3>0, <4>1, <4>3 DEF Booting
      <3>5. QED BY <2>4, <3>1, <3>2, <3>3, <3>4 DEF ReadsRows
    <2>5. ~Ends(t) /\ ~GoesOn(t) /\ ~Reaps(t) /\ ~Refused(t)
      <3>1. th[t].pc \in RowPCs \cup {"idle"} /\ th'[t].pc \in RowPCs
        BY <1>2 DEF BootOnly
      <3>2. ~GoesOn(t) /\ ~Reaps(t)
        BY <3>1 DEF GoesOn, Arc, Reaps, RowPCs
      <3>3. ~Ends(t) /\ ~Refused(t)
        BY <3>1, IdleFields DEF Ends, Refused, RowPCs
      <3>4. QED BY <3>2, <3>3
    <2>6. QED BY <1>0, <2>3, <2>4, <2>5 DEF Moved
  <1>3. QED BY <1>1, <1>2

\* Serving starts when every row has been read.
LEMMA BootEnds ==
    ASSUME CapacityCase, CapacityFacts, NEW t \in Threads, Proceed(t) \/ Arrive(t),
           ~serving, serving'
    PROVE  t = Reaper /\ th[t].pc = "row" /\ th[t].todo = {}
  <1> USE DEF CapacityFacts
  <1>0. ~Fails /\ ~TimesOut
    BY CaseFacts
  <1>1. t = Reaper
    BY ServingMove DEF BootOnly, RowPCs, Threads
  <1>2. th[t].pc \in RowPCs \cup {"idle"}
    BY <1>1 DEF BootOnly
  <1>3. CASE th[t].pc = "idle"
    <2>1. Arrive(t)
      BY <1>3 DEF Proceed, Acquire, EnsureStep, CacheHit, Inspect,
         CompareImage, Replace, Admit, CreateContainer, StartContainer, ReadPort, Recheck,
         WaitHealthy, Confirm, Reply, StopStep, StopContainer, RemoveContainer, RemoveVolume,
         ReconcileStep, Row, RowPort, RowWrite, DropUnseen, ReapStep, Pick, RoundOver,
         ReadHeartbeat
    <2>2. QED BY <1>0, <2>1 DEF Arrive, Begin, Snapshot
  <1>4. CASE th[t].pc \in {"rowPort", "rowWrite"}
    <2>1. RowPort(t) \/ RowWrite(t)
      BY <1>4, ActionAt
    <2>2. QED BY <1>0, <2>1 DEF RowPort, RowWrite
  <1>5. CASE th[t].pc = "row"
    <2>1. DropUnseen(t) \/ \E s \in Slugs : Row(t, s)
      BY <1>5, ActionAt
    <2>2. DropUnseen(t)
      BY <2>1 DEF Row
    <2>3. QED BY <1>1, <1>5, <2>2 DEF DropUnseen
  <1>6. QED BY <1>2, <1>3, <1>4, <1>5 DEF RowPCs

LEMMA RunningIsCountedMove ==
    ASSUME CapacityCase, CapacityFacts, Typed', Booting, RunningIsCounted,
           NEW t \in Threads, Proceed(t) \/ Arrive(t)
    PROVE  RunningIsCounted'
  <1> SUFFICES ASSUME serving' PROVE Running' \subseteq Counted' \cup Admitted'
    BY DEF RunningIsCounted
  <1>1. CASE serving /\ t \in Clients
    BY <1>1, RunningMove
  <1>2. CASE serving /\ t = Reaper
    <2>1. Running' = Running
      BY <1>2, BootContainers DEF Running
    <2>2. \A s \in Running : s \in Counted => s \in Counted'
      BY <1>2, BootKeepsCounted
    <2>3. \A c \in Clients : th'[c] = th[c]
      BY <1>2, ThreadMove, BrokerAssumption DEF CapacityFacts, Alone, Threads
    <2>4. Admitted' = Admitted
      BY <2>3 DEF Admitted
    <2>5. QED BY <1>2, <2>1, <2>2, <2>4 DEF RunningIsCounted
  <1>3. CASE ~serving
    <2>1. t = Reaper /\ th[t].pc = "row" /\ th[t].todo = {}
      BY <1>3, BootEnds
    <2>2. Running' = Running
      BY <2>1, BootContainers DEF Running
    <2>3. Running \subseteq Counted
      BY <2>1 DEF Booting
    <2>4. \A s \in Running : s \in Counted => s \in Counted'
      BY <2>1, BootKeepsCounted
    <2>5. QED BY <2>2, <2>3, <2>4
  <1>4. QED BY <1>1, <1>2, <1>3 DEF Threads

-----------------------------------------------------------------------------
(* The bound.  A step either takes no more room, or it admits a client when *)
(* fewer than MaxSessions sessions count; then what runs is among the       *)
(* counted and those let in, of which there are no more than clients.       *)

Room == IsFiniteSet(Taken) /\ Cardinality(Taken) < MaxSessions + Cardinality(Clients)

LEMMA SmallerRoom ==
    ASSUME Room, IsFiniteSet(Clients), NEW X, X \subseteq Taken
    PROVE  IsFiniteSet(X) /\ Cardinality(X) < MaxSessions + Cardinality(Clients)
  <1>1. IsFiniteSet(X) /\ Cardinality(X) <= Cardinality(Taken)
    BY FS_Subset DEF Room
  <1>2. Cardinality(X) \in Nat /\ Cardinality(Taken) \in Nat /\ Cardinality(Clients) \in Nat
    BY <1>1, FS_CardinalityType DEF Room
  <1>3. QED BY <1>1, <1>2, BrokerAssumption DEF Room

LEMMA RoomBounds ==
    ASSUME Room, IsFiniteSet(Clients)
    PROVE  CapacityBound
  <1>1. Running \subseteq Taken
    BY DEF Taken
  <1>2. Cardinality(Running) < MaxSessions + Cardinality(Clients)
    BY <1>1, SmallerRoom
  <1>3. QED BY <1>2 DEF CapacityBound

LEMMA CountedConfirmed ==
    ASSUME CapacityFacts, Typed', Booting, NEW t \in Threads, Proceed(t) \/ Arrive(t)
    PROVE  Counted' \subseteq Counted \cup Running
  <1> USE DEF CapacityFacts
  <1> SUFFICES ASSUME NEW s \in Slugs, s \in Counted', s \notin Counted
               PROVE  ctr[s] = "running"
    BY DEF Counted, Running
  <1>1. th[t].pc \in {"confirm", "rowWrite"} /\ s = th[t].slug
    BY CountedGrows
  <1>2. CASE th[t].pc = "confirm"
    BY <1>1, <1>2 DEF SureOfPort, Sure, AfterPort, Published
  <1>3. CASE th[t].pc = "rowWrite"
    <2>1. t = Reaper
      BY <1>3 DEF BootOnly, RowPCs, Threads
    <2>2. QED BY <1>1, <1>3, <2>1 DEF Booting
  <1>4. QED BY <1>1, <1>2, <1>3

\* An admission of a session that does not count yet.
LEMMA AdmissionRoom ==
    ASSUME CapacityCase, CapacityFacts, Typed', RunningIsCounted, Room, IsFiniteSet(Clients),
           NEW t \in Clients, Proceed(t) \/ Arrive(t),
           th[t].pc \in {"admitCreate", "admitStart"}, ~(RunningCount >= MaxSessions)
    PROVE  Room'
  <1> USE DEF CapacityFacts
  <1>0. t \in Threads /\ serving
    BY DEF BootOnly, Threads
  <1>1. serving /\ Running' \subseteq Counted' \cup Admitted'
    BY <1>0, RunningMove
  <1>2. Counted' \subseteq Counted
    BY <1>0, CountedGrows DEF Counted
  <1>3. Taken' \subseteq Counted \cup Admitted'
    BY <1>1, <1>2 DEF Taken
  <1>4. IsFiniteSet(Counted) /\ Cardinality(Counted) \in Nat
    BY SmallerRoom, FS_CardinalityType DEF Taken
  <1>5. Cardinality(Counted) < MaxSessions
    <2>1. RunningCount = Cardinality(Counted)
      BY DEF RunningCount, Counted
    <2>2. QED BY <1>4, <2>1, BrokerAssumption
  <1>6. IsFiniteSet(Admitted') /\ Cardinality(Admitted') <= Cardinality(Clients)
    <2>1. IsFiniteSet(Clients)
      OBVIOUS
    <2> DEFINE D == {d \in Clients : th'[d].pc \in PastAdmit}
               f == [c \in D |-> th'[c].slug]
    <2>2. IsFiniteSet(D) /\ Cardinality(D) <= Cardinality(Clients)
      BY <2>1, FS_Subset
    <2>3. f \in Surjection(D, Admitted')
      BY DEF Surjection, Admitted
    <2>4. IsFiniteSet(Admitted') /\ Cardinality(Admitted') <= Cardinality(D)
      BY <2>2, <2>3, FS_Surjection
    <2>5. Cardinality(Admitted') \in Nat /\ Cardinality(D) \in Nat /\ Cardinality(Clients) \in Nat
      BY <2>1, <2>2, <2>4, FS_CardinalityType
    <2>6. QED BY <2>2, <2>4, <2>5
  <1>7. Cardinality(Admitted') \in Nat /\ Cardinality(Clients) \in Nat
        /\ Cardinality(Counted \cap Admitted') \in Nat
    <2>1. IsFiniteSet(Counted \cap Admitted')
      BY <1>4, FS_Subset
    <2>2. QED BY <1>6, <2>1, FS_CardinalityType
  <1>8. IsFiniteSet(Counted \cup Admitted')
        /\ Cardinality(Counted \cup Admitted') < MaxSessions + Cardinality(Clients)
    <2>1. IsFiniteSet(Counted \cup Admitted')
          /\ Cardinality(Counted \cup Admitted') =
                Cardinality(Counted) + Cardinality(Admitted') - Cardinality(Counted \cap Admitted')
      BY <1>4, <1>6, FS_Union
    <2>2. QED BY <1>4, <1>5, <1>6, <1>7, <2>1, BrokerAssumption
  <1>9. IsFiniteSet(Taken') /\ Cardinality(Taken') <= Cardinality(Counted \cup Admitted')
    BY <1>3, <1>8, FS_Subset
  <1>10. Cardinality(Taken') \in Nat /\ Cardinality(Counted \cup Admitted') \in Nat
    BY <1>8, <1>9, FS_CardinalityType
  <1>11. QED BY <1>7, <1>8, <1>9, <1>10, BrokerAssumption DEF Room

\* Every other step of a thread.
LEMMA NoMoreTaken ==
    ASSUME CapacityCase, CapacityFacts, Typed', Booting, RunningIsCounted,
           NEW t \in Threads, Proceed(t) \/ Arrive(t),
           ~(t \in Clients /\ th[t].pc \in {"admitCreate", "admitStart"}
             /\ ~(RunningCount >= MaxSessions))
    PROVE  Taken' \subseteq Taken
  <1> USE DEF CapacityFacts
  <1>1. Counted' \subseteq Taken
    BY CountedConfirmed DEF Taken
  <1>2. Admitted' \subseteq Taken
    <2>1. CASE t \in Clients
      <3>1. ASSUME NEW s \in Admitted', s \notin Admitted
            PROVE  s \in Running \cup Counted
        <4>1. /\ s = th[t].slug /\ s \in Slugs
              /\ \/ ctr[s] = "running"
                 \/ th[t].pc \in {"admitCreate", "admitStart"} /\ Sess(t).status = "running"
          BY <2>1, <3>1, AdmittedGrows
        <4>2. CASE th[t].pc \in {"admitCreate", "admitStart"} /\ Sess(t).status = "running"
          <5>1. th[t].ref # None
            BY <4>2, BusyHolds DEF Typed
          <5>2. table[s] = th[t].ref
            BY <4>1, <5>1 DEF Filed, FiledAs
          <5>3. QED BY <4>1, <4>2, <5>1, <5>2 DEF Counted, Sess
        <4>3. QED BY <4>1, <4>2 DEF Running
      <3>2. QED BY <3>1 DEF Taken
    <2>2. CASE t = Reaper
      <3>1. \A c \in Clients : th'[c] = th[c]
        BY <2>2, ThreadMove, BrokerAssumption DEF Alone, Threads
      <3>2. Admitted' = Admitted
        BY <3>1 DEF Admitted
      <3>3. QED BY <3>2 DEF Taken
    <2>3. QED BY <2>1, <2>2 DEF Threads
  <1>3. Running' \subseteq Taken
    <2>1. CASE serving /\ t \in Clients
      BY <1>1, <1>2, <2>1, RunningMove
    <2>2. CASE t = Reaper \/ ~serving
      BY <2>2, BootContainers DEF Running, Taken
    <2>3. QED BY <2>1, <2>2 DEF Threads
  <1>4. QED BY <1>1, <1>2, <1>3 DEF Taken

LEMMA RoomMove ==
    ASSUME CapacityCase, CapacityFacts, Typed', Booting, RunningIsCounted, Room,
           IsFiniteSet(Clients), NEW t \in Threads, Proceed(t) \/ Arrive(t)
    PROVE  Room'
  <1>1. CASE /\ t \in Clients /\ th[t].pc \in {"admitCreate", "admitStart"}
             /\ ~(RunningCount >= MaxSessions)
    BY <1>1, AdmissionRoom
  <1>2. CASE Taken' \subseteq Taken
    BY <1>2, SmallerRoom DEF Room
  <1>3. QED BY <1>1, <1>2, NoMoreTaken

-----------------------------------------------------------------------------
(* The rest of the world, and the theorem *)

CapacityInv ==
    NoWipe /\ Filed /\ AbsentRight /\ Booting /\ RunningIsCounted /\ Room

LEMMA CapacityInit ==
    ASSUME IsFiniteSet(Clients), Clients # {}, Init
    PROVE  CapacityInv
  <1>1. /\ \A t \in Threads : th[t] = Idle
        /\ \A s \in Slugs : ctr[s] = "absent" /\ table[s] = None
        /\ ~serving
    BY DEF Init
  <1>2. Clients \subseteq Threads /\ Reaper \in Threads
    BY DEF Threads
  <1>3. Running = {} /\ Counted = {} /\ Admitted = {}
    BY <1>1, <1>2, IdleFields DEF Running, Counted, Admitted, PastAdmit, AfterPort
  <1>4. Taken = {}
    BY <1>3 DEF Taken
  <1>5. Cardinality(Clients) \in Nat /\ Cardinality(Clients) # 0
    BY FS_CardinalityType, FS_EmptySet
  <1>6. IsFiniteSet({}) /\ Cardinality({}) = 0
    BY FS_EmptySet
  <1>7. Room
    BY <1>4, <1>5, <1>6, BrokerAssumption DEF Room
  <1>8. QED BY <1>1, <1>2, <1>7, IdleFields
            DEF CapacityInv, NoWipe, Filed, FiledAs, AbsentRight, AbsentFor, Booting,
                RunningIsCounted

\* Time, image rollouts, users at work: neither containers nor sessions change.
LEMMA CapacityWorld ==
    ASSUME Typed, CapacityCase, CapacityInv, Environment \/ UNCHANGED vars, ~BrokerRestart
    PROVE  CapacityInv'
  <1>1. Clients \subseteq Threads /\ Reaper \in Threads
    BY DEF Threads
  <1>2. /\ table' = table /\ serving' = serving /\ ctr' = ctr
        /\ \A o \in Obj : heap'[o].status = heap[o].status
        /\ \A t \in Threads :
              /\ th'[t].pc = th[t].pc /\ th'[t].slug = th[t].slug /\ th'[t].ref = th[t].ref
              /\ th'[t].val = th[t].val /\ th'[t].op = th[t].op /\ th'[t].snap = th[t].snap
              /\ th'[t].todo = th[t].todo
    <2>1. CASE Tick
      BY <2>1, TickMoved
    <2>2. CASE UNCHANGED vars
      BY <2>2 DEF vars
    <2>3. CASE Environment /\ ~Tick
      <3>1. ctr' = ctr
        BY <2>3, CaseFacts DEF Environment, SeenExpires, UserWorks, BeatExpires, ContainerExits,
                Rollout, NoEffect, dockerVars
      <3>2. QED BY <2>3, <3>1, WorldMoved
    <2>4. QED BY <2>1, <2>2, <2>3
  <1>3. \A s \in Slugs : table[s] \in Obj \cup {None}
    BY DEF Typed, MemoryInv, WellFormed
  <1>4. Running' = Running /\ Counted' = Counted /\ Admitted' = Admitted
    BY <1>1, <1>2, <1>3 DEF Running, Counted, Admitted
  <1>5. Taken' = Taken
    BY <1>4 DEF Taken
  <1>6. Room' /\ RunningIsCounted' /\ Booting'
    BY <1>1, <1>2, <1>4, <1>5 DEF CapacityInv, Room, RunningIsCounted, Booting
  <1>7. NoWipe' /\ Filed' /\ AbsentRight'
    BY <1>2 DEF CapacityInv, NoWipe, Filed, FiledAs, AbsentRight, AbsentFor
  <1>8. QED BY <1>6, <1>7 DEF CapacityInv

\* The broker dies: what ran runs on, nothing is counted any more.
LEMMA CapacityRestart ==
    ASSUME CapacityInv, IsFiniteSet(Clients), BrokerRestart
    PROVE  CapacityInv'
  <1>1. /\ \A t \in Threads : th'[t] = Idle
        /\ \A s \in Slugs : table'[s] = None
        /\ ~serving' /\ ctr' = ctr
    BY DEF BrokerRestart, NoEffect, dockerVars
  <1>2. Clients \subseteq Threads /\ Reaper \in Threads
    BY DEF Threads
  <1>3. Running' = Running /\ Counted' = {} /\ Admitted' = {}
    BY <1>1, <1>2, IdleFields DEF Running, Counted, Admitted, PastAdmit, AfterPort
  <1>4. Taken' \subseteq Taken
    BY <1>3 DEF Taken
  <1>5. Room'
    BY <1>4, SmallerRoom DEF CapacityInv, Room
  <1>6. QED BY <1>1, <1>2, <1>5, IdleFields
            DEF CapacityInv, NoWipe, Filed, FiledAs, AbsentRight, AbsentFor, Booting,
                RunningIsCounted

LEMMA CapacityStep ==
    ASSUME CapacityCase, IsFiniteSet(Clients), Typed, Typed', MutualExclusion, ActsOnWhatItSaw,
           Published, BootOnly, BootOnly', SureOfPort, CapacityInv, [Next]_vars
    PROVE  CapacityInv'
  <1>1. CapacityFacts
    BY DEF CapacityFacts, CapacityInv
  <1>2. ASSUME NEW t \in Threads, Proceed(t) \/ Arrive(t)
        PROVE  CapacityInv'
    <2>1. NoWipe' /\ Filed' /\ AbsentRight'
      BY <1>2, NoWipeMove, FiledMove, AbsentMove DEF CapacityInv
    <2>2. Booting' /\ RunningIsCounted' /\ Room'
      BY <1>1, <1>2, BootingMove, RunningIsCountedMove, RoomMove DEF CapacityInv
    <2>3. QED BY <2>1, <2>2 DEF CapacityInv
  <1>3. QED BY <1>2, CapacityWorld, CapacityRestart DEF Next

(* The capacity check, made before the container runs and counted after it  *)
(* is healthy, lets through fewer than MaxSessions and one container per    *)
(* request thread, for any number of slugs and across restarts.             *)
THEOREM CapacityBoundAlways ==
    ASSUME CapacityCase, IsFiniteSet(Clients), Clients # {}
    PROVE  Spec => []CapacityBound
  <1>1. NoReconcile /\ "exit" \notin Faults
    BY CaseFacts
  <1>2. Typed /\ BootOnly /\ [Next]_vars => BootOnly'
    BY <1>1, BootOnlyStep
  <1>3. Typed /\ Typed' /\ MutualExclusion /\ BootOnly /\ SureOfPort /\ [Next]_vars => SureOfPort'
    BY <1>1, SureStep
  <1>4. Typed /\ Typed' /\ MutualExclusion /\ ActsOnWhatItSaw /\ PortsOwned /\ BootOnly
        /\ BootOnly' /\ SureOfPort /\ CapacityInv /\ [Next]_vars => CapacityInv'
    BY CapacityStep DEF PortsOwned
  <1>5. Init => CapacityInv
    BY CapacityInit
  <1>6. CapacityInv => CapacityBound
    BY RoomBounds DEF CapacityInv
  <1>7. QED BY <1>2, <1>3, <1>4, <1>5, <1>6, HonestInit, AlwaysTyped, AlwaysOwned, LocksExclude,
               SawStillHolds, PTL DEF Spec
=============================================================================
