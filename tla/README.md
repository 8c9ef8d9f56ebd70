# Formal model of the CADS firmware lab

TLA+ modules, TLC configurations and TLAPS proofs for the programs of this
repository: the broker that gives every student a code-server container, the
probe driver and board bridge that put a debugger between the editor and the
STM32 board, and the tutor that tracks progress through a course.

Check a configuration with `tlc -config MCBroker_core.cfg MCBroker`, a proof
module with `tlapm BrokerProofs.tla`. `PROJECT.json` lists the runs, the mutants
that show each property can fail, the source lines of every definition, the
hazards and the theorems.

## 1. Inventory

| Component | State it keeps | Operations | Talks to | What is hard |
|---|---|---|---|---|
| Session broker (`deploy/multiuser/broker/fl_broker.py`) | session table, slug locks, one `Session` per slug | resolve/ensure, stop, wipe, list, reconcile, reap | docker CLI, `/healthz`, the Caddy gate | request threads and the reaper interleave at every docker call; commands time out with or without effect; restart loses all memory |
| Probe service (`extensions/cads-probe/src/driver/probe.ts`) | USB attachment, generation, poller timer, core status | attach, halt, run, step, reset, read, write, flash, breakpoints, onUsbDisconnected | ST-LINK over WebUSB, bridge | one mutex against a poller whose timers it does not hold, USB loss in the middle of an operation |
| Breakpoint unit (`driver/breakpoints.ts`) | FPB and DWT slots, software breakpoints with the original instruction | set, clear, clearAll, reapply | target memory through the probe | a write that fails half way; what survives a re-attach |
| Flash driver (`driver/stm32fs.ts`), run control (`driver/cortexm.ts`, `stlinkv2.ts`, `stlinkusb.ts`) | none but the connection's `broken`; the rest is in the processor and the flash controller | halt, step, resetHalt, resetRun, readMem, writeMem; unlock, erase, program, verify, lock | USB transfers to the target | an operation is up to dozens of transfers, each may fail, with or without effect, or find the board reset; what it leaves behind meets the next one |
| Serial console (`driver/serial.ts`, serial part of `probe.ts` and of both `extension.ts`) | the port, the console, `serialState`, the bridge's mirror of it | open, write, close, the read loop, the browser's connect and disconnect | WebSerial, bridge | the read loop and the browser's events run beside the mutex that the operations hold |
| GDB server (`extensions/cads-board-bridge/src/rsp/server.ts`) | running, interruptPending, memory cache, flash buffer | one handler per packet, interrupt, stop replies | GDB socket, probe client | an answer owed to GDB that is never sent or sent twice; the cache; disconnect with handlers queued |
| RSP packets (`rsp/packet.ts`) and serial lines (`board.ts` 224-263) | parser state, line buffer, waiters | feed, encode; onSerialChunk, waitForSerial | GDB socket, serial console | streams arrive cut anywhere |
| Board controller (`src/board.ts`), HTTP bridge, ELF loading (`elf.ts`) | flashing flag, status | flash, reset, connect, status | probe client, HTTP | overlapping calls |
| Tutor session (`extensions/cads-tutor/src/session.ts`) | step states, task states, hint tiers, failures, completion | recordTaskResult, setHintTier, setCurrentStep, read, write | a JSON file | marks that follow from other state, persistence |
| Tutor controller (`src/controller.ts`) and panel | current session and step, checks, loops and hints under way, what the panel shows | runTask, runAllTasks, runLocalChecks, gotoStep, showHint, resetProgress, reloadCourses | checks, panel, language model | the step, the session or the courses change while a check is awaited |
| Checks (`src/checks/*`, `src/vscodeChecks.ts`) | waiters, the history of debugger stops | runCheck, waitForExit, waitFor | editor events, board bridge | all/any composition, events in either order, timeouts |
| Course loader (`src/loader.ts`, `src/schema.ts`) | none | collectSources, loadCoursePack, loadCourses | files | broken copies, and what the runner relies on them for |

User interface, course data, vendored WebUSB code, installation scripts and
the command-line shims keep no state of their own that others rely on; they
are listed in `PROJECT.json` with the reason they are left out.

### What makes each component correct

- *Broker.* Operations on one slug exclude each other and never leave the lock
  behind; decisions made from a docker answer still hold when acted upon; no
  user is ever sent to another's container; the cache is no staler than its
  window; the number of running containers stays near the limit; a container
  that runs is eventually counted, and an idle one stopped.
- *Probe.* A processor believed to run is polled; what the service believes of a
  processor it can reach is right; a lost adapter is reported.
- *Breakpoints.* The hardware comparators are what the tracked slots say, RAM holds
  a BKPT where a breakpoint is tracked, and the program stops where the user was told
  it would, through resets.
- *Flash and run control.* Success means what it says: the flash holds the file, the
  processor is where it was to be, no catch or mask is left; failure leaves what a
  retry can start from, and the flash locked; no word outside the image's sectors
  changes.
- *Serial.* Once nothing is under way the browser, the service and the bridge agree,
  and the port can be opened again.
- *GDB server.* Every command gets one answer, a `c` gets its stop reply when
  the core stops, cached memory is what the target holds, closing the debugger
  leaves the board running.
- *Streams.* Packets, lines and awaited texts do not depend on how the stream is cut.
- *Tutor.* Progress is made of verdicts of checks that were begun for the task, resets
  and restarts only; completion means every task passed; whatever was achieved is
  written; the panel settles on the session, and no click is left without an answer.
- *Checks and courses.* A verdict is what its parts came out as; no exit, reply or stop
  that counts is missed, whatever the order of events; every check ends; a broken
  copy of a course does not hide a good one.

## 2. Modules

| # | Modules | Contents | Proofs |
|---|---|---|---|
| 1 | `Broker`, `MCBroker`, `BrokerProofs` | the broker: request threads, the reaper, docker | types, mutual exclusion, decisions still valid; own ports, the cache, the capacity limit |
| 2 | `Breakpoints`, `MCBreakpoints`, `BreakpointProofs` | comparators, RAM breakpoints, resets, lost connections | types; what is tracked is armed, what was told stops the program, from one reapplied reset to the next that is not |
| 3 | `Probe`, `GdbServer`, `MCGdb`, `GdbProofs` | mutex, poller, USB lifecycle; the packet queue, cache and sockets on top of it | types, the poller, what the service believes; fresh reads, releases |
| 4 | `CortexM`, `Flash`, `Elf`, `MCFlash`, `FlashProofs` | run control, memory access and flashing transfer by transfer; `CortexM` checks that `Probe`'s one-step operations are what the transfers amount to | one step per operation, clean-up, lock, other sectors, ranges; what was flashed is there |
| 5 | `Serial`, `MCSerial`, `SerialProofs` | the serial console across browser, service and bridge | types; answers fit; with one port, states settle and no port leaks |
| 6 | `Streams`, `MCStreams`, `StreamsProofs` | packets and lines as pure operators over cut streams | waiters, lines, and packets from encoder to parser, for every stream and every cut |
| 7 | `Tutor`, `TutorProgress`, `MCTutor`, `TutorProofs` | progress as an abstract specification, and the controller that implements it | types, completion, durability, the panel, the refinement |
| 8 | `Course`, `Checks`, `MCChecks`, `ChecksProofs` | the loader, and the runner on what it loads | first copies, verdicts, answers and stops, for checks of every shape |

`GdbServer` extends `Probe` (the two programs share a wire), `Flash` extends `CortexM`
and `Elf`, `Checks` extends `Course`. `CortexM` instantiates `Probe` to compare one
operation's transfers with `Probe`'s step. `Tutor` instantiates `TutorProgress`.

## 3. The broker

### Model and code

`Broker.tla` models class `Broker` and the request handler that calls it.

- A *thread* is one HTTP request (`Clients`) or the reaper. Its program
  counter and locals are `th[t]`. The code can be preempted anywhere, but it
  only shares state at docker calls, locks and the session table, so one
  action runs from one docker call (or lock) to just before the next.
- *Session objects* live in `heap`; `table` is `Broker.sessions`. A thread
  holds a reference (`ref`) taken before the slug lock (lines 350, 411, 419),
  which after a wipe is no longer the table's. An unreachable object is
  collected, so a handful of identities is enough.
- `lock[s]` is the slug lock. `Raise` is a `BrokerError` leaving the `with`
  block; `AfterReturn` and `CandsAfterRaise` are what that means inside the
  reaper's round.
- *docker* is external: `ctr`, `pub` (published port), `old` (its image is no
  longer current), `vol`, `beat` (recent heartbeat file). A command takes
  effect or not; under `"fail"` it may return a non-zero code, under
  `"timeout"` it may raise with or without having taken effect. A failing
  `docker run` may leave a created container behind.
- *Time* is the age of `verified_at` in ticks up to `CacheTicks` (the resolve
  window), and whether `last_seen` and the heartbeat are within the idle
  limit. `CacheTicks = 0` switches the cache off.
- `gone[s][p]` is a history variable: how long ago slug `s` last published
  port `p`.

| Code | Actions |
|---|---|
| `ensure_session` 347-393 | `Begin`, `CacheHit`, `Acquire`, `Inspect`, `CompareImage`, `Replace`, `Admit`, `CreateContainer`, `StartContainer`, `ReadPort`, `Recheck`, `WaitHealthy`, `Confirm`; the handler's answer is `Reply` |
| `stop_session`, `wipe_session` 410-426 | `Begin`, `Acquire`, `StopContainer`, `RemoveContainer`, `RemoveVolume` |
| `reconcile` 296-333 (reaper, list request, start-up) | `Snapshot`, `Row`, `RowPort`, `RowWrite`, `DropUnseen` |
| `reap_idle` 443-460 | `Pick`, `ReadHeartbeat`, then `Acquire` and `StopContainer`; `RoundOver` |
| the process dies, watchdog starts it | `BrokerRestart` |
| outside | `Tick`, `SeenExpires`, `UserWorks`, `BeatExpires`, `ContainerExits`, `Rollout` |

### Runs

| Run | Instance | Shows |
|---|---|---|
| `broker_core` | 1 slug, 2 clients, `ensure`, `stop`, `wipe`; failing and hanging docker commands, unhealthy containers, new images, broker restarts; 2 ticks | `TypeOK`; `MutualExclusion`: a thread is in the locked region exactly while it holds the lock; `ActsOnWhatItSaw`: the container ensure starts or replaces is still stopped; `CacheHonest`: a port answered from memory was published by this slug no longer ago than the session's age says |
| `broker_capacity` | 3 slugs, 2 clients, limit 1 | `CapacityBound`: fewer than limit + clients containers run; `OwnPort`: no session object holds a port that only another slug's container published |
| `broker_live` | 1 slug, 1 client and the reaper; unhealthy and self-exiting containers; fairness | `UncountedFound`: a running container is counted sooner or later; `IdleStopped`: an idle one is stopped |

Two things the model shows are not runs because the code says so itself or
nothing depends on them: the count is taken before the container starts and
outside any common lock, so the limit can be exceeded by one container per further
request under way (hence `CapacityBound`'s allowance, which is meant between two
reconciles: the run has none), and the handler
reads the port after the slug's lock is released, so an answer to a
session stopped in between may carry none.

*Bounds.* Two clients are enough for every race of two requests, and the
reaper is a third thread where it matters; the code keeps no state that relates
more than two threads on one slug. Slugs meet only in the capacity count and in
the ports, hence three slugs in `broker_capacity`, where a port that one container gives
back is taken by another's. `Obj` has one identity for every reference that can
exist at once, so a request is never blocked for want of one. `Slugs`, `Clients`
and `Ports` are symmetric; objects are not (`CHOOSE`), and the liveness run uses
no symmetry.

*Where a property is narrowed.* `CacheHonest` is checked without concurrent
reconciles and without self-exiting containers, because `reconcile` stamps
`verified_at` with a clock read before `docker port` and the cache has no way
to see an exit. `CapacityBound` is checked without the reaper: a
reconcile can hide a starting container from the count for its whole start. With it
goes `OwnPort`; that no reconcile breaks it, whatever the ports, is left to its proof.
`broker_live` has no hanging docker commands: with a container whose
`docker exec` hangs for ever the round ends before the candidates behind it.

*Fairness.* Every docker call and the health poll are bounded by a timeout, so
each thread is weakly fair. `threading.Lock` is not fair, so nothing says which
waiter gets a slug lock. The reaper's wait ends after its interval, and the
idle limit passes. Nothing is assumed of users or the outside.

### Proofs

`BrokerProofs.tla` proves, for all constants that satisfy `BrokerAssumption`:

- `TypeCorrect`: `Spec => []TypeOK`. The inductive invariant `Typed` adds to the
  types that a thread that is busy with a slug holds an object of that very slug,
  that the table maps a slug to an object of its own, and that whatever is
  reachable is not collected: without it `heap[th[t].ref]` could be any value
  after a collection. `MemoryStep`, `Rebind` and `PutSession` are the lemmas
  about the heap every action goes through.
- `LocksExclude`: `Spec => []MutualExclusion`. Each step of a thread is shown to
  be one of three moves (`LockMove`: enter with a free lock, stay, leave and
  free it) that touches no other thread; the three moves keep the invariant.
- `SawStillHolds`: `Spec => []ActsOnWhatItSaw`. `SeesRight` adds docker's own
  bookkeeping (a published port means a running container). A thread only
  changes the container of the slug whose lock it has (`OnlyMine`), so the
  others' knowledge survives; the thread's own is refreshed by the step that
  took it there.

Its second half is about what the broker remembers of docker. `Written`
says once what a step of a thread does to a session object (nothing, a new or
blanked one, a port just read, a confirmation, a row of a reconcile); the invariants
below only look at these cases.

- `OwnPortAlways`: `Spec => []OwnPort`, with no further assumption. `PortsOwned` adds
  that whatever is published now counts as published (`gone = 0`), and that the rows a
  reconcile has taken its snapshot of belong to their slugs.
- `CacheHonestAlways`: `Spec => []CacheHonest`, if there is no reconcile at all
  (`NoReconcile`: no list request, no reaper; the one at start-up is there) and
  no container exits by itself. `SureOfPort` follows a thread from `ReadPort` to `Confirm`: the
  port it carries is published by a container that runs, because the others are
  kept out by the slug's lock (`LocksExclude`) and what it saw still holds
  (`SawStillHolds`). `RowsHonest` does the same for the rows of the start-up reconcile,
  during which nobody else runs (`BootOnly`). TLC finds counterexamples as soon as
  either hypothesis is dropped.
- `CapacityBoundAlways`: `Spec => []CapacityBound` for any finite set of clients that
  ensure and stop sessions, with rollouts and restarts (`CapacityCase`). The count is
  not inductive: `Room` bounds the union `Taken` of the containers that run, the
  sessions the table counts and those *admitted*, between check and confirmation.
  When one more is admitted, fewer than the limit count, at most one per other
  client is admitted, and `RunningIsCounted` says that nothing else runs;
  `Booting` establishes that at every start, and `Filed`, `AbsentRight` and `NoWipe`
  are what keeps it true.

Only model-checked: `UncountedFound` and `IdleStopped`, which need fairness.

### Not modelled

HTTP parsing, the admin token and slug checks, formatting of answers, the
columns `list_sessions` adds for display, and the environment passed to the
container. `SessionOf` ignores the e-mail hash, which is only a label.

## 4. The breakpoint unit

### Model and code

`Breakpoints.tla` models `BreakpointUnit` (`driver/breakpoints.ts`) inside the
`ProbeService` operations that own it. The service's mutex runs one operation at
a time, so an operation is one action; the sequence of transfers inside it
matters only for where it may stop, and each action has a disjunct per such
point.

- *What the driver believes* is `hw`, `sw` and `wp`: the tracked code
  comparators, RAM breakpoints (with the instruction to put back) and
  watchpoints. *What the board does* is `fpb`, `comp`, `trace`, `dwt` and `ram`.
  The driver never reads a comparator back, so the two can only stay in step by
  the order in which the code updates them.
- `told` is the client's view: the breakpoints it has been answered "ok" for.
- `usb` is the service's state, with two moments the code passes through:
  `"broken"` (a transfer failed inside a restore whose error is swallowed) and
  `"leaving"` (between `clearAll` and dropping the unit in `detachUsb`).
- *Faults.* `"target"`: the target refuses a memory access, nothing is changed.
  `"stall"`: a transfer fails and may or may not have taken effect. `"usb"`: the
  same, and the connection is over. `"loses"`: a system reset clears the
  comparators and `FP_CTRL`, which the code provides for with `reapply`
  (`breakpoints.ts:183`).
- Two resets are not followed by `reapply`: the one that ends `flash`
  (`probe.ts:560`), and one that fails, for instance because the core does not halt
  in time (`cortexm.ts:127`). `lapsed` is a history variable: such a reset has lost
  the registers and no complete reset has reapplied them since.
- *Addresses* end at `AddrEnd` and the arithmetic is JavaScript's: `& 0xfffffffe`
  yields a signed number (`Masked`), comparators take the address modulo the code
  region (FPB version 1) or modulo `AddrEnd` (version 2).

| Code | Actions |
|---|---|
| `setBreakpoint` | `SetCode`, `SetRam` |
| `clearBreakpoint` | `ClearCode`, `ClearRam` |
| `setWatchpoint`, `clearWatchpoint` | `SetWatch`, `ClearWatch` |
| `clearAll`, also as the first step of detaching | `ClearAll`, `Detach` with `Detached` |
| `flash`: `clearAll`, programming that may fail, the reset | `Flash` |
| `reapply` after `resetHalt` and `resetRun` | `Reset` |
| `attachUsb`, a failure found by the next transfer, the cable pulled | `Attach`, `Noticed`, `Unplug` |

### Runs

| Run | Instance | Shows |
|---|---|---|
| `bp_sync` | FPB version 1, two code and two watch comparators, every operation; refused accesses, connections that break at any transfer, resets that clear the debug registers | `TrackedArmed`: whatever is tracked is armed in the target; `ToldStops`: the program stops wherever the client was told it would, whatever was done to other slots meanwhile; `NoPhantom`: no comparator is armed that the driver has forgotten. The first two say of the comparators only what holds while not `lapsed` |

*Bounds.* `AddrEnd` is 128, which ends code at 16 and puts the sign at 64, instead of
2^32, 2^29 and 2^31. Two comparators of a kind are fewer than the
addresses asked for, so slots run out and are reused. Two addresses of code share
a word, and one differs from another only in its Thumb bit.

*Where a property is narrowed.* With `"stall"` a comparator can be cleared while it
is still tracked, so `bp_sync` has no stalls. `NoPhantom` excepts the comparators
in `left`, a history variable: those armed when a connection broke. `TrackedArmed`
and `ToldStops` except what happens while `lapsed`: on a part whose reset clears
`FP_CTRL`, a breakpoint set after `flash` is answered `hw` and tracked, but the unit is
off, because `probed` stays set and only `probe` and `reapply` enable it. The next
reset that succeeds arms it, which the properties do say. Without the exception TLC
finds both violated: set, flash, set again, and the unit that was told to stop the program is off. `reapply` does not write
`DEMCR.TRCENA` again, so on a target whose reset clears that bit too, watchpoints would
stay off; the model's resets leave it alone.

### Proofs

`BreakpointProofs.tla` proves, for any number of comparators, both FPB versions, any
`AddrEnd` divisible by 8, any addresses and watchpoints (`BreakpointAssumption`):

- `TypeCorrect`: `Spec => []TypeOK`, whatever `Faults` is. No run checks it.
- `TrackedArmedAlways`, `NoPhantomAlways`: `Spec => []TrackedArmed` and `[]NoPhantom`
  if `"stall" \notin Faults`; with stalls they are false (above). The inductive
  invariant is `InStep`: while connected, the two of them, the FPB is enabled unless
  `lapsed` (without it no comparator is armed, and only `Attach` and `Reset` enable it),
  and `ToldTracked`. There is one lemma per operation; `ReappliesAgrees` is the one
  that ends a lapse.
- `ToldStopsAlways`: `Spec => []ToldStops` under the same assumption, and for version 1
  with no address from `AddrEnd \div 2` up. That one is needed: such an address is
  negative after `& 0xfffffffe`, passes for one of code, and takes a comparator that
  cannot match it. The board has no executable memory up there. `ComparatorExact` (the
  value written stands for that halfword and no other) and `SignedInjective` (two
  breakpoints never share what is tracked) carry the argument.

*Not modelled.* The order of the four DWT
register writes (the function register is
last, so the comparator is off until then), reading `FP_CTRL` and `DWT_CTRL`,
the refusal of a flash range before anything is done, and what the flash driver does
between `clearAll` and the reset (`Flash.tla` has that). That a RAM breakpoint gives
back the instruction it replaced has no property: two rows of section 11 and two
hazards say how it can fail.

## 5. The probe service and the GDB server

### Model and code

Two programs on two event loops: `ProbeService` in the browser's worker, and the
board bridge in the node host. Calls and events between them are messages.

`Probe.tla` is the worker.

- `mutex` is the promise chain of `driver/mutex.ts`: jobs in the order in which
  they asked; the head runs. A job is a call (`op` or `batch`, of which `ops` is what
  is left), a poll, an attach, a detach, or the end of a USB disconnect (`"gone"`).
  One action is one operation: everything in it is under the mutex.
- The poller is a generation counter and a timer handle that four functions share.
  `poller` is what the current generation does, `pollTimer` whether the handle is
  set, `stray` whether a timer of an earlier generation runs that the handle no
  longer refers to. A queued poll whose generation has passed is `"stale"`: it
  does nothing, but its `finally` clears the handle all the same (line 344).
- `link` says that the USB device the service has opened is still there, `usbState`
  and `coreState` are what the service believes. The first transfer over a dead
  link marks the failure as fatal (`Breaks`, `PollBreaks`).
- `armed` says that a breakpoint, watchpoint or vector catch may halt the processor;
  `astray`, that one may which nobody tracks any more: `clearAll` forgets a BKPT it
  cannot restore, a detach whatever it could not remove, a re-attach everything.
- `wire` carries replies and events to the bridge, in order.

`GdbServer.tla` is the bridge, and extends it.

- `chain` is the probe client's own queue; `sent` says that its head is with the
  worker. `queue` is the session's packet queue; `at` counts the probe calls its
  head has made. A handler is one action up to its first call (`Begins`) and one
  after each result. A handler with two calls (`monitor reset`, `k`) can be
  overtaken between them.
- `Settled` is JavaScript's run to completion: a packet that need not wait is taken
  up before the event loop turns to a message, a socket or a request.
- `gdb` is what GDB waits for. It sends one packet at a time, `^C` only while it
  waits for a stop, and takes no notice of a stop reply it does not expect.
- `cache` is one page of `memCache`; it is `"stale"` when the target's memory may
  have changed since. A breakpoint is a comparator or a BKPT in memory by its address
  (`BreakpointUnit.setBreakpoint`), but drops the cache by its type: so `Z0`, `Z1ram`
  and `z0` stand for setting type 0, setting type 1, and clearing either *in RAM*,
  on an FPB of revision 0; `Z1` and `z1` for all that takes a comparator, the
  watchpoints of `Z2` to `Z4` included. (`Z0` of code drops a page for nothing.)
- `left`, `freed`, `held` are history variables for the properties.

| Code | Actions |
|---|---|
| `halt`, `step`, `resetHalt`, `flash`; `run`, `resetRun`; memory, breakpoints; `getState` | `Halts`, `Starts`, `Accesses`, `GetState`; failing: `Refused`, `NoDevice`, `Breaks` |
| `startPoller`'s tick and its job | `TimerFires`, `StrayFires`, `Polls`, `PollRefused`, `PollBreaks`, `PollSkips`, `StalePoll` |
| `attachUsb`, `detachUsb`, `onUsbDisconnected`, `reconnect` | `Attaches`, `Attached`, `Detaches`, `DisconnectEvent`, `Goes`, `ConnectEvent` |
| `VsCodeProbeClient.serial` | `Sends`, `Result` |
| `GdbSession` handlers | `Begins`, then `Resumed`, `Stepped`, `Read`, `Wrote`, `Monitored`, `Restarted`, `HaltedAgain`, `Interrupted`, `Killed`, `KillResets`, `Detached`; without a call: `ReadsCache`, `IgnoresInterrupt` |
| `onProbeEvent` | `HaltedEvent`, `UsbEvent` |
| `net.createServer`'s callback and `done` | `Connect`, `Started`, `Drops`, `Released` |
| `BoardController`, HTTP `/op` | `WebCalls`, `WebResult` |
| GDB, the cable, the user, the program | `GdbSends`, `GdbInterrupts`, `Unplug`, `Plug`, `UserAsks`, `Hit` |

### Runs

| Run | Instance | Shows |
|---|---|---|
| `gdb_stop` | `c`, `^C`, `monitor halt` and `vKill`; flashing over HTTP; the cable is pulled and plugged in; fairness | `StopReported`: GDB does not wait for ever for a processor that has stopped or is gone |
| `gdb_belief` | `c` and `^C`; flashing and `getState` over HTTP; the cable is pulled and plugged in, and the user disconnects and connects | `TypeOK`; `PollerAlive`: whatever starts, stops and restarts the poller, a processor believed to run is polled; `BeliefRight`: what the service believes of a processor it can reach is right, but for a halt not yet noticed |
| `gdb_memory` | every packet but `^C`, `z0` and `Z1ram`; dropped sockets, refused accesses; the user disconnects and connects | `CacheFresh`: no read is answered from a page that changed since it was read; `LeftRunning`: a debugger that goes away with no handler under way leaves the board running, unless a breakpoint in RAM could not be restored and was forgotten |

*Bounds.* One session at a time, and a new one only when the last one's handlers are
over and the target released. Two packets not yet handled (`MaxPackets`): one and a
`^C`. One USB event not yet handled (`MaxEvents`), and the cable and the user are
`Quiet` until the service and the bridge are through with the last time: a replug
while the disconnect is being handled is included. One controller request at a time.

*Where a property is narrowed.* `gdb_stop` and `gdb_belief` have no refused accesses:
a halt, step or reset that fails leaves the poller stopped although the processor may
run, and a poll that cannot read the pc of a processor it found halted reports nothing.
`gdb_stop` has no `getState` either: one that is the first to see the halt stops the poller and
tells nobody, and with it among the `WebOps` TLC finds `StopReported` violated.
`CacheFresh` is about sessions whose `start()` halted the target, until a call
fails or the probe goes (`held`): the server ignores a failed start. It is
checked without `z0`, whose restored instruction the cached page does not show, and
`Z1ram`, whose BKPT it does not - what drops the cache is the breakpoint's type, what
changes memory its address, and with either among the `Cmds` TLC finds `CacheFresh`
violated - without `^C`, which can answer one continue twice, and without HTTP writes,
flashing and resets, which the session's cache does not notice. `LeftRunning` is about
releases that succeed and sessions with no call left to make; and not about a program
that runs into a breakpoint nobody tracks any more (`astray`): `clearAll` answers ok
when it could not restore a BKPT in RAM, and a detach or a re-attach forgets what
it could not remove.

*Fairness.* Promises settle, and timers fire: the worker's job (every transfer has a
timeout), the poll timer, the browser's events, the bridge's sends, packet
turns and arriving messages are weakly fair, each by itself. GDB, users, the cable
and the program owe nothing.

### Proofs

`GdbProofs.tla` proves of the probe, for every set of packets, controller requests and
faults and all bounds (`ProbeAssumption`, `GdbAssumption`):

- `GdbTypeCorrect`: `Spec => []TypeOK`, which is inductive as it stands. It holds more
  than types: a call in the mutex or the chain has an operation left, so
  `Head(Head(mutex).ops)` is always one, and `at` never passes a handler's last
  call (`StepsType`).
- `PollerLives`: `Spec => []PollerAlive` if `"target" \notin Faults`. `PollerAlive`
  alone is not inductive: `StartPoller` does nothing when the handle is set, so
  `HandleRight` adds that the handle is then the current generation's timer.
  `GoneStays`, `WaitsRest` and `WaitsTail` say that no operation takes a waiting
  poll or `"gone"` away, except the one that makes it superfluous. With refused
  accesses the statement is false (see above), hence the assumption.
- `BeliefsRight`: `Spec => []BeliefRight` under the same assumption, with the lemma that a
  device that is there has power. Only operations under the mutex change `core`, except
  the cable and a breakpoint, and neither makes a halted processor run without
  taking the link away.

On top of it stand two properties of the bridge. Both rest on `ChainInv`:
of the probe client's chain only the first call is with the worker - in its mutex, or
as a reply on the wire, never both, never twice - and what the worker has
left of it is the end of what was sent.

- `ReleaseLeavesRunning`: `Spec => []LeftRunning`, of sockets that close when the probe
  is there and the handlers have no call left to make, if the page only asks for the state or
  lets the processor run. (A halt or a reset made over HTTP after the release is not
  the release's doing.) `Leaving`: a session that leaves cleanly has its link and
  has no handler with a call to come, and behind the release the chain holds
  the page's calls only. `Freeing` follows the release through the worker: when `run`
  is next nothing is armed any more, unless something is `astray`, and while its reply is
  on the wire the processor runs. `Freed` is that state afterwards, kept because nobody is left who would halt.
- `ReadsFresh`: `Spec => []CacheFresh` under `Calm`: the cable stays in, GDB sends neither
  interrupts nor `z0` nor `Z1ram`, and the page at most halts. Each part is needed: TLC
  refutes `CacheFresh` with any of the five (a replug between the reply to a session's
  start and what `start` makes of it is overlooked, an interrupt can answer one `c`
  twice, neither clearing a RAM breakpoint nor setting one as type 1 drops the page, nor
  does what the page on the screen starts or writes). `Causes` says why the processor can run, and memory
  change, at all under a session: a packet that starts it is being handled, `running`
  is set, or GDB has ended the session, and in the meantime GDB does not ask
  (`Discipline`). `Startup` and `StartFirst` are about the calls of the session's start,
  which come before any packet's.

Only model-checked: `StopReported`, which needs fairness.

*Not modelled.* Packets answered without a probe call; register packets, which are
calls like the memory's; `interruptPending` and `lastStop`, which only choose
the signal number; the page arithmetic of `fetchMem`; arguments
the service refuses before it touches the target.

## 6. Run control, memory and flashing, transfer by transfer

### Model and code

`CortexM.tla` and `Flash.tla` look inside the operations that `Probe.tla` takes for one
step. An operation is the list `todo` of USB transfers it has left, which its script
puts there; a transfer is an action of the target it reaches. `Flash` extends
`CortexM` by the flash controller of the STM32 and by the transfers of memory.

- *Failures.* Any transfer may fail: `Lost` without effect, or after it (`Done`). Then
  the rest of the script is dropped, except for what the `finally` around it does
  (`guard`, `Cleanup`); a failure in that ends the operation. A failure may also
  break the connection, and then nothing more is sent until `Attach`. What an
  operation finds - a processor still running, a flash still locked, a word that
  differs - makes it give up in the same way (`GivesUp`).
- *The flash controller* is external: `cr`, `keys`, `busy`, `err` and `cells`. An erase
  goes on by itself (`EraseEnds`), a board reset (`BoardResets`) locks it and spoils
  the sector being erased.
- `Sizes` are the sectors of the window that may be flashed, `Bank2` words lie behind
  it. A word is `"ff"`, what an image put there, or `"mix"`.
- `Elf.tla` makes the image from the program headers, `FlashScript` the script from
  the image. `Chunks` splits an unaligned range for `readMem` and `writeMem`.
- An access that the ST-LINK refuses (`Unheard`) does not fail its transfer. `readMem` and
  `writeMem` ask for the status at the end (`CheckStatus`), the flash loop never does
  (`stm32fs.ts:186`): `ProgramBlock` then programs some of the words, or none, and goes on.
- `before`, `failed`, `undisturbed` and `allowed` are ghosts for the properties.

| Code | Definitions |
|---|---|
| `halt`, `step`, `run`, `resetHalt`, `resetRun` of `cortexm.ts` | `HaltCore`, `StepCore`, `ResetHalt`, `ResetRun`, `Uncatch`; actions `WriteHalt`, `Mask`, `Step`, `Run`, `WriteCatch`, `SeesHalted`, `WriteReset` |
| `attachUsb`, `identify`, the ST-LINK's init | `AttachScript`, `Attach`, `ReleaseReset` |
| `xfer` of `stlinkusb.ts`, errors | `Goes`, `Fails`, `Lost`, `Throws`, `Begin`, `Unheard` |
| `unlock`, `eraseSector`, `initWrite`, `waitBusy`, `write` of `stm32fs.ts` | `Unlock`, `EraseSector`, `InitWrite`, `Program`, `Verify`, `FlashScript`; actions `ReadCr`, `WriteKey`, `ClearSr`, `Select`, `StartErase`, `WriteBits`, `WaitBusy`, `ProgramBlock`, `VerifyBlock` |
| `sectorsFor`, the erase and block loops | `Overlaps`, `Erase`, `Blocks` |
| `readMem`, `writeMem`, the ST-LINK's memory commands | `Chunks`, `AccessMemory`, `CheckStatus` |
| `elfToImage`, `flashImage`'s window | `ElfToImage`, `InWindow`, `Flash` |

### Run

`flash` makes two operations in a row, any of all, with two failing transfers anywhere
and one reset of the board anywhere. Two operations are what it takes for one to meet
what another left; two failures let the `finally` of the first fail as well, or the
second operation too.

| Property | Shows |
|---|---|
| `OneStep` | an operation ends with the processor where `Probe`'s step has it, failing or not: `Probe` may take it for one step |
| `CleanAfter` | after success no reset is caught and no interrupt masked that an earlier failure left so |
| `FlashedRight` | success means that the segments of the file are in the flash, although the board may be reset between any two transfers (the controller then ignores what it is told without a word) and the ST-LINK may refuse a block, of which nobody hears, if the image is read back, and otherwise unless one of these happens |
| `OthersKept` | no word outside the sectors of the images changes, ever |
| `LeftLocked` | whatever goes wrong once it is unlocked, the flash is locked again, unless that fails too |
| `FreshStart` | nothing that failed operations leave behind makes a flash operation fail in which nothing goes wrong |
| `RangeCovered` | reading and writing cover the range byte by byte in order, whatever its alignment and however often they start again |

*Bounds.* Sectors of one and two words and blocks of two: images that begin and end
inside a sector, at its border, and at the window's end; a block that is empty and one
that is shorter. Files have a gap, an overlap, segments out of order, a header that is
not loaded.

*Assumed of the hardware*, from the code and its use of it: an erase starts on SER and
STRT whether or not PG is set; a wrong key jams `FLASH_KEYR` until a reset; writes to
`FLASH_CR` stall while the controller is busy and are ignored while it is locked; a
write to the flash without PG has no effect and may or may not leave an error; a
processor held in reset does not answer; a step over a sleeping instruction does not
end; a read-back that is refused, which is not asked about either (`stm32fs.ts:203`), does
not return the block's own words. `FreshStart` excepts a jammed controller: an attempt that fails between the two
keys leads there at the next attempt, and only the user's reset leads out.

### Proofs

`FlashProofs.tla` proves, for all sectors, files, ranges and bounds that satisfy
`FlashAssumption`, with a board reset and a failing transfer anywhere:

- `OneStepAlways`, `CleanAfterAlways`, `LeftLockedAlways`. The inductive invariant is
  `Paying`: what an operation owes is either still to be done or has been. For each
  debt - the halt, the reset that must no longer be caught, the interrupts, the
  lock, the processor's state - one conjunct says that it is settled by a
  transfer that is left (in `todo`, or in the clean-up that a failure leaves of it)
  or holds already. The properties are the case of an empty `todo`.
- `OthersKeptAlways` (`Keeping`): the sector number in FLASH_CR, and in what was read
  of it, is that of a sector asked for as soon as SER is set, and an erase runs only
  with SER and unlocked. `ReadBefore` is needed for it: every write of FLASH_CR and the
  first key come right behind a read, so that a value read in an earlier operation
  is never written.
- `RangeCoveredAlways` (`Covering`): what was accessed and what is left to be accessed
  are, joined, the range byte by byte - `Halfway` - also when a read begins again.

*The scripts.* These invariants speak about sequences of any length, flattened from
others of any length. There is no induction principle to cite here (it would take an
operator as a parameter), so `JoinsExists` and its like argue by the
smallest counterexample, from the well-foundedness of the naturals, and the rest
follows from what is closed under concatenation: a transfer of one kind is followed
by one of another (`Followed`, `Settles`), stands behind the read it needs (`Prompted`),
lies in the image (`Fits`), continues where the one before ends (`Lies`).
`BlocksAt` says that `Blocks` tile a range, `StartAt` that sectors lie side by side.

Its second half proves under the same assumptions what the operation is for:

- `FlashedRightAlways`: `Spec => []FlashedRight`, and `FreshStartAlways`:
  `Spec => []FreshStart`. Both rest on one inductive invariant, `Flashing`. While nobody
  disturbs a flash operation and nothing is refused (`Alone`), each word of the image is `Placed`: it has its value and
  nothing that could change it is left, or it is still to be programmed (or 0xff) and
  `Clean` - erased already, or its sector's erase is still in the script, has been told,
  or is running. When the board is reset or a block refused (`Misses`) this is lost; what remains is `Comparing`: a
  word that has been read back, and behind which nothing writes, is right. With an
  empty `todo` either says that the image is there, and `ImageRight` that the image is
  what the file's segments say.
- That it is inductive takes the order of the script and the state it relies on.
  `FlashPiece` says of `FlashScript` that its transfers come in phases (`Sorted`), that
  some stand right behind others (`Chained`: the read before each write of FLASH_CR, the
  first key before the second, the start of an erase before the wait for it), that no two
  blocks overlap (`Apart`) and that nothing is missing (`Complete`). `Smooth` collects what
  the transfers establish for each other: FLASH_CR is as it was read (`JustRead`),
  unlocked to the last write (`Open`), with PG set for every block (`Armed`), the error
  bits cleared (`Calm`), the controller idle but where it is waited for (`Resting`), the
  processor halted or caught where that is waited for (`Held`).
- `FreshStart` follows from `Jams`: by `Stops` an operation can give up in four places,
  and `Smooth` and `Placing` exclude all of them but the check of the lock, with a jammed
  sequence of keys.

*Not modelled.* Core registers (DCRSR), halt reasons (DFSR), the voltage and with it
the program width, bytes on the wire, the 100 ms of a reset pulse. `status` is asked
for once after all chunks, as in the code: only the last chunk's failure counts.

## 7. The serial console

### Model and code

`Serial.tla` models the console across three programs: the browser's `port` and
`events`, the service (`serial`, `serialPort`, `serialState`, and a `SerialConsole` per
opening), and the bridge's `mirror` (`BoardStatus.serialOpen`). `serialOpen`,
`serialWrite` and `serialClose` hold the mutex (`job`, `queue`) from their first to
their last step; the read loop, `onSerialDisconnected` and `reconnect` do not.

| Code | Actions |
|---|---|
| `serialOpen` | `OpenRefused`, `OpenStarts`, `OpenEnds` |
| `serialWrite`, `serialClose` | `WriteStarts`, `WriteEnds`; `CloseStarts`, `CloseEnds` |
| the read loop's failure and end | `ReadFails`, `Drained`, `PortCloses` |
| `onSerialDisconnected`, the connect event | `DisconnectEvent`, `ConnectEvent` |
| `reconnect`, `requestDevices` | `Finds`, `FindsNothing`, `SetSerialPort` |
| `BoardController.connect`, `openSerial`, `disconnect`, `onProbeEvent` | `Command`, `GetsStatus`, `GetsReply`, `Receives`, `Detaches` |

### Run

`serial`: two callers give three commands, the cable is pulled twice. `StatesSettle`:
once nothing is under way the service's state is its console's, and the bridge's mirror
agrees. `NoLeak`: no port is then held by a console that the service has dropped.
`ComesToRest`: everything does come to rest - closing never waits for itself under the
mutex. Three commands are an open, a close and one that meets them; three consoles are
as many as can be alive at a time.

*Fairness.* One weak fairness over all that programs and the browser do: event loops
turn, the browser answers, a write is taken or its port lost. Users owe nothing.

*Assumed.* A device takes longer to come back than the event of its going to be handled;
one port per browser, as in the lab; the browser's connect events are handled one at a
time; `onSerialDisconnected` goes on at once when the console it waits for is closed. A
read error that is not fatal changes nothing and is left out.

### Proofs

`SerialProofs.tla` proves, for any number of callers, commands, consoles and pulled
cables (`SerialAssumption` only tells the names apart):

- `TypeCorrect` and `AnswersFit`, for any number of ports. They need each other: what the
  mutex hands on is an operation only because who waits for it has not been answered and
  gone on. The inductive invariant is `TypeOK /\ Once`; `Once` says that a caller is at one
  place at a time - it waits for the mutex, has it, looks for a port, or has its answer
  on the wire.
- `NoLeakAlways`, for one port. `NoLeak` says something only of states at rest, so the
  invariant has to say what holds on the way there: `Held` - one console at most has the
  port open, the console that reads is the service's, and a port that is being opened is
  being opened by the operation under the mutex, for the service's console, with the
  cable in.
- `StatesSettleAlways`, for one port. The bridge's mirror lags behind the service by what
  is on the wire, so `Told` relates the three: unless a console is on its way to being
  closed (its close event then follows), the last message that says how the console is
  says it right, and if none is on the wire the mirror is right already.

*Why one port.* With two, `Held` is false of the code: see the hazard at
`extension.ts:110` of `cads-probe`. It is a hypothesis (`OnePort`) of the two theorems and not an
assumption of the model.

Only model-checked: `ComesToRest`.

## 8. Packets and lines

`Streams.tla` has the parser and encoder of `rsp/packet.ts` (`Parses`, one byte;
`encodePacket`, `unescapePayload` with its loop's body `Unescapes`), what
`GdbSession.feed` does with an item (`Heeds`), and `onSerialChunk` with its waiters, as
operators and actions over one stream that arrives in chunks. The run `streams` cuts
every stream in every way into chunks of one or two bytes: `ItemsRecovered` (GDB's
packets and interrupts come out once each, in order, as meant, and are acknowledged
once), `LinesRight` (lines do not depend on the cuts; a line that is too long loses
nothing), `WaitersTold` (a waiter is told with the chunk that completes its text, and of
nothing else). Payloads have any three of the bytes that frame, escape and repeat; the
limits 4096, 65536 and 32768 are 3, 5 and 4.

*Assumed.* A text waited for and a chunk fit together into what a waiter keeps
(`StreamsAssumption`): the code keeps 32768 characters and waits for short texts. A
character of two bytes stands for every longer one. GDB sends well-formed packets,
damaged ones whose checksum does not fit, interrupts, acknowledgements, and between
packets nothing that means something (`ConversationsAssumption`).

### Proofs

`StreamsProofs.tla` proves the three properties for any conversations, payloads, outputs
and patterns, and for any limits, under these assumptions.

- *Folds.* Everything here is a fold over a sequence, and an induction principle for folds
  cannot be cited (it would take an operator). So the step is made a function of
  functions, the fold's own recursive function is shown to exist (`FoldExists`) and to be
  the one that is chosen, and the result becomes a sequence of states, each the step of
  the one before (`Steps`, `SplitFolds`, `SumFolds`, `UnescapeFolds`, `ParseFolds`); an
  induction over the naturals (`UpTo`) is the rest. `FlattenSteps` does the same for
  `FlattenSeq`.
- `WaitersToldAlways`. `ConsoleInvariant` says that a waiter's buffer is the end of what
  was decoded since it came (`Knows`), and either all of it or at least `BufKeep` of it.
  Decoding is a map of concatenations (`TextConcat`), with the half character that is
  pending in front; so a text that the new chunk completes lies in the buffer.
- `LinesRightAlways`. What is split in two goes is what is split at once (`SplitMore`);
  lines and rest say what the text says but for line ends (`SplitTells`); a line of the
  whole is not longer for being cut (`SplitLong`). `LinesInvariant` relates what was told
  and `lineBuf` to the lines of all that was printed.
- `ItemsRecoveredAlways`. `RoundTrip`: unescaping undoes escaping, for every payload;
  `Escapes` says where each payload byte is in the body and that no byte there is a
  `#`. `PacketEaten`: the parser, idle at a `$`, is idle again behind the second digit,
  nothing has been passed on before it, and the packet is good exactly if the digits tell
  the sum. `ItemComes` says the like of each kind of item, `WayRecovers` of the first
  items of a conversation, `FedMatches` of any part of its bytes. The invariant,
  `FeedInvariant`, is that the session is always where the bytes that have come bring it in
  one go (`AfterMore`: the parser does not mind where the stream is cut).

*Not modelled.* The switch to no-ack mode, the TCP and pty fan-out of the console.

## 9. The tutor

### Model and code

`Tutor.tla` has the progress rules of `session.ts` as operators on a session record
(`NewSession`, `IsStepDone`, `IsStepUnlocked`, `RecordTaskResult`, `SetHintTier`) and
the handlers of `controller.ts` as actions. A handler runs to its first `await` in one
step of the event loop; what it captured before is kept in `run` (checks), `loops`
(`runAllTasks`, `runLocalChecks`) and `hints` (requests to the language model).

| Code | Actions |
|---|---|
| `runTask` before and after its await, `escalate` | `RunTask` in every request; `Returns` with `SaveVerdict` and `Escalated`, `HintArrives` |
| `runAllTasks`, `runLocalChecks` | `LoopStarts`, `LoopSteps` |
| messages of the panel | `ClicksCheck`, `Confirms`, `Answers`, `ClicksRunAll`, `ShowHint` with `HintShown`, `GotoStep`, `SetLang`, `ClosePanel` |
| the command, saving a file, resetting | `RunChecks`, `Saves`, `ResetProgress` |
| courses reloaded; the extension host | `ReloadCourses`, `Crash`, `DiesEscalating`, `Activate` |
| `saveSession`, which may fail | `SaveSession` in whatever changes the session |

A failed check is written twice: its record (`controller.ts:594`) and then, with the hint,
its tier (`:700`). `SaveVerdict` lets either write fail without the other, and
`DiesEscalating` ends the process between them. `owed`, a history variable, has the
tasks whose record is in the file, or was when the host went, without the tier it calls
for; a later verdict that is written whole takes a task out of it.

`TutorProgress.tla` is what a student is promised: the set of passed tasks changes only
by the verdict of a check that was begun for the task, by a reset, or by a restart,
which brings back what was written last. A turn of the event loop may write more than
once (`Write`), and the host may go with a verdict in the file that nobody was told
(`Crash`).

### Run

`tutor_core`: two courses, three steps of one task each - a question, a slow check, a
file - two of them with the same task id, as the lab's courses have; two loops; four
events of the student and the environment, failing writes included.

| Property | Shows |
|---|---|
| `ImplementsProgress` | the controller implements `TutorProgress` (refinement): whatever navigates, resets or reloads while checks are awaited, a verdict is booked to the task its check was begun for |
| `Consistent` | a step is marked completed exactly while all its tasks are passed; a failed task has been offered the hint it calls for, through failing writes and restarts, but for the tasks in `owed` (section 11) |
| `Durable` | unless the last write failed, the file is the session |
| `PanelHonest` | once nothing is under way the panel of the current step says what the session does |
| `SpinnerEnds` | the panel does not show a task as running for ever |

*Bounds.* Four events let a check be begun, the student go elsewhere, reset and come
back, or crash, before its verdict; the loops can overlap with each other and with
clicks. Failure counts are kept up to the highest tier, beyond which nobody reads them.

*Fairness.* Checks end - a task, serial or debugger wait has a timeout, the others
answer at once - loops go on, and the extension host is started again. A request to the
language model has no timeout, so nothing is assumed of one; `SpinnerEnds` and
`PanelHonest` are about tutors without one.

### Proofs

`TutorProofs.tla` proves, for any courses, prerequisites, tasks, kinds of checks and any
number of loops and events (`TutorAssumption`):

- `TypeCorrect`, `ConsistentAlways`, `DurableAlways`: `Spec => []TypeOK`, `[]Consistent`,
  `[]Durable`. The inductive invariant is `Inv`: `Good(session)`, `Good(disk)` if there
  is a file (a restart makes it the session), `HostInv` (what a host that is down has
  left: nothing), and `Durable`. `Good` is `GoodBut(_, owed)`; a record without its tier
  is good but for its task (`RecordGood`), and with it good altogether (`VerdictStep`).
  `GoodBut` adds to `Consistent` that a task that is not
  pending belongs to a started step; without it a verdict for a step never opened
  could complete it unmarked. `SetHintTier`, `RecordTaskResult` and `SetCurrentStep` are
  each shown to keep `Good`, once.
- `ProgressImplemented`: `Spec => ImplementsProgress`. Each action is mapped to one of
  `Begin`, `Judge`, `Keep`, `Reset`, `Crash`, `Resume`, or to a stutter.

- `PanelSettles`: `Spec => []PanelHonest`. The panel is only meant to be right when nothing is
  under way; the invariant `PanelInv` says what holds in between: a task is shown as
  `"pending"`, as the session has it, or as `"running"` while its check runs or a
  loop of `runAllTasks` still has it before it (`Told`, `Awaits`). `LoopsRight` says which
  tasks those are. Every place that tells the panel something is a lemma
  (`ClickKeeps`, `ViewKeeps`, `RerenderKeeps`, `LoopMovesOn`). With a language model
  the statement is empty, as the comment of `PanelHonest` says.

Only model-checked: `SpinnerEnds`, which needs fairness.

*Not modelled.* The status bar, notifications, the event log, texts of hints, answers
(a verdict is any that the check's kind can give), several windows on one workspace.

## 10. Courses and checks

`Course.tla` is the loader: `CollectSources` (five sources in their order),
`LoadCoursePack` (a pack with its manifest and step files, in two languages, and the
diagnostics), `LoadCourses` (the first copy that loads wins). `Checks.tla` runs the
checks of what was loaded. A check is a tree, kept as a function of its places; a run
goes from place to place through `all` and `any` (`Descend`, `Ascend`), where a leaf is
evaluated at once, waits for an event, or throws. What the code keeps on its stack,
which parts have come out and how, is `passed` and `sawUnavailable`.
`waitForExit` is `Task`, `OnDidEndTaskProcess`, `OnDidEndTask`, `MomentIsOver`; the
debugger's tracker is `Stopped`, `Continued`, `StackTrace`, `BridgeStop` with `DebugStop`
looking back first; `serialExpect` is `SerialExpect`, `Sent`, `SerialLine`; `Timeout` ends
any wait.

The run `checks` loads three sets of packs, in which a course is hidden by six broken
copies, by one with a step in German only, and by a smaller one, and runs a task at a
time through three events.

| Property | Shows |
|---|---|
| `FirstCopyWins` | the courses are the first copies that load, whatever stands before them |
| `VerdictRight` | a verdict is `passed` exactly if the parts that were looked at make it so; the loader keeps out an empty `all`, which would pass |
| `AnswerHeard` | a task passes exactly if its process exited as expected, although VS Code may tell of the task's end first; a reply of the board counts although it comes while the text is still being sent |
| `StopSeen` | a debugger stop since the step was first opened (opening it again does not move `startedAt`), or while the check waits, is seen, and no other |
| `EveryCheckEnds` | a check ends, whatever else does or does not happen, unless it waits for a language model |

*Assumed.* The process's end is told within the 500 ms after the task's; one debug session
(the tracker's `pendingStop` is one flag for all: `StopSeen` fails with two); the bridge
answers `sendSerial`; `nm` and the built-in ELF parser find the same symbols. The history
of stops, cut at 200, is cut at one: `StopSeen` is about the stops it can hold.
*Fairness.* Timers fire, and continuations run; a task, a line, a stop or a grade may
never come.

### Proofs

`ChecksProofs.tla` proves, for any packs, checks of any depth and width, any number of
runs at a time, places, events and any `HistoryCap` (`ChecksAssumption` says only that
what is found are packs with trees for checks, which is what the file system and the
JSON parser can hand over):

- `FirstCopyWinsAlways`. The loader is a fold; `TookFirst` says what it has made of the
  first n packs, and that it holds of all is the argument of section 8.
- `ChecksInv`, the inductive invariant: `LoadedInv` (what is loaded is what the loader
  makes of what was found, so the checks are valid trees), `RunsGood` and `StopsSeen`.
  `RunsGood` says of each run its type (`RunType`), what it knows of what it waits for
  (`Answered`, `StopTold`), and where it has been (`Judged`).
- `VerdictRightAlways` needs `Walked`: whatever passed lies before the run's place
  (`Before`) or, when a part has just ended, within it; the parts that an open `all` or
  `any` has left behind let it go on (each passed, or none); and every place that is not
  open agrees with its parts already. `Ascend` is the step that matters: an `all` or
  `any` ends early or after its last part, and only then is it shown to agree.
- `AnswerHeardAlways` is the case of `Answered` in which a part has ended.
- `StopSeenAlways`, with one debug session: `StopsSeen` adds that the tracker has exactly the
  stops that were shown, cut to `HistoryCap`, and that `pendingStop` is set exactly
  while a stop has not been shown yet. With two sessions this is false of the code (section 11),
  hence the hypothesis; the model itself has any number.

Only model-checked: `EveryCheckEnds`, which needs fairness.

*Not modelled.* Regular expressions, file suffixes of flash checks, exit codes other than
right and wrong, wording of diagnostics.

## 11. Where the code does not do what it says

Met while modelling; the properties are stated so as not to depend on them, and each
says where. Most show in TLC when the exception is taken out of the property, or the
packet, request or fault that the run leaves out is put back.

| Source | Says | Does |
|---|---|---|
| `fl_broker.py:444` | the reaper stops containers whose last-seen and heartbeat are old | it decides before it waits for the slug's lock, and stops a session that was resumed meanwhile |
| `deploy/multiuser/README.md:54` | running containers are limited | a request counts only when its container is healthy, so further requests under way exceed the limit by one each; a reconcile that drops a new session from the table makes room for one more |
| `rsp/server.ts:147` | attaching drops stale breakpoints | comparators armed when a connection broke are not tracked by the next unit, and `clearAll` leaves them |
| `breakpoints.ts:183` | comparators are re-written after a system reset, which may clear them | the reset that ends `flash` (`probe.ts:560`), and one that fails, are not followed by `reapply`; where the FPB was disabled by it, breakpoints set afterwards do not stop the program until the next reset: `ToldStops` fails without its exception (`lapsed`) |
| `breakpoints.ts:169` | RAM breakpoints are restored by `clearAll` | one whose restore fails is logged and forgotten, and its BKPT stays |
| `breakpoints.ts:103` | the original instruction is remembered | after a write of BKPT that failed with effect, the next try remembers BKPT |
| `cads-board-bridge/src/extension.ts:191` | closing the debugger never freezes the board | an interrupt queued behind `c` is handled after the release, and halts it again |
| `rsp/server.ts:556` | the reply comes with the `halted` event | a halt made over HTTP, and a `getState` that is the first to see one, stops the poller and emits none: `gdb_stop` fails with `getState` |
| `rsp/server.ts:576` | software breakpoints modify RAM, so they drop the memory cache | only setting type 0 does; type 1 in RAM, and clearing either, leaves the cached page: `gdb_memory` fails with `Z1ram` or `z0` |
| `probe.ts:219` | detaching removes our breakpoints | errors on the way are logged, and the unit is forgotten with what is still armed |
| `cortexm.ts:169` | resets are not caught after `resetHalt` | a failure between setting VC_CORERESET and the `try` leaves it set until the next reset by the probe |
| `cortexm.ts:324` | the status of the access | it is that of the last chunk only |
| `probe.ts:566` | `ok`: the image was flashed, if not verified | a refused write of a block is not heard of (`stm32fs.ts:186`); the callers here all read back |
| `types.ts:145` | the tier is the highest hint shown for the task | the record (`controller.ts:594`) and the tier (`:700`) are two writes: where the second fails or the process ends between them, a restart has a count of failures above its tier |
| `session.ts:4` | a step with requirements that are not done is locked | `runAllTasks` and `runLocalChecks` are silent, which passes the lock: a locked step's tasks can be passed by the command `cads.tutor.runChecks`, or by going to one while all checks run |
| `controller.ts:640` | a completed step is announced | the banner goes to whatever step the panel shows by then |
| `controller.ts:723` | the hint is shown with the task's status | the status is the one before the language model was asked |
| `vscodeChecks.ts:92` | a stop is that of a `stopped` event | with two debug sessions, the other one's |

## 12. Not modelled

The watchdog (its effect is `BrokerRestart`), the Caddy gate, compose files and
installation scripts; the seed script, which runs alone before the editor starts; the
command-line shims, one HTTP request each; the validation of courses and the run scripts,
offline tools; the WebUSB flasher page, example firmware, courses and tests. `PROJECT.json`
lists them with the reason.

Every safety invariant that a passing run checks, and the refinement `ImplementsProgress`, is also a
theorem. Liveness under fairness stays with the model checker, because the prover cannot
do it: `UncountedFound` and `IdleStopped` of the broker, `StopReported` of the bridge,
`ComesToRest` of the serial console, `SpinnerEnds` of the tutor and `EveryCheckEnds` of the
checks. Where a theorem has a hypothesis that is not an assumption of its module -
no refused accesses, no reconcile, one serial port, one debug session - its section says
which behaviour of the code makes it necessary.
