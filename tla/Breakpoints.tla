---------------------------- MODULE Breakpoints ----------------------------
(***************************************************************************)
(* The breakpoint unit of the probe driver (cads-probe/src/driver/         *)
(* breakpoints.ts) and the ProbeService operations that use it.  Code      *)
(* breakpoints live in the FPB's comparators or, in RAM, as a BKPT that    *)
(* replaces an instruction; watchpoints live in the DWT's comparators.     *)
(* The driver never reads a comparator back: it acts on what it tracks.    *)
(*                                                                         *)
(* ProbeService's mutex runs one operation at a time, so an operation is   *)
(* one action; where one of its transfers may fail, the action stops       *)
(* there.  Addresses end at AddrEnd (2^32), a parameter; the code region   *)
(* is the lowest eighth of them (below 0x20000000).                        *)
(***************************************************************************)
EXTENDS Integers, FiniteSets

CONSTANTS
    NumCode, NumWatch,   \* comparators (FP_CTRL, DWT_CTRL)
    Revision,            \* of the FPB: 0 (v1, Cortex-M4) or 1 (v2, M7)
    AddrEnd,             \* a power of two
    Addr,                \* addresses of breakpoints requested
    Watch,               \* watchpoints requested: [addr, len, kind]
    None,
    Ops,                 \* operations requested
    Faults               \* what may go wrong

FaultKinds == {"target",   \* a memory access is refused (TARGET_FAULT)
               "stall",    \* a transfer fails, with or without effect (USB_IO)
               "usb",      \* as stall, and the connection is broken for good
               "loses"}    \* a reset clears the comparators and FP_CTRL

CodeEnd == AddrEnd \div 8
CodeSlots == 0 .. NumCode - 1
WatchSlots == 0 .. NumWatch - 1

ASSUME BreakpointAssumption ==
    /\ NumCode \in Nat /\ NumWatch \in Nat
    /\ Revision \in {0, 1}
    /\ AddrEnd \in Nat \ {0} /\ AddrEnd % 8 = 0
    /\ Addr \subseteq 0 .. AddrEnd - 1
    /\ \A w \in Watch : w.addr \in Nat /\ w.len \in Nat
    /\ Faults \subseteq FaultKinds
    /\ None \notin Int \cup Watch \cup {"own", "bkpt"}

VARIABLES
    usb,    \* ProbeService.usbState; "broken" until the failure is noticed,
            \* "leaving" within detachUsb
    hw,     \* tracked: address per code comparator
    sw,     \* tracked: original instruction per RAM breakpoint
    wp,     \* tracked: watchpoint per DWT comparator
    fpb,    \* target: the FPB is enabled
    comp,   \* target: the address each code comparator matches
    trace,  \* target: DEMCR.TRCENA, without which the DWT is off
    dwt,    \* target: the watchpoint each DWT comparator matches
    ram,    \* target: the program's own instruction ("own") or a BKPT
    told,   \* the client's view: breakpoints answered ok and not cleared
    left,   \* history: comparators that were armed when the unit was made
    lapsed, \* history: a reset cleared the registers, and nothing reapplied
            \* them since
    ans     \* the last answer

tracked == <<hw, sw, wp>>
target == <<fpb, comp, trace, dwt, ram>>
history == <<left, lapsed>>
vars == <<usb, tracked, target, told, history, ans>>

-----------------------------------------------------------------------------
(* Addresses, in JavaScript's 32-bit arithmetic *)

Even(a) == a - (a % 2)
Signed(a) == IF a >= AddrEnd \div 2 THEN a - AddrEnd ELSE a

\* rawAddr & 0xfffffffe: the result is a signed integer.
Masked(a) == Signed(Even(a))

UseHw(a) == Revision = 0 => Masked(a) < CodeEnd

\* Mutant: the word address alone, REPLACE always the lower halfword.
ComparatorOfWord(a) == IF Revision = 0 THEN (a - (a % 4)) % CodeEnd ELSE a % AddrEnd

\* The address a comparator matches once compValue(addr) is written to it.
Comparator(a) == IF Revision = 0 THEN a % CodeEnd ELSE a % AddrEnd

InRam(a) == Even(a) >= CodeEnd
RamAddr == {Even(a) : a \in {x \in Addr : InRam(x)}}

Lowest(S) == {i \in S : \A j \in S : i <= j}
FreeCode == {i \in CodeSlots : hw[i] = None}
FreeWatch == {i \in WatchSlots : wp[i] = None}

IsPow2(n) == \E k \in 0 .. n : n = 2^k

TypeOK ==
    /\ usb \in {"absent", "connected", "broken", "leaving", "error"}
    /\ hw \in [CodeSlots -> {Masked(a) : a \in {x \in Addr : UseHw(x)}} \cup {None}]
    /\ sw \in [RamAddr -> {"own", "bkpt", None}]
    /\ wp \in [WatchSlots -> Watch \cup {None}]
    /\ fpb \in BOOLEAN /\ trace \in BOOLEAN
    /\ comp \in [CodeSlots -> Nat \cup {None}]
    /\ dwt \in [WatchSlots -> Watch \cup {None}]
    /\ ram \in [RamAddr -> {"own", "bkpt"}]
    /\ told \subseteq {Even(a) : a \in Addr}
    /\ left \in [code : SUBSET CodeSlots, watch : SUBSET WatchSlots]
    /\ lapsed \in BOOLEAN
    /\ ans \in {"none", "ok", "failed", "cleared", "reset"}

-----------------------------------------------------------------------------
(* How an operation ends: the answer, and the state of the connection.     *)

Fails == {"target", "stall", "usb"} \cap Faults
UsbAfter(kind) == IF kind = "usb" THEN "error" ELSE usb

Answer(a) == ans' = a /\ UNCHANGED <<usb, history>>
Refuse == Answer("failed") /\ UNCHANGED <<tracked, target, told>>

\* A transfer of the given kind of failure ends the operation; the register
\* it meant to write keeps its value or has got the new one.
FailsAt(kind, reg, i, value) ==
    /\ kind \in {"stall", "usb"} \cap Faults
    /\ reg' \in {reg, [reg EXCEPT ![i] = value]}
    /\ ans' = "failed" /\ usb' = UsbAfter(kind) /\ UNCHANGED history

Asked(op) == usb = "connected" /\ op \in Ops

-----------------------------------------------------------------------------
(* setBreakpoint *)

SetCode(a) ==
    /\ Asked("set") /\ UseHw(a)
    /\ IF \E i \in CodeSlots : hw[i] = Masked(a)
       THEN Answer("ok") /\ told' = told \cup {Even(a)} /\ UNCHANGED <<tracked, target>>
       ELSE IF FreeCode = {} THEN Refuse
       ELSE \E i \in Lowest(FreeCode) :
            /\ \/ /\ comp' = [comp EXCEPT ![i] = Comparator(Masked(a))]
                  /\ hw' = [hw EXCEPT ![i] = Masked(a)]
                  /\ told' = told \cup {Even(a)}
                  /\ Answer("ok")
               \/ /\ \E kind \in Faults : FailsAt(kind, comp, i, Comparator(Masked(a)))
                  /\ UNCHANGED <<hw, told>>
            /\ UNCHANGED <<sw, wp, fpb, trace, dwt, ram>>

\* In RAM: read the instruction, write BKPT over it, remember it.
SetRam(a) ==
    LET e == Even(a) IN
    /\ Asked("set") /\ ~UseHw(a)
    /\ IF sw[e] # None
       THEN Answer("ok") /\ told' = told \cup {e} /\ UNCHANGED <<tracked, target>>
       ELSE /\ \/ /\ ram' = [ram EXCEPT ![e] = "bkpt"]
                  /\ sw' = [sw EXCEPT ![e] = ram[e]]
                  /\ told' = told \cup {e}
                  /\ Answer("ok")
               \/ /\ \E kind \in Faults : FailsAt(kind, ram, e, "bkpt")
                  /\ UNCHANGED <<sw, told>>
               \/ "target" \in Faults /\ Answer("failed") /\ UNCHANGED <<sw, ram, told>>
            /\ UNCHANGED <<hw, wp, fpb, comp, trace, dwt>>

-----------------------------------------------------------------------------
(* clearBreakpoint *)

ClearCode(a, i) ==
    /\ Asked("clear") /\ hw[i] = Masked(a)
    /\ \/ /\ comp' = [comp EXCEPT ![i] = None]
          /\ hw' = [hw EXCEPT ![i] = None]
          /\ told' = told \ {Even(a)}
          /\ Answer("ok")
       \/ /\ \E kind \in Faults : FailsAt(kind, comp, i, None)
          /\ UNCHANGED <<hw, told>>
    /\ UNCHANGED <<sw, wp, fpb, trace, dwt, ram>>

ClearRam(a) ==
    LET e == Even(a) IN
    /\ Asked("clear") /\ e \in RamAddr
    /\ \A i \in CodeSlots : hw[i] # Masked(a)
    /\ sw[e] # None
    /\ \/ /\ ram' = [ram EXCEPT ![e] = sw[e]]
          /\ sw' = [sw EXCEPT ![e] = None]
          /\ told' = told \ {e}
          /\ Answer("ok")
       \/ /\ \E kind \in Faults : FailsAt(kind, ram, e, sw[e])
          /\ UNCHANGED <<sw, told>>
       \/ "target" \in Faults /\ Answer("failed") /\ UNCHANGED <<sw, ram, told>>
    /\ UNCHANGED <<hw, wp, fpb, comp, trace, dwt>>

-----------------------------------------------------------------------------
(* setWatchpoint, clearWatchpoint: four writes, the function register last; *)
(* until it is written the comparator is off.                              *)

SetWatch(w) ==
    /\ Asked("watch")
    /\ IF NumWatch = 0 \/ ~IsPow2(w.len) \/ w.addr % w.len # 0 THEN Refuse
       ELSE IF \E i \in WatchSlots : wp[i] = w
       THEN Answer("ok") /\ UNCHANGED <<tracked, target, told>>
       ELSE IF FreeWatch = {} THEN Refuse
       ELSE \E i \in Lowest(FreeWatch) :
            /\ \/ /\ trace' = TRUE
                  /\ dwt' = [dwt EXCEPT ![i] = w]
                  /\ wp' = [wp EXCEPT ![i] = w]
                  /\ Answer("ok")
               \/ /\ trace' \in {trace, TRUE}
                  /\ \/ \E kind \in Faults : FailsAt(kind, dwt, i, None)
                     \/ trace' /\ \E kind \in Faults : FailsAt(kind, dwt, i, w)
                  /\ UNCHANGED wp
            /\ UNCHANGED <<hw, sw, fpb, comp, ram, told>>

ClearWatch(w) ==
    LET hits == {i \in WatchSlots : wp[i] # None /\ wp[i].addr = w.addr} IN
    /\ Asked("watch") /\ hits # {}
    /\ \E i \in Lowest(hits) :
       \/ /\ dwt' = [dwt EXCEPT ![i] = None]
          /\ wp' = [wp EXCEPT ![i] = None]
          /\ Answer("ok")
       \/ /\ \E kind \in Faults : FailsAt(kind, dwt, i, None)
          /\ UNCHANGED wp
    /\ UNCHANGED <<hw, sw, fpb, comp, trace, ram, told>>

-----------------------------------------------------------------------------
(* clearAll: code comparators, RAM, watchpoints, in this order.            *)

AllNone(f) == [i \in DOMAIN f |-> None]

\* Mutant: the last slot is left out.
ClearedButLast(f, of, k) ==
    [i \in DOMAIN f |-> IF i < k - 1 /\ of[i] # None THEN None ELSE f[i]]

\* f with the tracked slots below k cleared.
Cleared(f, of, k) == [i \in DOMAIN f |-> IF i < k /\ of[i] # None THEN None ELSE f[i]]

\* The write to code comparator k fails; the slots below are cleared.
StopsAtCode(k) ==
    /\ hw[k] # None
    /\ hw' = Cleared(hw, hw, k)
    /\ comp' \in {Cleared(comp, hw, k), Cleared(comp, hw, k + 1)}
    /\ UNCHANGED <<sw, wp, dwt, ram>>

\* All code comparators are forgotten and the RAM breakpoints restored, those
\* in lost excepted: a restore that fails is logged and forgotten.
ClearsCodeAndRam(lost) ==
    /\ hw' = AllNone(hw)
    /\ lost # {} => Fails # {}
    /\ sw' = AllNone(sw)
    /\ ram' = [e \in RamAddr |-> IF sw[e] # None /\ e \notin lost THEN sw[e] ELSE ram[e]]

Restorable == {e \in RamAddr : sw[e] # None}

\* The write to watchpoint k fails - the first one, if the connection broke
\* during the restore.
StopsAtWatch(k) ==
    /\ wp[k] # None
    /\ \E lost \in SUBSET Restorable :
         /\ ClearsCodeAndRam(lost)
         /\ lost # {} /\ Fails = {"usb"} => \A j \in WatchSlots : j < k => wp[j] = None
    /\ comp' = Cleared(comp, hw, NumCode)
    /\ wp' = Cleared(wp, wp, k)
    /\ dwt' \in {Cleared(dwt, wp, k), Cleared(dwt, wp, k + 1)}

ClearStops(kind) ==
    /\ kind \in {"stall", "usb"} \cap Faults
    /\ (\E k \in CodeSlots : StopsAtCode(k)) \/ (\E k \in WatchSlots : StopsAtWatch(k))
    /\ UNCHANGED <<fpb, trace>>

\* A system reset, which may lose the comparators and the FPB's enable bit.
Losses == IF "loses" \in Faults THEN BOOLEAN ELSE {FALSE}
AfterReset(lose, reg) == IF lose THEN AllNone(reg) ELSE reg

\* clearAll returns - and the target is reset with a loss before the operation
\* ends, if lose.  With no watchpoint to clear, a connection that breaks during
\* the restore is not noticed.
ClearReturns(usbAfter, lose) ==
    /\ \E lost \in SUBSET Restorable :
         /\ ClearsCodeAndRam(lost)
         /\ \/ usbAfter = usb /\ (lost # {} => Fails # {"usb"})
            \/ usbAfter = "broken" /\ lost # {} /\ "usb" \in Faults /\ wp = AllNone(wp)
    /\ wp' = AllNone(wp)
    /\ comp' = AfterReset(lose, Cleared(comp, hw, NumCode))
    /\ dwt' = AfterReset(lose, Cleared(dwt, wp, NumWatch))
    /\ fpb' = (fpb /\ ~lose)
    /\ UNCHANGED trace

ClearAll ==
    /\ Asked("clearAll")
    /\ \/ usb' \in {usb, "broken"} /\ ClearReturns(usb', FALSE) /\ ans' = "cleared"
       \/ \E kind \in Faults : ClearStops(kind) /\ usb' = UsbAfter(kind) /\ ans' = "failed"
    /\ told' = {} /\ UNCHANGED history

\* flash: clearAll, programming, which may fail, and a reset into halt that
\* nothing reapplies anything after: probed stays set, so that no later
\* operation but a reset enables the FPB again.
Flash ==
    /\ Asked("flash")
    /\ \/ \E lose \in Losses :
            /\ ClearReturns(usb, lose)
            /\ lapsed' = (lapsed \/ lose)
            /\ \/ usb' = usb /\ ans' \in {"ok", "failed"}
               \/ "usb" \in Faults /\ usb' = "error" /\ ans' = "failed"
       \/ ClearReturns("broken", FALSE) /\ usb' = "error" /\ ans' = "failed" /\ lapsed' = lapsed
       \/ /\ \E kind \in Faults : ClearStops(kind) /\ usb' = UsbAfter(kind)
          /\ ans' = "failed" /\ lapsed' = lapsed
    /\ told' = {} /\ left' = left

-----------------------------------------------------------------------------
(* resetHalt and resetRun reapply the comparators afterwards.              *)

\* Mutant: the first comparator is left out.
ReappliedFromOne(reg, value, k) ==
    [i \in DOMAIN reg |-> IF 0 < i /\ i < k /\ value[i] # None THEN value[i] ELSE reg[i]]

\* reg after the values below k are written to it.
Reapplied(reg, value, k) ==
    [i \in DOMAIN reg |-> IF i < k /\ value[i] # None THEN value[i] ELSE reg[i]]

Wanted == [i \in CodeSlots |-> IF hw[i] = None THEN None ELSE Comparator(hw[i])]

\* reapply has enabled the FPB and restored the comparators below k and d.
Reapplies(lose, k, d) ==
    /\ fpb' = TRUE
    /\ comp' = Reapplied(AfterReset(lose, comp), Wanted, k)
    /\ dwt' = Reapplied(AfterReset(lose, dwt), wp, d)

\* The reset fails as one of the kinds does.  A core that does not halt in time
\* ("target") is reported before anything is reapplied; what is read after the
\* reapplication may fail in any way.
ResetFails(kind) == kind \in Fails /\ ans' = "failed" /\ usb' = UsbAfter(kind)

Reset ==
    /\ Asked("reset")
    /\ \E lose \in Losses :
         \/ /\ Reapplies(lose, NumCode, NumWatch)
            /\ lapsed' = FALSE
            /\ (ans' = "reset" /\ usb' = usb) \/ \E kind \in Faults : ResetFails(kind)
         \/ /\ \E kind \in Faults : ResetFails(kind)
            /\ fpb' = (fpb /\ ~lose)
            /\ comp' = AfterReset(lose, comp) /\ dwt' = AfterReset(lose, dwt)
            /\ lapsed' = (lapsed \/ lose)
         \/ /\ \E kind \in {"stall", "usb"} : ResetFails(kind)
            /\ \/ \E k \in CodeSlots : Reapplies(lose, k, 0)
               \/ \E d \in WatchSlots : Reapplies(lose, NumCode, d)
            /\ lapsed' = (lapsed \/ lose)
    /\ left' = left
    /\ UNCHANGED <<tracked, trace, ram, told>>

-----------------------------------------------------------------------------
(* Attach, detach, and a connection that ends                              *)

\* bpu.reset(), and a new unit that takes all comparators to be free.
Forgets == hw' = AllNone(hw) /\ sw' = AllNone(sw) /\ wp' = AllNone(wp)

\* attachUsb forgets an old unit without touching the target; the new one
\* enables the FPB.
Armed == [code |-> {i \in CodeSlots : comp[i] # None},
          watch |-> {i \in WatchSlots : dwt[i] # None}]

Attach ==
    /\ usb \in {"absent", "error"}
    /\ left' = Armed /\ lapsed' = FALSE
    /\ \/ usb' = "connected" /\ ans' = "ok" /\ fpb' = TRUE
       \/ /\ Fails # {} /\ usb' = "error" /\ ans' = "failed"
          /\ fpb' \in {fpb, TRUE}
    /\ Forgets
    /\ told' = {}
    /\ UNCHANGED <<comp, trace, dwt, ram>>

\* detachUsb: clearAll as far as it goes, then the unit is forgotten.
Detach ==
    /\ Asked("detach")
    /\ \/ ClearReturns(usb, FALSE) \/ ClearReturns("broken", FALSE)
       \/ \E kind \in Faults : ClearStops(kind)
    /\ usb' = "leaving" /\ ans' = "ok" /\ told' = {} /\ UNCHANGED history

Detached ==
    /\ usb = "leaving"
    /\ usb' = "absent"
    /\ Forgets
    /\ UNCHANGED <<target, told, history, ans>>

\* The next transfer, the poller's at the latest, finds the connection broken.
Noticed ==
    /\ usb = "broken"
    /\ usb' = "error" /\ ans' = "failed"
    /\ UNCHANGED <<tracked, target, told, history>>

\* The cable is pulled: the board it powers forgets everything.
Unplug ==
    /\ "usb" \in Faults /\ usb # "absent"
    /\ usb' = "absent" /\ ans' = "none" /\ told' = {}
    /\ Forgets
    /\ fpb' = FALSE /\ trace' = FALSE
    /\ comp' = AllNone(comp) /\ dwt' = AllNone(dwt)
    /\ ram' = [e \in RamAddr |-> "own"]
    /\ left' = left /\ lapsed' = FALSE

-----------------------------------------------------------------------------

Init ==
    /\ usb = "absent" /\ ans = "none" /\ told = {}
    /\ hw = [i \in CodeSlots |-> None]
    /\ sw = [e \in RamAddr |-> None]
    /\ wp = [i \in WatchSlots |-> None]
    /\ fpb = FALSE /\ trace = FALSE
    /\ comp = [i \in CodeSlots |-> None]
    /\ dwt = [i \in WatchSlots |-> None]
    /\ ram = [e \in RamAddr |-> "own"]
    /\ left = Armed /\ lapsed = FALSE

Next ==
    \/ \E a \in Addr : SetCode(a) \/ SetRam(a) \/ ClearRam(a)
    \/ \E a \in Addr, i \in CodeSlots : ClearCode(a, i)
    \/ \E w \in Watch : SetWatch(w) \/ ClearWatch(w)
    \/ ClearAll \/ Flash \/ Reset \/ Attach \/ Detach \/ Detached \/ Noticed \/ Unplug

Spec == Init /\ [][Next]_vars

-----------------------------------------------------------------------------
(* Properties *)

\* What the driver tracks is armed in the target, so that a breakpoint it
\* answers "already set" really stops the program: through resets that clear
\* the comparators, refused accesses and connections that break.  A reset that
\* is not followed by reapply (the one of flash, one that fails) and loses the
\* registers breaks it, but only until the next reset that succeeds; never for
\* a breakpoint in RAM.
TrackedArmed ==
    usb = "connected" =>
        /\ \A e \in RamAddr : sw[e] # None => ram[e] = "bkpt"
        /\ ~lapsed => /\ \A i \in CodeSlots : hw[i] # None => fpb /\ comp[i] = Comparator(hw[i])
                      /\ \A i \in WatchSlots : wp[i] # None => trace /\ dwt[i] = wp[i]

\* The program stops where the client was told it would - and nothing the
\* client did to another breakpoint, by whatever slot, changes that.
ToldStop ==
    \A e \in told : \/ e \in RamAddr /\ ram[e] = "bkpt"
                    \/ fpb /\ \E i \in CodeSlots : comp[i] = e

\* It does, unless a reset lost the registers and nothing has reapplied them:
\* what was set since such a reset stops the program too once another reset
\* has succeeded.
ToldStops == usb = "connected" /\ ~lapsed => ToldStop

\* No comparator stops the program that the driver has forgotten, other than
\* those an earlier connection left behind when it broke.
NoPhantom ==
    usb = "connected" =>
        /\ \A i \in CodeSlots \ left.code : comp[i] # None => hw[i] # None
        /\ \A i \in WatchSlots \ left.watch : dwt[i] # None => wp[i] # None
=============================================================================
