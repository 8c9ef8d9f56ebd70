------------------------------- MODULE CortexM -------------------------------
(***************************************************************************)
(* The processor behind the ST-Link, one USB transfer at a time            *)
(* (cads-probe/src/driver/cortexm.ts, stlinkv2.ts, stlinkusb.ts).          *)
(*                                                                         *)
(* An operation is the list of transfers it still has to make, `todo`.     *)
(* Any of them may fail: lost, or done although its answer is; that ends   *)
(* the operation, except for what its `finally` has to make up for.        *)
(* Operations run one after the other, under the mutex of Probe, which     *)
(* takes each of them for one step; here that is checked in detail.        *)
(***************************************************************************)
EXTENDS Integers, Sequences

CONSTANTS
    MaxOps,      \* bound: operations
    MaxFaults,   \* bound: transfers that fail
    MaxResets    \* bound: times the button or a watchdog resets the board

ASSUME CortexAssumption == {MaxOps, MaxFaults, MaxResets} \subseteq Nat

VARIABLES
    core,        \* the processor: "run" or "halt"
    masked,      \* DHCSR.C_MASKINTS
    catching,    \* DEMCR.VC_CORERESET
    nrst,        \* the reset line is held low
    link,        \* "ok", or "broken" (UsbConnector.broken) until it is attached again
    op,          \* the operation under way, or the last one
    todo,        \* the transfers it has left
    ok,          \* nothing has failed
    before,      \* ghost: core when it began
    failed,      \* ghost: which transfer, by a fault or by what it found, under which `finally`
    undisturbed, \* ghost: nobody else has reset the board since it began
    ops, faults, resets

cpu == <<core, masked, catching, nrst>>
host == <<link, op, todo, ok, before, failed, undisturbed, ops, faults, resets>>
cortexVars == <<cpu, host>>

\* A transfer, its arguments, and the `finally` it runs under.
X(do) == [do |-> do, at |-> 0, n |-> 0, guard |-> "none"]
On(do, at, n) == [X(do) EXCEPT !.at = at, !.n = n]
Under(guard, s) == [i \in DOMAIN s |-> [s[i] EXCEPT !.guard = guard]]

-----------------------------------------------------------------------------
(* The operations *)

HaltCore == <<X("halt"), X("halted")>>
StepCore == <<X("mask"), X("step"), X("halted"), X("halt")>>
Uncatch == <<X("access"), X("uncatch")>>

\* Mutant: the catch is left on.
ResetHaltCaught ==
    <<X("halt"), X("access"), X("catch"), X("reset")>>
    \o Under("catch", <<X("halted")>>) \o <<X("access")>>

\* "access" stands for a transfer that changes nothing modelled here: reading
\* DEMCR, clearing DFSR, reading the reason of a halt or a register.
ResetHalt ==
    <<X("halt"), X("access"), X("catch"), X("reset")>>
    \o Under("catch", <<X("halted")>>) \o Uncatch \o <<X("access")>>

\* Mutant: a catch that was left on stays on.
ResetRunCaught == <<X("access"), X("run"), X("reset")>>

ResetRun == Uncatch \o <<X("run"), X("reset")>>

\* attachUsb: the ST-Link's init, and what identifies the target.  One that does
\* not answer - the CPUID reads 0 - is halted under reset; one that is held in
\* reset does not.
AttachScript(answers) ==
    <<X("access")>>
    \o (IF answers THEN <<>>
        ELSE <<X("low")>> \o Under("nrst", <<X("access"), X("halt")>>) \o <<X("high")>>)
    \o <<X("access")>>

Operations == {"halt", "step", "resetHalt", "run", "resetRun"}

\* halt halts a processor that it takes, or sees, to run; two transfers at
\* least for the reason and the pc; resets end with the breakpoints.  (That
\* resetRun writes DEMCR only when it has to makes no difference here.)
Scripts(o) ==
    CASE o = "halt" -> {HaltCore \o <<X("access"), X("access")>>}
                       \cup {<<X("access"), X("access"), X("access")>> : c \in {core} \cap {"halt"}}
      [] o = "step" -> {StepCore \o <<X("access"), X("access")>>}
      [] o = "resetHalt" -> {ResetHalt \o <<X("access"), X("access")>>}
      [] o = "run" -> {<<X("run")>>}
      [] o = "resetRun" -> {ResetRun \o <<X("access")>>}

\* Mutant: the flash stays unlocked.
CleanupUnlocked(guard) ==
    CASE guard = "catch" -> Uncatch [] guard = "nrst" -> <<X("high")>> [] OTHER -> <<>>

\* What an exception leaves to do: of resetHalt, identify and Flash's write.
Cleanup(guard) ==
    CASE guard = "none"  -> <<>>
      [] guard = "catch" -> Uncatch
      [] guard = "nrst"  -> <<X("high")>>
      [] guard = "lock"  -> <<X("lock")>>

Ended == todo = <<>>
Failure(by, under) ==
    [by |-> by, under |-> under, at |-> IF Ended THEN "none" ELSE Head(todo).do]
Alone == failed.by # "fault" /\ undisturbed
At(do) == todo # <<>> /\ link = "ok" /\ Head(todo).do = do

Starts(o, script) ==
    /\ Ended /\ ops < MaxOps
    /\ op' = o /\ todo' = script /\ ok' = TRUE
    /\ before' = core /\ failed' = Failure("none", "none") /\ undisturbed' = TRUE
    /\ ops' = ops + 1
    /\ UNCHANGED <<cpu, faults, resets>>

\* requireCore: attached, and nothing fatal since.
Attached == link = "ok" /\ (op = "attach" => ok)

Begin(o, script) == Attached /\ Starts(o, script) /\ UNCHANGED link

Attach ==
    /\ ~Attached
    /\ \E answers \in {~nrst, FALSE} : Starts("attach", AttachScript(answers))
    /\ link' = "ok"

Operate(o) == \E script \in Scripts(o) : Begin(o, script)

-----------------------------------------------------------------------------
(* A transfer *)

Throws(by) ==
    /\ ok' = FALSE /\ todo' = Cleanup(Head(todo).guard)
    /\ failed' = Failure(IF failed.by = "fault" THEN "fault" ELSE by,
                         IF ok THEN Head(todo).guard ELSE "cleanup")

Goes ==
    /\ todo' = Tail(todo)
    /\ UNCHANGED <<link, ok, failed, faults>>

\* A fatal error breaks the connection, and with it every later transfer.
Fails ==
    /\ faults < MaxFaults
    /\ faults' = faults + 1
    /\ \/ Throws("fault") /\ UNCHANGED link
       \/ ok' = FALSE /\ todo' = <<>> /\ failed' = Failure("fault", "link") /\ link' = "broken"

Rest == UNCHANGED <<op, before, undisturbed, ops, resets>>

\* The transfer has its effect, whether or not the driver hears of it.
Done == (Goes \/ Fails) /\ Rest

\* It has none.
Lost ==
    /\ todo # <<>> /\ link = "ok"
    /\ Fails /\ Rest /\ UNCHANGED cpu

\* What the driver finds makes it give up.
GivesUp ==
    /\ Throws("find")
    /\ UNCHANGED <<cpu, link, faults>> /\ Rest

Access == At("access") /\ Done /\ UNCHANGED cpu

WriteHalt ==
    /\ At("halt") /\ Done
    /\ core' = "halt" /\ masked' = FALSE
    /\ UNCHANGED <<catching, nrst>>

Mask ==
    /\ At("mask") /\ Done
    /\ core' = "halt" /\ masked' = TRUE
    /\ UNCHANGED <<catching, nrst>>

\* A step over an instruction that sleeps does not end.
Step ==
    /\ At("step") /\ Done
    /\ core' \in {"halt", "run"}
    /\ UNCHANGED <<masked, catching, nrst>>

Run ==
    /\ At("run") /\ Done
    /\ core' = "run" /\ masked' = FALSE
    /\ UNCHANGED <<catching, nrst>>

\* waitHalted, until it times out.
SeesHalted ==
    /\ At("halted")
    /\ \/ core = "halt" /\ Done /\ UNCHANGED cpu
       \/ core = "run" /\ GivesUp

\* The processor starts again, or is caught at the reset vector.
ResetCore ==
    /\ core' = IF catching THEN "halt" ELSE "run"
    /\ masked' = FALSE
    /\ UNCHANGED catching

ReleaseReset ==
    /\ At("high") /\ Done
    /\ nrst' = FALSE
    /\ UNCHANGED <<core, masked, catching>>

WriteCatch ==
    /\ At("catch") \/ At("uncatch")
    /\ Done
    /\ catching' = At("catch")
    /\ UNCHANGED <<core, masked, nrst>>

CortexInit ==
    /\ core = "run" /\ masked = FALSE /\ catching = FALSE /\ nrst = FALSE
    /\ link = "ok" /\ op = "none" /\ todo = <<>> /\ ok = TRUE
    /\ before = "run" /\ failed = Failure("none", "none") /\ undisturbed = TRUE
    /\ ops = 0 /\ faults = 0 /\ resets = 0

\* The transfers that only concern the processor; a reset is the flash's too.
CoreTransfer ==
    Access \/ WriteHalt \/ Mask \/ Step \/ Run \/ SeesHalted \/ WriteCatch
    \/ ReleaseReset

-----------------------------------------------------------------------------
(* Properties *)

\* What Probe takes an operation to be: Probe's variables but for the
\* processor do not matter to Perhaps.
AsOneStep ==
    INSTANCE Probe WITH
        Faults <- {"target"}, MaxEvents <- 0, core <- before, armed <- FALSE, astray <- FALSE,
        link <- TRUE, events <- <<>>, usbState <- "connected",
        coreState <- "unknown", poller <- "off", pollTimer <- FALSE,
        stray <- FALSE, mutex <- <<>>, wire <- <<>>

\* Whatever transfer of an operation fails, and with or without effect, the
\* processor ends as Probe's Halts, Starts and Refused have it, in one step:
\* also after an earlier operation that failed left masks or catches behind.
OneStep ==
    Ended /\ op \in AsOneStep!Ops /\ undisturbed =>
        core \in CASE ~ok -> AsOneStep!Perhaps(op)
                   [] ok /\ op \in AsOneStep!Halting -> {"halt"}
                   [] ok /\ op \in AsOneStep!Starting -> {"run"}
                   [] ok /\ op \in AsOneStep!Access -> {before}

\* Success means a clean processor, whatever earlier failures have left: after
\* a reset no later one is caught, and a processor that was started, stepped
\* or reset takes its interrupts.
CleanAfter ==
    Ended /\ ok =>
        /\ op \in {"resetHalt", "resetRun", "flash"} => ~catching
        /\ op \in Operations \ {"halt"} => ~masked

=============================================================================
