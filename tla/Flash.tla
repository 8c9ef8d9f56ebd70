-------------------------------- MODULE Flash --------------------------------
(***************************************************************************)
(* Flashing (cads-probe/src/driver/stm32fs.ts, flash of probe.ts) and      *)
(* memory access (readMem, writeMem of cortexm.ts), one USB transfer at a  *)
(* time, on the STM32's flash controller: the board may be reset at any    *)
(* time, and a transfer may fail anywhere and leave the controller as it   *)
(* is to the next attempt.                                                 *)
(*                                                                         *)
(* The flash is an array of words; Sizes are the sectors' of bank 1, the   *)
(* window.  Behind it lies bank 2, with the board's file system.           *)
(***************************************************************************)
EXTENDS CortexM, Elf

CONSTANTS
    Sizes,        \* words of each sector of bank 1 (eraseSizes)
    Bank2,        \* words behind the window
    MaxTransfer,  \* bytes of a memory transfer (STLINK_MAXIMUM_TRANSFER_SIZE)
    Files,        \* what is asked to be flashed, with headers and verify
    Ranges        \* what memory is asked to be read and written, with at and n

Sectors == 0..(Len(Sizes) - 1)
Start[s \in 0..Len(Sizes)] == IF s = 0 THEN 0 ELSE Start[s - 1] + Sizes[s]
Total == Start[Len(Sizes)]
Sector(s) == Start[s]..(Start[s] + Sizes[s + 1] - 1)
Window == 0..(Total - 1)
Words == 0..(Total + Bank2 - 1)

ASSUME FlashAssumption ==
    /\ Sizes \in Seq(Nat \ {0}) /\ Bank2 \in Nat
    /\ MaxTransfer \in Nat \ {0} /\ MaxTransfer % 4 = 0
    /\ Ranges \subseteq [at : Nat, n : Nat]
    /\ \A file \in Files :
          /\ file.verify \in BOOLEAN
          /\ file.headers \in Seq([load : BOOLEAN, at : Nat, data : Seq(STRING)])

VARIABLES
    cells,      \* what the flash holds: "ff" is erased, "mix" anything else
    cr,         \* FLASH_CR
    keys,       \* the unlock sequence: "none", "one" of two, "jammed" until a reset
    busy, err,  \* FLASH_SR: BSY, and the error bits, which stay
    seen,       \* what reading FLASH_CR returned
    req,        \* the request under way
    allowed,    \* ghost: the words of the sectors that any image asked for overlaps
    got,        \* the addresses read or written, in order
    status,     \* what the ST-Link says of the last memory transfer
    attempt

controller == <<cells, cr, keys, busy, err>>
memory == <<got, status, attempt>>
vars == <<cortexVars, controller, seen, req, allowed, memory>>

Locked == [lock |-> TRUE, pg |-> FALSE, ser |-> FALSE, snb |-> 0]

-----------------------------------------------------------------------------
(* What there is to do *)

\* sectorsFor.
Overlaps(s, at, n) == at < Start[s] + Sizes[s + 1] /\ at + n > Start[s]

\* At most Max at a time, of n from at on.
Blocks(do, at, n, max) ==
    [i \in 1..((n + max - 1) \div max) |->
        On(do, at + (i - 1) * max, IF i * max <= n THEN max ELSE n - (i - 1) * max)]

Block == MaxTransfer \div 4
Cut(r, t) == [i \in 1..t.n |-> r.img[t.at - r.at + i]]
Empty(s) == \A i \in DOMAIN s : s[i] = "ff"

\* Mutant: what an earlier, failed attempt latched stays latched.
UnlockSticky == HaltCore \o <<X("readCr"), X("key1"), X("key2"), X("unlocked")>>

Unlock ==
    HaltCore \o <<X("readCr"), X("key1"), X("key2"), X("unlocked"), X("clearSr")>>

EraseSector(s) ==
    <<X("readCr"), On("select", s, 1), X("readCr"), X("start"), X("busy")>>

\* One sector after the other.
Erase(r) ==
    FlattenSeq([s \in 1..Len(Sizes) |->
        IF Overlaps(s - 1, r.at, Len(r.img)) THEN EraseSector(s - 1) ELSE <<>>])

InitWrite == <<X("readCr"), X("psize"), X("readCr"), X("pg")>>

\* Blocks that are all 0xff need no programming after the erase.
Program(r) ==
    FlattenSeq([i \in DOMAIN Blocks("program", r.at, Len(r.img), Block) |->
        LET t == Blocks("program", r.at, Len(r.img), Block)[i]
        IN  IF Empty(Cut(r, t)) THEN <<>> ELSE <<t, X("busy")>>])
    \o <<X("readCr"), X("unpg")>>

\* Mutant: a last, shorter block is not read back.
VerifyWholeBlocks(r) ==
    IF r.verify
    THEN SelectSeq(Blocks("verify", r.at, Len(r.img), Block), LAMBDA t : t.n = Block)
    ELSE <<>>

Verify(r) ==
    IF r.verify THEN Blocks("verify", r.at, Len(r.img), Block) ELSE <<>>

\* Breakpoints and the voltage first; at the end the board is reset and halted.
FlashScript(r) ==
    <<X("access"), X("access")>> \o Unlock
    \o Under("lock", Erase(r) \o InitWrite \o Program(r) \o Verify(r))
    \o <<X("lock")>> \o ResetHalt \o <<X("access")>>

InWindow(r) == r.at \in Window /\ r.at + Len(r.img) - 1 \in Window

Flashes(r) ==
    /\ InWindow(r)
    /\ Begin("flash", FlashScript(r))
    /\ req' = r
    /\ allowed' = allowed \cup UNION {Sector(s) : s \in
          {s \in Sectors : \E i \in DOMAIN r.img : r.at + i - 1 \in Sector(s)}}
    /\ UNCHANGED <<controller, seen, memory>>

\* flashFile: a file without a loadable segment is refused before.
Flash(file) ==
    /\ Loaded(file.headers) # {}
    /\ LET image == ElfToImage(file.headers)
       IN  Flashes([at |-> image.at, img |-> image.img,
                    headers |-> file.headers, verify |-> file.verify])

\* Bytes up to the first word, words, and bytes behind the last one.
Head8(at, n) == IF at % 4 = 0 THEN 0 ELSE IF 4 - (at % 4) < n THEN 4 - (at % 4) ELSE n
Body32(at, n) == ((n - Head8(at, n)) \div 4) * 4

\* Mutant: an unaligned start is taken for a word's.
ChunksAligned(at, n) ==
    LET body == (n \div 4) * 4
    IN  Blocks("mem32", at, body, MaxTransfer) \o Blocks("mem8", at + body, n - body, 64)

Chunks(at, n) ==
    LET head == Head8(at, n)  body == Body32(at, n)
    IN  Blocks("mem8", at, head, 4)
        \o Blocks("mem32", at + head, body, MaxTransfer)
        \o Blocks("mem8", at + head + body, n - head - body, 64)

AccessScript(r) == IF r.n = 0 THEN <<>> ELSE Chunks(r.at, r.n) \o <<X("status")>>

AccessesMemory(o, r) ==
    /\ Begin(o, AccessScript(r))
    /\ req' = r /\ UNCHANGED allowed
    /\ got' = <<>> /\ attempt' = 0
    /\ UNCHANGED <<controller, seen, status>>

-----------------------------------------------------------------------------
(* The flash controller.  A reset interrupts what it is doing. *)

Erased(s, value) == [w \in Words |-> IF w \in Sector(s) THEN value ELSE cells[w]]

ResetFlash ==
    /\ cr' = Locked /\ keys' = "none" /\ busy' = FALSE /\ err' = FALSE
    /\ cells' = IF busy /\ cr.snb \in Sectors THEN Erased(cr.snb, "mix") ELSE cells

EraseEnds ==
    /\ busy
    /\ busy' = FALSE
    /\ cells' = IF cr.snb \in Sectors THEN Erased(cr.snb, "ff") ELSE cells
    /\ UNCHANGED <<cortexVars, cr, keys, err, seen, req, allowed, memory>>

\* The button, or a watchdog.
BoardResets ==
    /\ resets < MaxResets /\ resets' = resets + 1
    /\ ResetCore /\ ResetFlash
    /\ undisturbed' = FALSE /\ UNCHANGED nrst
    /\ UNCHANGED <<link, op, todo, ok, before, failed, ops, faults, seen, req, allowed, memory>>

WriteReset ==
    /\ At("reset") \/ At("low")
    /\ Done
    /\ ResetCore /\ ResetFlash
    /\ nrst' = (nrst \/ At("low"))
    /\ UNCHANGED <<seen, req, allowed, memory>>

ReadCr ==
    /\ At("readCr") /\ Done
    /\ seen' = cr
    /\ UNCHANGED <<cpu, controller, req, allowed, memory>>

\* Two keys, in this order, while it is locked; anything else jams it.
WriteKey(k) ==
    /\ At(k) /\ seen.lock /\ Done
    /\ IF k = "key2" /\ keys = "one"
       THEN keys' = "none" /\ cr' = [cr EXCEPT !.lock = FALSE]
       ELSE /\ keys' = IF k = "key1" /\ keys = "none" THEN "one" ELSE "jammed"
            /\ cr' = Locked
    /\ UNCHANGED <<cpu, cells, busy, err, seen, req, allowed, memory>>

NoKeyNeeded ==
    /\ At("key1") \/ At("key2")
    /\ ~seen.lock /\ Goes /\ Rest
    /\ UNCHANGED <<cpu, controller, seen, req, allowed, memory>>

Unlocked ==
    /\ At("unlocked")
    /\ \/ ~cr.lock /\ Done /\ UNCHANGED cpu
       \/ cr.lock /\ GivesUp
    /\ UNCHANGED <<controller, seen, req, allowed, memory>>

ClearSr ==
    /\ At("clearSr") /\ ~busy /\ Done
    /\ err' = FALSE
    /\ UNCHANGED <<cpu, cells, cr, keys, busy, seen, req, allowed, memory>>

\* FLASH_CR, written from what was read: it ignores the write while it is
\* locked, and stalls it while it is busy.
WriteCr(value) ==
    /\ ~busy /\ Done
    /\ cr' = IF cr.lock THEN cr ELSE value
    /\ UNCHANGED <<cpu, cells, keys, err, seen, req, allowed, memory>>

\* Mutant: the number of the sector before is not cleared (the bits add up).
SelectOver == At("select") /\ WriteCr([seen EXCEPT !.ser = TRUE, !.snb = @ + Head(todo).at])
              /\ UNCHANGED busy

Select == At("select") /\ WriteCr([seen EXCEPT !.ser = TRUE, !.snb = Head(todo).at])
          /\ UNCHANGED busy

StartErase ==
    /\ At("start") /\ WriteCr(seen)
    /\ busy' = (~cr.lock /\ seen.ser)

WriteBits ==
    /\ \/ At("psize") /\ WriteCr(seen)
       \/ At("pg") /\ WriteCr([seen EXCEPT !.pg = TRUE])
       \/ At("unpg") /\ WriteCr([seen EXCEPT !.pg = FALSE])
       \/ At("lock") /\ WriteCr(Locked)
    /\ UNCHANGED busy

\* waitBusy: while BSY is set it looks again, until its time is up.
WaitBusy ==
    /\ At("busy")
    /\ \/ ~busy /\ ~err /\ Done /\ UNCHANGED cpu
       \/ ~busy /\ err /\ GivesUp
       \/ busy /\ Fails /\ Rest /\ UNCHANGED cpu
    /\ UNCHANGED <<controller, seen, req, allowed, memory>>

\* Programming clears bits: only an erased word takes the value.
Programmed(old, new) == CASE new = "ff" -> old [] old = "ff" -> new [] OTHER -> "mix"

\* The ST-Link was refused the access, of which only its status tells, later or
\* - as after a block - never.
Unheard ==
    /\ faults < MaxFaults /\ faults' = faults + 1
    /\ failed' = Failure("fault", "none")
    /\ todo' = Tail(todo)
    /\ UNCHANGED <<link, ok>> /\ Rest

\* Some words of the block, if the transfer or the access fails.  Without PG it is an
\* error, which the program that a reset has started may have cleared.
ProgramBlock ==
    /\ At("program") /\ ~busy /\ (Done \/ Unheard)
    /\ LET t == Head(todo)
       IN  \E k \in 0..t.n :
              /\ k < t.n => faults' > faults
              /\ cells' = IF ~cr.pg THEN cells
                          ELSE [w \in Words |-> IF w \in t.at..(t.at + k - 1)
                                                THEN Programmed(cells[w], req.img[w - req.at + 1])
                                                ELSE cells[w]]
    /\ err' \in IF cr.pg THEN {err} ELSE {err, TRUE}
    /\ UNCHANGED <<cpu, cr, keys, busy, seen, req, allowed, memory>>

VerifyBlock ==
    /\ At("verify") /\ ~busy
    /\ LET t == Head(todo)
           same == \A w \in t.at..(t.at + t.n - 1) : cells[w] = req.img[w - req.at + 1]
       IN  IF same THEN Done /\ UNCHANGED cpu ELSE GivesUp
    /\ UNCHANGED <<controller, seen, req, allowed, memory>>

-----------------------------------------------------------------------------
(* Memory *)

\* The ST-Link moves words only from a word's address, and words only.
Unaligned(t) == t.do = "mem32" /\ (t.at % 4 # 0 \/ t.n % 4 # 0)

AccessMemory ==
    /\ At("mem8") \/ At("mem32")
    /\ IF Unaligned(Head(todo)) THEN GivesUp /\ UNCHANGED <<got, status>>
       ELSE /\ got' = got \o [i \in 1..Head(todo).n |-> Head(todo).at + i - 1]
            /\ \/ Done /\ status' = "good"
               \/ Unheard /\ status' = "bad"
            /\ UNCHANGED cpu
    /\ UNCHANGED <<controller, seen, req, allowed, attempt>>

\* A read is tried three times, from its start; a write is not.
Again == op = "read" /\ attempt < 2

CheckStatus ==
    /\ At("status")
    /\ \/ status = "good" /\ Done /\ UNCHANGED <<cpu, memory>>
       \/ status = "bad" /\ ~Again /\ GivesUp /\ UNCHANGED memory
       \/ /\ status = "bad" /\ Again
          /\ attempt' = attempt + 1 /\ got' = <<>>
          /\ todo' = AccessScript(req)
          /\ UNCHANGED <<cpu, link, ok, failed, faults, status>> /\ Rest
    /\ UNCHANGED <<controller, seen, req, allowed>>

-----------------------------------------------------------------------------

Init ==
    /\ CortexInit
    /\ cells = [w \in Words |-> "old"]
    /\ cr = Locked /\ keys = "none" /\ busy = FALSE /\ err = FALSE
    /\ seen = Locked /\ req = [at |-> 0, n |-> 0] /\ allowed = {}
    /\ got = <<>> /\ status = "good" /\ attempt = 0

Next ==
    \/ /\ (\E o \in Operations : Operate(o)) \/ Attach \/ CoreTransfer \/ Lost
       /\ UNCHANGED <<controller, seen, req, allowed, memory>>
    \/ \E file \in Files : Flash(file)
    \/ \E r \in Ranges, o \in {"read", "write"} : AccessesMemory(o, r)
    \/ WriteReset \/ ReadCr \/ (\E k \in {"key1", "key2"} : WriteKey(k)) \/ NoKeyNeeded
    \/ Unlocked \/ ClearSr \/ Select \/ StartErase \/ WriteBits
    \/ WaitBusy \/ ProgramBlock \/ VerifyBlock
    \/ AccessMemory \/ CheckStatus
    \/ EraseEnds \/ BoardResets

Spec == Init /\ [][Next]_vars

-----------------------------------------------------------------------------
(* Properties *)

\* A flash operation that reports success has put the file's segments there - where
\* they overlap, the one with the highest address, and of equal ones the last:
\* although the board may be reset between any two transfers - the controller then
\* ignores, without a word, what it is told - and the ST-Link be refused a write,
\* which nobody asks about, if the image is read back, and otherwise unless that happens.
FlashedRight ==
    Ended /\ ok /\ op = "flash" /\ (req.verify \/ Alone) =>
        LET h == req.headers
        IN  \A i \in Loaded(h) : \A w \in h[i].at..(Behind(h[i]) - 1) :
               (\A k \in Loaded(h) : Covers(h[k], w) => NotAfter(h, k, i)) =>
                   cells[w] = h[i].data[w - h[i].at + 1]

\* At every moment, whatever fails and is tried again, no word has changed
\* outside the sectors that an image asked for overlaps: above all not in
\* bank 2, nor in a sector selected before.
OthersKept == \A w \in Words \ allowed : cells[w] = "old"

\* Whatever goes wrong while the flash is erased, programmed and verified, the
\* `finally` leaves it locked, unless the transfer that does so fails too.
LeftLocked ==
    Ended /\ op = "flash" /\ (ok \/ failed.under = "lock") => cr.lock

\* Nothing that earlier operations have left behind - error bits, a flash
\* unlocked or erasing, PG set, a masked processor - makes a flash operation
\* fail in which nothing goes wrong; but half an unlock sequence does.
FreshStart ==
    Ended /\ op = "flash" /\ Alone /\ keys # "jammed" => ok

\* A read or write in which nothing goes wrong succeeds, and one that succeeds
\* has covered its range, byte by byte and in order, whatever its alignment
\* and however often it was begun again.
RangeCovered ==
    Ended /\ op \in {"read", "write"} =>
        /\ Alone => ok
        /\ ok => got = [i \in 1..req.n |-> req.at + i - 1]
=============================================================================
