-------------------------- MODULE BreakpointProofs --------------------------
(* Proofs about Breakpoints, for any number of comparators, any addresses   *)
(* and watchpoints, both revisions of the FPB.                              *)
EXTENDS Breakpoints, TLAPS

------------------------------------------------------------------------------
(* Addresses *)

LEMMA Halves ==
    ASSUME NEW n \in Nat \ {0}, n % 8 = 0
    PROVE  /\ n \div 2 \in Nat /\ n \div 8 \in Nat \ {0}
           /\ n \div 8 < n \div 2 /\ n \div 2 < n /\ n = 2 * (n \div 2)
  OBVIOUS

LEMMA EvenAddress ==
    \A a \in 0 .. AddrEnd - 1 : Even(a) \in 0 .. AddrEnd - 1
  BY BreakpointAssumption DEF Even

LEMMA SignedType ==
    \A a \in 0 .. AddrEnd - 1 : Signed(a) \in Int
  BY BreakpointAssumption DEF Signed

LEMMA SignedInjective ==
    \A a, b \in 0 .. AddrEnd - 1 : Signed(a) = Signed(b) => a = b
  BY BreakpointAssumption, Halves DEF Signed

LEMMA MaskedType == \A a \in Addr : Masked(a) \in Int /\ Masked(a) # None
  BY BreakpointAssumption, EvenAddress, SignedType DEF Masked

LEMMA ComparatorType ==
    \A a \in Int : Comparator(a) \in Nat /\ Comparator(a) # None
  <1> TAKE a \in Int
  <1>1. CodeEnd \in Nat \ {0}  BY BreakpointAssumption, Halves DEF CodeEnd
  <1>2. \A n \in Nat \ {0} : a % n \in Nat  OBVIOUS
  <1> QED  BY <1>1, <1>2, BreakpointAssumption DEF Comparator

LEMMA ComparatorExact ==
    ASSUME NEW e \in 0 .. AddrEnd - 1,
           Revision = 0 => e < AddrEnd \div 2 /\ Signed(e) < CodeEnd
    PROVE  Comparator(Signed(e)) = e
  <1>1. CASE Revision = 0
    <2>1. Signed(e) = e  BY <1>1, BreakpointAssumption, Halves DEF Signed
    <2>2. CodeEnd \in Nat \ {0}  BY BreakpointAssumption, Halves DEF CodeEnd
    <2>3. e \in 0 .. CodeEnd - 1  BY <1>1, <2>1, <2>2
    <2>4. \A n \in Nat \ {0} : e \in 0 .. n - 1 => e % n = e  OBVIOUS
    <2> QED  BY <1>1, <2>1, <2>2, <2>3, <2>4 DEF Comparator
  <1>2. CASE Revision = 1
    <2>1. \A n \in Nat \ {0} : e \in 0 .. n - 1 => e % n = e /\ (e - n) % n = e  OBVIOUS
    <2> QED  BY <1>2, <2>1, BreakpointAssumption DEF Comparator, Signed
  <1> QED  BY <1>1, <1>2, BreakpointAssumption

------------------------------------------------------------------------------
(* Types *)

Values == {Masked(a) : a \in {x \in Addr : UseHw(x)}}

LEMMA ValueType == \A v \in Values : v \in Int /\ v # None
  BY MaskedType DEF Values

LEMMA RamAddrType == \A e \in RamAddr : e \in Nat
  BY BreakpointAssumption, EvenAddress DEF RamAddr

LEMMA InitType == Init => TypeOK
  <1> HAVE Init
  <1>1. Armed \in [code : SUBSET CodeSlots, watch : SUBSET WatchSlots]  BY DEF Armed
  <1>2. hw \in [CodeSlots -> Values \cup {None}]  BY DEF Init
  <1> QED  BY <1>1, <1>2 DEF Init, TypeOK, Values

LEMMA SetCodeType == ASSUME TypeOK, NEW a \in Addr, SetCode(a) PROVE TypeOK'
  <1>1. Comparator(Masked(a)) \in Nat  BY MaskedType, ComparatorType
  <1> QED  BY <1>1 DEF SetCode, TypeOK, history, Asked, Answer, Refuse, tracked, target, FailsAt, UsbAfter, Lowest, FreeCode

LEMMA SetRamType == ASSUME TypeOK, NEW a \in Addr, SetRam(a) PROVE TypeOK'
  <1> DEFINE e == Even(a)
  <1>1. ram' \in {ram, [ram EXCEPT ![e] = "bkpt"]} /\ sw' \in {sw, [sw EXCEPT ![e] = ram[e]]}
    BY DEF SetRam, Refuse, Answer, tracked, target, FailsAt
  <1>2. ram' \in [RamAddr -> {"own", "bkpt"}]  BY <1>1 DEF TypeOK
  <1>3. sw' \in [RamAddr -> {"own", "bkpt", None}]  BY <1>1 DEF TypeOK
  <1>4. told' \subseteq {Even(x) : x \in Addr}  BY DEF SetRam, TypeOK
  <1>5. /\ ans' \in {"ok", "failed"} /\ usb' \in {usb, "error"}
        /\ UNCHANGED <<hw, wp, fpb, comp, trace, dwt, history>>
    BY DEF SetRam, Answer, tracked, target, FailsAt, UsbAfter
  <1> QED  BY <1>2, <1>3, <1>4, <1>5 DEF TypeOK, history

LEMMA ClearCodeType ==
    ASSUME TypeOK, NEW a \in Addr, NEW i \in CodeSlots, ClearCode(a, i) PROVE TypeOK'
  BY DEF ClearCode, TypeOK, history, Asked, Answer, FailsAt, UsbAfter

LEMMA ClearRamType == ASSUME TypeOK, NEW a \in Addr, ClearRam(a) PROVE TypeOK'
  BY DEF ClearRam, TypeOK, history, Asked, Answer, FailsAt, UsbAfter

LEMMA SetWatchType == ASSUME TypeOK, NEW w \in Watch, SetWatch(w) PROVE TypeOK'
  BY DEF SetWatch, TypeOK, history, Asked, Answer, Refuse, tracked, target, FailsAt, UsbAfter, Lowest, FreeWatch

LEMMA ClearWatchType == ASSUME TypeOK, NEW w \in Watch, ClearWatch(w) PROVE TypeOK'
  BY DEF ClearWatch, TypeOK, history, Asked, Answer, FailsAt, UsbAfter, Lowest

\* The registers, and what is tracked, after some or all of it is cleared.
LEMMA ClearedRegisters ==
    ASSUME TypeOK
    PROVE  \A k : /\ Cleared(hw, hw, k) \in [CodeSlots -> Values \cup {None}]
                  /\ Cleared(comp, hw, k) \in [CodeSlots -> Nat \cup {None}]
                  /\ Cleared(wp, wp, k) \in [WatchSlots -> Watch \cup {None}]
                  /\ Cleared(dwt, wp, k) \in [WatchSlots -> Watch \cup {None}]
  <1> TAKE k
  <1>1. /\ hw \in [CodeSlots -> Values \cup {None}]
        /\ comp \in [CodeSlots -> Nat \cup {None}]
        /\ wp \in [WatchSlots -> Watch \cup {None}]
        /\ dwt \in [WatchSlots -> Watch \cup {None}]
    BY DEF TypeOK, Values
  <1> QED  BY <1>1 DEF Cleared

LEMMA EmptyRegisters ==
    ASSUME TypeOK
    PROVE  /\ AllNone(hw) \in [CodeSlots -> Values \cup {None}]
           /\ AllNone(comp) \in [CodeSlots -> Nat \cup {None}]
           /\ AllNone(sw) \in [RamAddr -> {"own", "bkpt", None}]
           /\ AllNone(wp) \in [WatchSlots -> Watch \cup {None}]
           /\ AllNone(dwt) \in [WatchSlots -> Watch \cup {None}]
  BY DEF AllNone, TypeOK

\* What clearAll leaves behind, wherever it stops, has the types.
ClearedTypes ==
    /\ hw' \in [CodeSlots -> Values \cup {None}]
    /\ sw' \in [RamAddr -> {"own", "bkpt", None}]
    /\ wp' \in [WatchSlots -> Watch \cup {None}]
    /\ comp' \in [CodeSlots -> Nat \cup {None}]
    /\ dwt' \in [WatchSlots -> Watch \cup {None}]
    /\ ram' \in [RamAddr -> {"own", "bkpt"}]
    /\ fpb' \in BOOLEAN /\ trace' = trace

LEMMA ClearsCodeAndRamType ==
    ASSUME TypeOK, NEW lost, ClearsCodeAndRam(lost)
    PROVE  /\ hw' \in [CodeSlots -> Values \cup {None}]
           /\ sw' \in [RamAddr -> {"own", "bkpt", None}]
           /\ ram' \in [RamAddr -> {"own", "bkpt"}]
  BY EmptyRegisters DEF ClearsCodeAndRam, TypeOK

LEMMA ClearStopsType ==
    ASSUME TypeOK, NEW kind, ClearStops(kind) PROVE ClearedTypes
  <1>1. CASE \E k \in CodeSlots : StopsAtCode(k)
    <2>1. PICK k \in CodeSlots : StopsAtCode(k)  BY <1>1
    <2>2. hw' \in [CodeSlots -> Values \cup {None}] /\ comp' \in [CodeSlots -> Nat \cup {None}]
      BY <2>1, ClearedRegisters DEF StopsAtCode
    <2> QED  BY <2>1, <2>2 DEF StopsAtCode, ClearStops, ClearedTypes, TypeOK
  <1>2. CASE \E k \in WatchSlots : StopsAtWatch(k)
    <2>1. PICK k \in WatchSlots : StopsAtWatch(k)  BY <1>2
    <2>2. /\ wp' \in [WatchSlots -> Watch \cup {None}] /\ dwt' \in [WatchSlots -> Watch \cup {None}]
          /\ comp' \in [CodeSlots -> Nat \cup {None}]
      BY <2>1, ClearedRegisters DEF StopsAtWatch
    <2>3. PICK lost \in SUBSET Restorable : ClearsCodeAndRam(lost)  BY <2>1 DEF StopsAtWatch
    <2> QED  BY <2>2, <2>3, ClearsCodeAndRamType DEF ClearStops, ClearedTypes, TypeOK
  <1> QED  BY <1>1, <1>2 DEF ClearStops

\* The registers after a reset, which may lose them.
LEMMA ResetRegisters ==
    ASSUME NEW S, NEW V, NEW reg \in [S -> V \cup {None}], NEW lose \in BOOLEAN
    PROVE  AfterReset(lose, reg) \in [S -> V \cup {None}]
  BY DEF AfterReset, AllNone

LEMMA LossType == ASSUME NEW lose \in Losses PROVE lose \in BOOLEAN
  BY DEF Losses

LEMMA ClearReturnsType ==
    ASSUME TypeOK, NEW u, NEW lose \in BOOLEAN, ClearReturns(u, lose) PROVE ClearedTypes
  <1>1. PICK lost \in SUBSET Restorable : ClearsCodeAndRam(lost)  BY DEF ClearReturns
  <1>2. /\ Cleared(comp, hw, NumCode) \in [CodeSlots -> Nat \cup {None}]
        /\ Cleared(dwt, wp, NumWatch) \in [WatchSlots -> Watch \cup {None}]
    BY ClearedRegisters
  <1>3. comp' \in [CodeSlots -> Nat \cup {None}] /\ dwt' \in [WatchSlots -> Watch \cup {None}]
    BY <1>2, ResetRegisters DEF ClearReturns
  <1>4. wp' \in [WatchSlots -> Watch \cup {None}] /\ fpb' \in BOOLEAN /\ trace' = trace
    BY EmptyRegisters DEF ClearReturns, TypeOK
  <1> QED  BY <1>1, <1>3, <1>4, ClearsCodeAndRamType DEF ClearedTypes

LEMMA ClearAllType == ASSUME TypeOK, ClearAll PROVE TypeOK'
  <1>1. ClearedTypes  BY ClearStopsType, ClearReturnsType DEF ClearAll
  <1>2. /\ usb' \in {"absent", "connected", "broken", "leaving", "error"}
        /\ ans' \in {"cleared", "failed"} /\ told' = {} /\ UNCHANGED history
    BY DEF ClearAll, UsbAfter, TypeOK
  <1> QED  BY <1>1, <1>2 DEF ClearedTypes, TypeOK, Values, history

LEMMA FlashType == ASSUME TypeOK, Flash PROVE TypeOK'
  <1>1. ClearedTypes  BY ClearStopsType, ClearReturnsType, LossType DEF Flash
  <1>2. /\ usb' \in {"absent", "connected", "broken", "leaving", "error"}
        /\ ans' \in {"ok", "failed"} /\ told' = {} /\ left' = left
    BY DEF Flash, UsbAfter, TypeOK
  <1>3. lapsed' \in BOOLEAN  BY LossType DEF Flash, TypeOK
  <1> QED  BY <1>1, <1>2, <1>3 DEF ClearedTypes, TypeOK, Values

LEMMA DetachType == ASSUME TypeOK, Detach PROVE TypeOK'
  <1>1. ClearedTypes  BY ClearStopsType, ClearReturnsType DEF Detach
  <1> QED  BY <1>1 DEF Detach, ClearedTypes, TypeOK, Values, history

LEMMA ForgetsType ==
    ASSUME TypeOK, Forgets
    PROVE  /\ hw' \in [CodeSlots -> Values \cup {None}]
           /\ sw' \in [RamAddr -> {"own", "bkpt", None}]
           /\ wp' \in [WatchSlots -> Watch \cup {None}]
  BY EmptyRegisters DEF Forgets

LEMMA AttachType == ASSUME TypeOK, Attach PROVE TypeOK'
  <1>1. Armed \in [code : SUBSET CodeSlots, watch : SUBSET WatchSlots]  BY DEF Armed
  <1>2. Forgets  BY DEF Attach
  <1>3. fpb' \in BOOLEAN  BY DEF Attach, TypeOK
  <1>4. usb' \in {"connected", "error"} /\ ans' \in {"ok", "failed"} /\ left' = Armed
        /\ lapsed' = FALSE /\ told' = {} /\ UNCHANGED <<comp, trace, dwt, ram>>
    BY DEF Attach
  <1> QED  BY <1>1, <1>2, <1>3, <1>4, ForgetsType DEF TypeOK, Values

LEMMA UnplugType == ASSUME TypeOK, Unplug PROVE TypeOK'
  <1>1. Forgets  BY DEF Unplug
  <1>2. comp' \in [CodeSlots -> Nat \cup {None}] /\ dwt' \in [WatchSlots -> Watch \cup {None}]
    BY EmptyRegisters DEF Unplug
  <1> QED  BY <1>1, <1>2, ForgetsType DEF Unplug, TypeOK, Values

LEMMA DetachedType == ASSUME TypeOK, Detached PROVE TypeOK'
  <1>1. Forgets  BY DEF Detached
  <1> QED  BY <1>1, ForgetsType DEF Detached, target, history, TypeOK, Values

LEMMA WantedType == TypeOK => Wanted \in [CodeSlots -> Nat \cup {None}]
  BY ValueType, ComparatorType DEF Wanted, TypeOK, Values

LEMMA ReappliedRegisters ==
    ASSUME NEW S, NEW V, NEW reg \in [S -> V \cup {None}], NEW value \in [S -> V \cup {None}], NEW k
    PROVE  Reapplied(reg, value, k) \in [S -> V \cup {None}]
  BY DEF Reapplied

LEMMA ReappliesType ==
    ASSUME TypeOK, NEW lose \in BOOLEAN, NEW k, NEW d, Reapplies(lose, k, d)
    PROVE  /\ fpb' \in BOOLEAN /\ comp' \in [CodeSlots -> Nat \cup {None}]
           /\ dwt' \in [WatchSlots -> Watch \cup {None}]
  <1>1. /\ comp \in [CodeSlots -> Nat \cup {None}] /\ dwt \in [WatchSlots -> Watch \cup {None}]
        /\ wp \in [WatchSlots -> Watch \cup {None}]
    BY DEF TypeOK
  <1>2. /\ AfterReset(lose, comp) \in [CodeSlots -> Nat \cup {None}]
        /\ AfterReset(lose, dwt) \in [WatchSlots -> Watch \cup {None}]
    BY <1>1, ResetRegisters
  <1>3. Reapplied(AfterReset(lose, comp), Wanted, k) \in [CodeSlots -> Nat \cup {None}]
    BY <1>2, WantedType, ReappliedRegisters
  <1>4. Reapplied(AfterReset(lose, dwt), wp, d) \in [WatchSlots -> Watch \cup {None}]
    BY <1>1, <1>2, ReappliedRegisters
  <1> QED  BY <1>3, <1>4 DEF Reapplies

LEMMA ResetType == ASSUME TypeOK, Reset PROVE TypeOK'
  <1>1. PICK lose \in BOOLEAN :
          /\ \/ \E k, d : Reapplies(lose, k, d)
             \/ /\ fpb' = (fpb /\ ~lose)
                /\ comp' = AfterReset(lose, comp) /\ dwt' = AfterReset(lose, dwt)
          /\ lapsed' \in {FALSE, lapsed \/ lose}
    BY LossType DEF Reset
  <1>2. comp \in [CodeSlots -> Nat \cup {None}] /\ dwt \in [WatchSlots -> Watch \cup {None}]
    BY DEF TypeOK
  <1>3. /\ fpb' \in BOOLEAN /\ comp' \in [CodeSlots -> Nat \cup {None}]
        /\ dwt' \in [WatchSlots -> Watch \cup {None}]
    <2>1. CASE \E k, d : Reapplies(lose, k, d)  BY <2>1, ReappliesType
    <2>2. CASE /\ fpb' = (fpb /\ ~lose)
               /\ comp' = AfterReset(lose, comp) /\ dwt' = AfterReset(lose, dwt)
      <3>1. fpb' \in BOOLEAN  BY <2>2
      <3>2. comp' \in [CodeSlots -> Nat \cup {None}]  BY <1>2, <2>2, ResetRegisters
      <3>3. dwt' \in [WatchSlots -> Watch \cup {None}]  BY <1>2, <2>2, ResetRegisters
      <3> QED  BY <3>1, <3>2, <3>3
    <2> QED  BY <1>1, <2>1, <2>2
  <1>4. lapsed' \in BOOLEAN  BY <1>1 DEF TypeOK
  <1>5. /\ UNCHANGED <<tracked, trace, ram, told, left>>
        /\ usb' \in {usb, "error"} /\ ans' \in {"reset", "failed"}
    BY DEF Reset, ResetFails, UsbAfter
  <1> QED  BY <1>3, <1>4, <1>5 DEF tracked, TypeOK

LEMMA NextType == ASSUME TypeOK, [Next]_vars PROVE TypeOK'
  <1>1. CASE UNCHANGED vars  BY <1>1 DEF vars, tracked, target, history, TypeOK
  <1>2. CASE Noticed  BY <1>2 DEF Noticed, tracked, target, history, TypeOK
  <1> QED
    BY <1>1, <1>2, ClearAllType, FlashType, SetCodeType, SetRamType, ClearCodeType, ClearRamType, SetWatchType,
       ClearWatchType, ResetType, AttachType, DetachType, DetachedType, UnplugType DEF Next

\* Everything the unit tracks and everything the target holds keeps its type,
\* whatever fails: a code comparator is tracked for an address that was asked
\* for and that may use one.
THEOREM TypeCorrect == Spec => []TypeOK
  <1>1. Init => TypeOK  BY InitType
  <1>2. TypeOK /\ [Next]_vars => TypeOK'  BY NextType
  <1> QED  BY <1>1, <1>2, PTL DEF Spec

------------------------------------------------------------------------------
(* What is tracked is what is armed.  A transfer that fails and leaves the  *)
(* connection up ("stall") can break this; every other fault cannot.        *)

Steady == "stall" \notin Faults

Enabled == fpb \/ lapsed
CodeArmed == \A i \in CodeSlots : hw[i] # None => lapsed \/ comp[i] = Comparator(hw[i])
WatchArmed == \A i \in WatchSlots : wp[i] # None => trace /\ (lapsed \/ dwt[i] = wp[i])
RamArmed == \A e \in RamAddr : sw[e] # None => ram[e] = "bkpt"
CodeTracked == \A i \in CodeSlots \ left.code : comp[i] # None => hw[i] # None
WatchTracked == \A i \in WatchSlots \ left.watch : dwt[i] # None => wp[i] # None
ToldTracked ==
    \A e \in told : (e \in RamAddr /\ sw[e] # None) \/ \E i \in CodeSlots : hw[i] = Signed(e)

\* TrackedArmed and NoPhantom, and two facts they rest on: the FPB is enabled,
\* unless a reset that nothing reapplied after has lost it, and what the client was told is tracked.  Nothing holds of a connection that
\* is not up; what it leaves behind is "left" when a new unit is made.
Agreed ==
    Enabled /\ CodeArmed /\ WatchArmed /\ RamArmed /\ CodeTracked /\ WatchTracked /\ ToldTracked
InStep == usb = "connected" => Agreed

LEMMA ToldType ==
    TypeOK => \A e \in told : e \in 0 .. AddrEnd - 1 /\ Signed(e) # None
  BY BreakpointAssumption, EvenAddress, SignedType DEF TypeOK

LEMMA SetCodeAgrees ==
    ASSUME Steady, TypeOK, InStep, NEW a \in Addr, SetCode(a), usb' = "connected"
    PROVE  Agreed'
  <1>1. usb = "connected" /\ Agreed  BY DEF SetCode, Asked, InStep
  <1>2. Masked(a) # None /\ Masked(a) = Signed(Even(a))  BY MaskedType DEF Masked
  <1> DEFINE Arm(i) == /\ comp' = [comp EXCEPT ![i] = Comparator(Masked(a))]
                       /\ hw' = [hw EXCEPT ![i] = Masked(a)]
                       /\ told' = told \cup {Even(a)} /\ UNCHANGED <<left, lapsed>>
                       /\ UNCHANGED <<sw, wp, fpb, trace, dwt, ram>>
             Known == /\ \E i \in CodeSlots : hw[i] = Masked(a)
                      /\ told' = told \cup {Even(a)}
  <1>3. \/ UNCHANGED <<tracked, target, left, lapsed>> /\ (Known \/ told' = told)
        \/ \E i \in FreeCode : Arm(i)
    BY DEF SetCode, history, Refuse, Answer, Asked, FailsAt, UsbAfter, Steady, Lowest
  <1>4. CASE UNCHANGED <<tracked, target, left, lapsed>> /\ (Known \/ told' = told)
    <2>1. ToldTracked'  BY <1>1, <1>2, <1>4 DEF Agreed, Enabled, ToldTracked, tracked
    <2> QED
      BY <1>1, <1>4, <2>1 DEF Agreed, Enabled, CodeArmed, WatchArmed, RamArmed, CodeTracked, WatchTracked,
         tracked, target
  <1>5. ASSUME NEW i \in FreeCode, Arm(i) PROVE Agreed'
    <2>1. i \in CodeSlots /\ hw[i] = None  BY DEF FreeCode
    <2>2. /\ hw \in [CodeSlots -> Values \cup {None}]
          /\ comp \in [CodeSlots -> Nat \cup {None}]
      BY DEF TypeOK, Values
    <2>3. CodeArmed' /\ CodeTracked'
      BY <1>1, <1>2, <1>5, <2>1, <2>2 DEF Agreed, Enabled, CodeArmed, CodeTracked
    <2>4. ToldTracked'
      BY <1>1, <1>2, <1>5, <2>1, <2>2, ToldType DEF Agreed, Enabled, ToldTracked
    <2> QED  BY <1>1, <1>5, <2>3, <2>4 DEF Agreed, Enabled, WatchArmed, RamArmed, WatchTracked
  <1> QED  BY <1>3, <1>4, <1>5

\* A RAM breakpoint is tracked only once its BKPT is written.
LEMMA SetRamAgrees ==
    ASSUME Steady, TypeOK, InStep, NEW a \in Addr, SetRam(a), usb' = "connected"
    PROVE  Agreed'
  <1> DEFINE e == Even(a)
             Arm == /\ ram' = [ram EXCEPT ![e] = "bkpt"] /\ sw' = [sw EXCEPT ![e] = ram[e]]
                    /\ UNCHANGED <<hw, wp, fpb, comp, trace, dwt, left, lapsed>>
  <1>1. usb = "connected" /\ Agreed  BY DEF SetRam, Asked, InStep
  <1>2. e \in RamAddr
    <2>1. Even(a) \in 0 .. AddrEnd - 1 /\ a \in 0 .. AddrEnd - 1
      BY BreakpointAssumption, EvenAddress
    <2>2. Masked(a) >= CodeEnd /\ CodeEnd \in Nat
      BY <2>1, BreakpointAssumption, Halves, MaskedType DEF SetRam, UseHw, CodeEnd
    <2>3. Even(a) >= CodeEnd  BY <2>1, <2>2, BreakpointAssumption DEF Masked, Signed
    <2> QED  BY <2>3 DEF RamAddr, InRam
  <1>3. sw \in [RamAddr -> {"own", "bkpt", None}] /\ ram \in [RamAddr -> {"own", "bkpt"}]
    BY DEF TypeOK
  <1>4. /\ UNCHANGED <<tracked, target, left, lapsed>> \/ Arm
        /\ told' = told \/ (told' = told \cup {e} /\ sw'[e] # None)
    BY <1>2, <1>3, BreakpointAssumption
       DEF SetRam, history, Answer, Asked, FailsAt, UsbAfter, Steady, tracked, target
  <1>5. RamArmed' /\ \A x \in RamAddr : sw[x] # None => sw'[x] # None
    BY <1>1, <1>2, <1>3, <1>4, BreakpointAssumption DEF Agreed, Enabled, RamArmed, tracked, target
  <1>6. ToldTracked'
    BY <1>1, <1>2, <1>4, <1>5 DEF Agreed, Enabled, ToldTracked, tracked
  <1>7. UNCHANGED <<hw, wp, fpb, comp, trace, dwt, left, lapsed>>
    BY <1>4 DEF tracked, target
  <1> QED
    BY <1>1, <1>5, <1>6, <1>7 DEF Agreed, Enabled, CodeArmed, WatchArmed, CodeTracked, WatchTracked

LEMMA ClearCodeAgrees ==
    ASSUME Steady, TypeOK, InStep, NEW a \in Addr, NEW i \in CodeSlots, ClearCode(a, i),
           usb' = "connected"
    PROVE  Agreed'
  <1>1. usb = "connected" /\ Agreed  BY DEF ClearCode, Asked, InStep
  <1>2. /\ hw[i] = Masked(a)
        /\ comp' = [comp EXCEPT ![i] = None] /\ hw' = [hw EXCEPT ![i] = None]
        /\ told' = told \ {Even(a)} /\ UNCHANGED <<left, lapsed>>
        /\ UNCHANGED <<sw, wp, fpb, trace, dwt, ram>>
    BY DEF ClearCode, history, Answer, Asked, FailsAt, UsbAfter, Steady
  <1>3. hw \in [CodeSlots -> Values \cup {None}] /\ comp \in [CodeSlots -> Nat \cup {None}]
    BY DEF TypeOK, Values
  <1>4. CodeArmed' /\ CodeTracked'  BY <1>1, <1>2, <1>3 DEF Agreed, Enabled, CodeArmed, CodeTracked
  <1>5. ToldTracked'
    <2> SUFFICES ASSUME NEW e \in told, e # Even(a), ~ (e \in RamAddr /\ sw[e] # None)
                 PROVE  \E j \in CodeSlots : hw'[j] = Signed(e)
      BY <1>2 DEF ToldTracked
    <2>1. PICK j \in CodeSlots : hw[j] = Signed(e)  BY <1>1 DEF Agreed, Enabled, ToldTracked
    <2>2. e \in 0 .. AddrEnd - 1 /\ Even(a) \in 0 .. AddrEnd - 1
      BY ToldType, EvenAddress, BreakpointAssumption
    <2>3. Signed(e) # Masked(a)  BY <2>2, SignedInjective DEF Masked
    <2> QED  BY <1>2, <1>3, <2>1, <2>3
  <1> QED  BY <1>1, <1>2, <1>4, <1>5 DEF Agreed, Enabled, WatchArmed, RamArmed, WatchTracked

LEMMA ClearRamAgrees ==
    ASSUME Steady, TypeOK, InStep, NEW a \in Addr, ClearRam(a), usb' = "connected"
    PROVE  Agreed'
  <1> DEFINE e == Even(a)
             Restore == /\ ram' = [ram EXCEPT ![e] = sw[e]] /\ sw' = [sw EXCEPT ![e] = None]
                        /\ told' = told \ {e}
  <1>1. usb = "connected" /\ Agreed /\ e \in RamAddr  BY DEF ClearRam, Asked, InStep
  <1>2. /\ UNCHANGED <<hw, wp, fpb, comp, trace, dwt, left, lapsed>>
        /\ Restore \/ UNCHANGED <<sw, ram, told>>
    BY DEF ClearRam, history, Answer, Asked, FailsAt, UsbAfter, Steady
  <1>3. sw \in [RamAddr -> {"own", "bkpt", None}] /\ ram \in [RamAddr -> {"own", "bkpt"}]
    BY DEF TypeOK
  <1>4. RamArmed'  BY <1>1, <1>2, <1>3 DEF Agreed, Enabled, RamArmed
  <1>5. ToldTracked'  BY <1>1, <1>2, <1>3 DEF Agreed, Enabled, ToldTracked
  <1> QED
    BY <1>1, <1>2, <1>4, <1>5 DEF Agreed, Enabled, CodeArmed, WatchArmed, CodeTracked, WatchTracked

LEMMA SetWatchAgrees ==
    ASSUME Steady, TypeOK, InStep, NEW w \in Watch, SetWatch(w), usb' = "connected"
    PROVE  Agreed'
  <1> DEFINE Arm(i) == /\ trace' = TRUE
                       /\ dwt' = [dwt EXCEPT ![i] = w] /\ wp' = [wp EXCEPT ![i] = w]
  <1>1. usb = "connected" /\ Agreed  BY DEF SetWatch, Asked, InStep
  <1>2. /\ UNCHANGED <<hw, sw, fpb, comp, ram, told, left, lapsed>>
        /\ UNCHANGED <<wp, trace, dwt>> \/ \E i \in WatchSlots : Arm(i)
    BY DEF SetWatch, history, Refuse, Answer, Asked, FailsAt, UsbAfter, Steady, Lowest, FreeWatch,
       tracked, target
  <1>3. wp \in [WatchSlots -> Watch \cup {None}] /\ dwt \in [WatchSlots -> Watch \cup {None}]
    BY DEF TypeOK
  <1>4. WatchArmed' /\ WatchTracked'
    BY <1>1, <1>2, <1>3, BreakpointAssumption DEF Agreed, Enabled, WatchArmed, WatchTracked
  <1> QED  BY <1>1, <1>2, <1>4 DEF Agreed, Enabled, CodeArmed, RamArmed, CodeTracked, ToldTracked

LEMMA ClearWatchAgrees ==
    ASSUME Steady, TypeOK, InStep, NEW w \in Watch, ClearWatch(w), usb' = "connected"
    PROVE  Agreed'
  <1>1. usb = "connected" /\ Agreed  BY DEF ClearWatch, Asked, InStep
  <1>2. /\ UNCHANGED <<hw, sw, fpb, comp, trace, ram, told, left, lapsed>>
        /\ \E i \in WatchSlots : dwt' = [dwt EXCEPT ![i] = None] /\ wp' = [wp EXCEPT ![i] = None]
    BY DEF ClearWatch, history, Answer, Asked, FailsAt, UsbAfter, Steady, Lowest
  <1>3. wp \in [WatchSlots -> Watch \cup {None}] /\ dwt \in [WatchSlots -> Watch \cup {None}]
    BY DEF TypeOK
  <1>4. WatchArmed' /\ WatchTracked'
    BY <1>1, <1>2, <1>3 DEF Agreed, Enabled, WatchArmed, WatchTracked
  <1> QED  BY <1>1, <1>2, <1>4 DEF Agreed, Enabled, CodeArmed, RamArmed, CodeTracked, ToldTracked

\* clearAll that returns, and a reset after it, leave nothing armed but what
\* the driver does not know of.
LEMMA ClearReturnsAgrees ==
    ASSUME TypeOK, Agreed, NEW u, NEW lose \in BOOLEAN, ClearReturns(u, lose),
           told' = {}, left' = left, lapsed' = (lapsed \/ lose)
    PROVE  Agreed'
  <1>1. /\ hw' = AllNone(hw) /\ sw' = AllNone(sw) /\ wp' = AllNone(wp)
        /\ comp' = AfterReset(lose, Cleared(comp, hw, NumCode))
        /\ dwt' = AfterReset(lose, Cleared(dwt, wp, NumWatch))
        /\ fpb' = (fpb /\ ~lose) /\ trace' = trace
    BY DEF ClearReturns, ClearsCodeAndRam
  <1>2. /\ hw \in [CodeSlots -> Values \cup {None}] /\ comp \in [CodeSlots -> Nat \cup {None}]
        /\ wp \in [WatchSlots -> Watch \cup {None}] /\ dwt \in [WatchSlots -> Watch \cup {None}]
        /\ sw \in [RamAddr -> {"own", "bkpt", None}]
    BY DEF TypeOK, Values
  <1>3. /\ \A i \in CodeSlots : hw'[i] = None
        /\ \A i \in WatchSlots : wp'[i] = None
        /\ \A e \in RamAddr : sw'[e] = None
    BY <1>1, <1>2 DEF AllNone
  <1>4. \A i \in CodeSlots : comp'[i] # None => hw[i] = None /\ comp[i] # None
    BY <1>1, <1>2, BreakpointAssumption DEF AfterReset, AllNone, Cleared, CodeSlots
  <1>5. \A i \in WatchSlots : dwt'[i] # None => wp[i] = None /\ dwt[i] # None
    BY <1>1, <1>2, BreakpointAssumption DEF AfterReset, AllNone, Cleared, WatchSlots
  <1>6. CodeArmed' /\ CodeTracked'  BY <1>3, <1>4 DEF Agreed, CodeArmed, CodeTracked
  <1>7. WatchArmed' /\ WatchTracked'  BY <1>3, <1>5 DEF Agreed, WatchArmed, WatchTracked
  <1>8. RamArmed' /\ ToldTracked'  BY <1>3 DEF RamArmed, ToldTracked
  <1>9. Enabled'  BY <1>1 DEF Agreed, Enabled
  <1> QED  BY <1>6, <1>7, <1>8, <1>9 DEF Agreed

LEMMA ClearAllAgrees ==
    ASSUME Steady, TypeOK, InStep, ClearAll, usb' = "connected"
    PROVE  Agreed'
  <1>1. usb = "connected" /\ Agreed  BY DEF ClearAll, Asked, InStep
  <1>2. ClearReturns(usb', FALSE) /\ told' = {} /\ left' = left /\ lapsed' = lapsed
    BY DEF ClearAll, ClearStops, UsbAfter, Steady, history
  <1> QED  BY <1>1, <1>2, ClearReturnsAgrees DEF TypeOK

LEMMA FlashAgrees ==
    ASSUME Steady, TypeOK, InStep, Flash, usb' = "connected"
    PROVE  Agreed'
  <1>1. usb = "connected" /\ Agreed  BY DEF Flash, Asked, InStep
  <1>2. PICK lose \in Losses : ClearReturns(usb, lose) /\ lapsed' = (lapsed \/ lose)
    BY DEF Flash, ClearStops, UsbAfter, Steady
  <1>3. told' = {} /\ left' = left  BY DEF Flash
  <1> QED  BY <1>1, <1>2, <1>3, LossType, ClearReturnsAgrees

\* A new unit tracks nothing, and what is armed is left behind.
LEMMA AttachAgrees ==
    ASSUME TypeOK, Attach, usb' = "connected"
    PROVE  Agreed'
  <1>1. fpb' /\ told' = {} /\ left' = Armed /\ Forgets /\ UNCHANGED <<comp, trace, dwt, ram>>
    BY DEF Attach
  <1>2. /\ \A i \in CodeSlots : hw'[i] = None
        /\ \A i \in WatchSlots : wp'[i] = None
        /\ \A e \in RamAddr : sw'[e] = None
    BY <1>1 DEF Forgets, AllNone, TypeOK
  <1>3. /\ \A i \in CodeSlots \ left'.code : comp'[i] = None
        /\ \A i \in WatchSlots \ left'.watch : dwt'[i] = None
    BY <1>1 DEF Armed
  <1>4. CodeArmed' /\ CodeTracked'  BY <1>2, <1>3 DEF CodeArmed, CodeTracked
  <1>5. WatchArmed' /\ WatchTracked'  BY <1>2, <1>3 DEF WatchArmed, WatchTracked
  <1>6. RamArmed' /\ ToldTracked'  BY <1>1, <1>2 DEF RamArmed, ToldTracked
  <1> QED  BY <1>1, <1>4, <1>5, <1>6 DEF Agreed, Enabled

\* Whatever a reset clears, now or earlier, the writes after it restore all that
\* is tracked and arm nothing else.
LEMMA ReappliesAgrees ==
    ASSUME TypeOK, Agreed, NEW lose \in BOOLEAN, Reapplies(lose, NumCode, NumWatch),
           UNCHANGED <<hw, sw, wp, trace, ram, told, left>>
    PROVE  Agreed'
  <1>1. /\ hw \in [CodeSlots -> Values \cup {None}] /\ comp \in [CodeSlots -> Nat \cup {None}]
        /\ wp \in [WatchSlots -> Watch \cup {None}] /\ dwt \in [WatchSlots -> Watch \cup {None}]
    BY DEF TypeOK, Values
  <1>2. \A i \in CodeSlots : /\ hw[i] # None => Wanted[i] = Comparator(hw[i]) /\ Wanted[i] # None
                             /\ hw[i] = None => Wanted[i] = None
    BY <1>1, ValueType, ComparatorType DEF Wanted
  <1>3. \A i \in CodeSlots :
           comp'[i] = IF Wanted[i] # None THEN Wanted[i] ELSE IF lose THEN None ELSE comp[i]
    BY <1>1, BreakpointAssumption DEF Reapplies, AfterReset, Reapplied, AllNone, CodeSlots
  <1>4. \A i \in WatchSlots :
           dwt'[i] = IF wp[i] # None THEN wp[i] ELSE IF lose THEN None ELSE dwt[i]
    BY <1>1, BreakpointAssumption DEF Reapplies, AfterReset, Reapplied, AllNone, WatchSlots
  <1>5. CodeArmed' /\ CodeTracked'  BY <1>2, <1>3 DEF Agreed, CodeArmed, CodeTracked
  <1>6. WatchArmed' /\ WatchTracked'  BY <1>4 DEF Agreed, WatchArmed, WatchTracked
  <1>7. RamArmed' /\ ToldTracked'  BY DEF Agreed, RamArmed, ToldTracked
  <1>8. Enabled'  BY DEF Reapplies, Enabled
  <1> QED  BY <1>5, <1>6, <1>7, <1>8 DEF Agreed

\* A reset that fails before anything is reapplied disarms at most, and records
\* that it did.
LEMMA ResetAloneAgrees ==
    ASSUME TypeOK, Agreed, NEW lose \in BOOLEAN,
           fpb' = (fpb /\ ~lose), lapsed' = (lapsed \/ lose),
           comp' = AfterReset(lose, comp), dwt' = AfterReset(lose, dwt),
           UNCHANGED <<hw, sw, wp, trace, ram, told, left>>
    PROVE  Agreed'
  <1>1. comp \in [CodeSlots -> Nat \cup {None}] /\ dwt \in [WatchSlots -> Watch \cup {None}]
    BY DEF TypeOK
  <1>2. /\ \A i \in CodeSlots : comp'[i] = IF lose THEN None ELSE comp[i]
        /\ \A i \in WatchSlots : dwt'[i] = IF lose THEN None ELSE dwt[i]
    BY <1>1 DEF AfterReset, AllNone
  <1>3. CodeArmed' /\ CodeTracked'  BY <1>2 DEF Agreed, CodeArmed, CodeTracked
  <1>4. WatchArmed' /\ WatchTracked'  BY <1>2 DEF Agreed, WatchArmed, WatchTracked
  <1>5. RamArmed' /\ ToldTracked'  BY DEF Agreed, RamArmed, ToldTracked
  <1>6. Enabled'  BY DEF Agreed, Enabled
  <1> QED  BY <1>3, <1>4, <1>5, <1>6 DEF Agreed

LEMMA ResetAgrees ==
    ASSUME Steady, TypeOK, InStep, Reset, usb' = "connected"
    PROVE  Agreed'
  <1>1. usb = "connected" /\ Agreed  BY DEF Reset, Asked, InStep
  <1>2. UNCHANGED <<hw, sw, wp, trace, ram, told, left>>  BY DEF Reset, tracked
  <1>3. PICK lose \in BOOLEAN :
          \/ Reapplies(lose, NumCode, NumWatch)
          \/ /\ fpb' = (fpb /\ ~lose) /\ lapsed' = (lapsed \/ lose)
             /\ comp' = AfterReset(lose, comp) /\ dwt' = AfterReset(lose, dwt)
    BY LossType DEF Reset, ResetFails, Fails, UsbAfter, Steady
  <1> QED  BY <1>1, <1>2, <1>3, ReappliesAgrees, ResetAloneAgrees

LEMMA NextInStep ==
    ASSUME Steady, TypeOK, InStep, [Next]_vars
    PROVE  InStep'
  <1> SUFFICES ASSUME usb' = "connected" PROVE Agreed'
    BY DEF InStep
  <1>1. CASE UNCHANGED vars
    <2>1. UNCHANGED <<hw, sw, wp, comp, dwt, ram, told, left, lapsed>>
      BY <1>1 DEF vars, tracked, target, history
    <2>2. UNCHANGED <<fpb, trace, usb>>  BY <1>1 DEF vars, target
    <2>3. Agreed  BY <2>2 DEF InStep
    <2> QED
      BY <2>1, <2>2, <2>3 DEF Agreed, Enabled, CodeArmed, WatchArmed, RamArmed, CodeTracked, WatchTracked,
         ToldTracked
  <1>2. CASE ClearAll \/ Flash  BY <1>2, ClearAllAgrees, FlashAgrees
  <1>3. CASE Attach  BY <1>3, AttachAgrees
  <1>4. ~ (Detach \/ Detached \/ Noticed \/ Unplug)  BY DEF Detach, Detached, Noticed, Unplug
  <1> QED
    BY <1>1, <1>2, <1>3, <1>4, SetCodeAgrees, SetRamAgrees, ClearCodeAgrees, ClearRamAgrees,
       SetWatchAgrees, ClearWatchAgrees, ResetAgrees DEF Next

LEMMA AlwaysInStep ==
    ASSUME Steady PROVE Spec => [](TypeOK /\ InStep)
  <1>1. Init => TypeOK /\ InStep  BY InitType DEF Init, InStep
  <1>2. TypeOK /\ InStep /\ [Next]_vars => TypeOK' /\ InStep'
    BY NextType, NextInStep
  <1> QED  BY <1>1, <1>2, PTL DEF Spec

\* What the driver tracks is armed, through resets, refused accesses and
\* connections that break, for any number of comparators and any addresses -
\* unless a transfer fails and the connection stays, and, for the comparators,
\* until the next complete reset after one that lost the registers and was not
\* followed by reapply.
THEOREM TrackedArmedAlways ==
    ASSUME "stall" \notin Faults PROVE Spec => []TrackedArmed
  <1>1. Steady  BY DEF Steady
  <1>2. InStep => TrackedArmed
    BY DEF InStep, Agreed, Enabled, CodeArmed, WatchArmed, RamArmed, TrackedArmed
  <1> QED  BY <1>1, <1>2, AlwaysInStep, PTL

\* No comparator is armed that the driver has forgotten, but for those that a
\* broken connection left to the next.
THEOREM NoPhantomAlways ==
    ASSUME "stall" \notin Faults PROVE Spec => []NoPhantom
  <1>1. Steady  BY DEF Steady
  <1>2. InStep => NoPhantom
    BY DEF InStep, Agreed, CodeTracked, WatchTracked, NoPhantom
  <1> QED  BY <1>1, <1>2, AlwaysInStep, PTL

\* With a version 1 unit the upper half of the addresses is out of reach: there
\* an address is negative and is taken for one of code.
InReach == Revision = 0 => \A a \in Addr : a < AddrEnd \div 2

LEMMA ToldIsArmed ==
    ASSUME InReach, TypeOK, InStep PROVE ToldStops
  <1> SUFFICES ASSUME usb = "connected", ~lapsed, NEW e \in told,
                      ~ (e \in RamAddr /\ ram[e] = "bkpt")
               PROVE  fpb /\ \E i \in CodeSlots : comp[i] = e
    BY DEF ToldStops, ToldStop
  <1>1. Agreed  BY DEF InStep
  <1>2. PICK i \in CodeSlots : hw[i] = Signed(e)
    BY <1>1 DEF Agreed, ToldTracked, RamArmed
  <1>3. e \in 0 .. AddrEnd - 1 /\ Signed(e) # None  BY ToldType
  <1>4. comp[i] = Comparator(Signed(e))  BY <1>1, <1>2, <1>3 DEF Agreed, CodeArmed
  <1>5. PICK x \in Addr : UseHw(x) /\ Masked(x) = Signed(e)  BY <1>2, <1>3 DEF TypeOK
  <1>6. Revision = 0 => e < AddrEnd \div 2 /\ Signed(e) < CodeEnd
    <2>1. PICK y \in Addr : e = Even(y)  BY DEF TypeOK
    <2>2. Even(y) <= y  BY BreakpointAssumption DEF Even
    <2>3. AddrEnd \div 2 \in Int  BY BreakpointAssumption
    <2> QED  BY <1>3, <1>5, <2>1, <2>2, <2>3, BreakpointAssumption DEF InReach, UseHw
  <1> QED  BY <1>1, <1>3, <1>4, <1>6, ComparatorExact DEF Agreed, Enabled

\* The program stops at every breakpoint the client was told is set - but not
\* between a reset that lost the registers without being followed by reapply
\* and the next one that is followed by it.
THEOREM ToldStopsAlways ==
    ASSUME "stall" \notin Faults, Revision = 0 => \A a \in Addr : a < AddrEnd \div 2
    PROVE  Spec => []ToldStops
  <1>1. Steady /\ InReach  BY DEF Steady, InReach
  <1>2. TypeOK /\ InStep => ToldStops  BY <1>1, ToldIsArmed
  <1> QED  BY <1>1, <1>2, AlwaysInStep, PTL
=============================================================================
