------------------------------- MODULE Streams -------------------------------
(***************************************************************************)
(* The byte streams of the bridge, which arrive cut anywhere: GDB's        *)
(* packets (rsp/packet.ts, feed of rsp/server.ts), and what the board      *)
(* prints, as lines and to those who wait for a text (board.ts).           *)
(*                                                                         *)
(* A behaviour is one stream, chunk by chunk.                              *)
(***************************************************************************)
EXTENDS Integers, Sequences, FiniteSets, SequencesExt

CONSTANTS
    Conversations,  \* what GDB sends: items [kind, payload]
    Outputs,        \* what the board prints: bytes
    Patterns,       \* what is waited for
    MaxChunk,       \* bytes of a chunk
    LineMax,        \* 4096: a longer line is told in pieces
    BufMax, BufKeep \* 65536, 32768: what a waiter remembers

ASSUME StreamsAssumption ==
    /\ {MaxChunk, LineMax, BufMax, BufKeep} \subseteq Nat \ {0}
    /\ \A p \in Patterns : p \in Seq(Range(p)) /\ Len(p) + MaxChunk <= BufKeep
    /\ BufKeep <= BufMax
    \* the two bytes of a character come one after the other
    /\ \A o \in Outputs :
          /\ o \in Seq(Range(o))
          /\ \A i \in DOMAIN o : o[i] = "u2" <=> i > 1 /\ o[i - 1] = "u1"

VARIABLES
    rest,      \* what is still to come
    parser,    \* PacketParser: state, buf, sum, csum
    items, acks, \* what feed has passed on, and answered at once
    printed,   \* the bytes the board has printed so far
    pending,   \* TextDecoder: the first byte of a character whose second is to come
    lineBuf, lines,
    waiters,   \* each pattern's: when it was registered, its buf, what came of it
    sent       \* ghost: what GDB means by its stream

gdb == <<parser, items, acks, sent>>
console == <<printed, pending, lineBuf, lines, waiters>>
vars == <<rest, gdb, console>>

-----------------------------------------------------------------------------
(* Packets *)

Dollar == 36
Hash == 35
Brace == 125
Star == 42
Special == {Hash, Dollar, Brace, Star}

Flip(b) == IF (b \div 32) % 2 = 1 THEN b - 32 ELSE b + 32
Digit(n) == IF n < 10 THEN 48 + n ELSE 87 + n
\* Digits of either case; other bytes do not come up as checksums here.
Value(d) == IF d \in 48..57 THEN d - 48
            ELSE IF d \in 97..102 THEN d - 87 ELSE IF d \in 65..70 THEN d - 55 ELSE 256
SumOf(bytes) == FoldLeft(LAMBDA sum, b : (sum + b) % 256, 0, bytes)

\* Mutant: a star, which means a run, goes out as it is.
EscapedStarless(payload) ==
    FlattenSeq([i \in DOMAIN payload |->
        IF payload[i] \in Special \ {Star} THEN <<Brace, Flip(payload[i])>> ELSE <<payload[i]>>])

Escaped(payload) ==
    FlattenSeq([i \in DOMAIN payload |->
        IF payload[i] \in Special THEN <<Brace, Flip(payload[i])>> ELSE <<payload[i]>>])

encodePacket(payload) ==
    LET body == Escaped(payload)  sum == SumOf(body)
    IN  <<Dollar>> \o body \o <<Hash, Digit(sum \div 16), Digit(sum % 16)>>

\* The escape and the run take the byte behind them; a last one stands for
\* itself, as does a run of nothing.
Unescapes(bytes, s, i) ==
    LET b == bytes[i]
    IN  IF s.skip THEN [out |-> s.out, skip |-> FALSE]
        ELSE IF b = Brace /\ i < Len(bytes)
             THEN [out |-> Append(s.out, Flip(bytes[i + 1])), skip |-> TRUE]
        ELSE IF b = Star /\ s.out # <<>> /\ i < Len(bytes)
             THEN [out |-> s.out \o [k \in 1..(bytes[i + 1] - 29) |-> Last(s.out)], skip |-> TRUE]
        ELSE [out |-> Append(s.out, b), skip |-> FALSE]

unescapePayload(bytes) ==
    LET Step(s, i) == Unescapes(bytes, s, i)
    IN  FoldLeft(Step, [out |-> <<>>, skip |-> FALSE], [i \in DOMAIN bytes |-> i]).out

Idle == [state |-> "idle", buf |-> <<>>, sum |-> 0, csum |-> 0]
Packet(payload, good) == [kind |-> "packet", payload |-> payload, good |-> good]
Item(kind) == [kind |-> kind, payload |-> <<>>, good |-> TRUE]
Signs == [b \in {43, 45, 3} |-> CASE b = 43 -> "ack" [] b = 45 -> "nack" [] b = 3 -> "interrupt"]

\* What the session does with an item: a packet that is damaged is asked for
\* again and goes no further, acks of GDB's are not heeded.
Heeds(s, item) ==
    CASE item.kind = "interrupt" -> [s EXCEPT !.items = Append(@, item)]
      [] item.kind = "packet" ->
           [s EXCEPT !.items = IF item.good THEN Append(@, item) ELSE @,
                     !.acks = Append(@, IF item.good THEN "+" ELSE "-")]
      [] item.kind \in {"ack", "nack"} -> s

\* One byte: what becomes of the parser, and of the item it makes.
Parses(s, b) ==
    LET p == s.parser
        Goes(q) == [s EXCEPT !.parser = q]
    IN  CASE p.state = "idle" ->
               IF b = Dollar THEN Goes([Idle EXCEPT !.state = "payload"])
               ELSE IF b \in DOMAIN Signs THEN Heeds(s, Item(Signs[b]))
               ELSE s
          [] p.state = "payload" ->
               IF b = Hash THEN Goes([p EXCEPT !.state = "csum1"])
               ELSE Goes([p EXCEPT !.buf = Append(@, b), !.sum = (@ + b) % 256])
          [] p.state = "csum1" -> Goes([p EXCEPT !.state = "csum2", !.csum = Value(b)])
          [] p.state = "csum2" ->
               Heeds(Goes(Idle), Packet(unescapePayload(p.buf), p.csum * 16 + Value(b) = p.sum))

Feed(bytes) == FoldLeft(Parses, [parser |-> parser, items |-> items, acks |-> acks], bytes)

FromGdb(bytes) ==
    /\ sent # <<>>
    /\ LET fed == Feed(bytes)
       IN  parser' = fed.parser /\ items' = fed.items /\ acks' = fed.acks
    /\ UNCHANGED <<sent, console>>

-----------------------------------------------------------------------------
(* What the board prints.  A character is one byte, or "u1" and "u2" together. *)

Decode(first, bytes) ==
    LET all == first \o bytes
    IN  [text |-> FlattenSeq([i \in DOMAIN all |->
                      CASE all[i] = "u1" -> <<>> [] all[i] = "u2" -> <<"u">> [] OTHER -> <<all[i]>>]),
         pending |-> IF Last(all) = "u1" THEN <<"u1">> ELSE <<>>]

Occurs(text, pattern) ==
    \E i \in 0..(Len(text) - Len(pattern)) : SubSeq(text, i + 1, i + Len(pattern)) = pattern
Chomp(line) == IF line # <<>> /\ Last(line) = "CR" THEN Front(line) ELSE line

\* The lines a text is made of, and what stands behind the last line's end.
SplitText(text) ==
    FoldLeft(LAMBDA s, ch : IF ch = "LF" THEN [told |-> Append(s.told, Chomp(s.rest)), rest |-> <<>>]
                            ELSE [s EXCEPT !.rest = Append(@, ch)],
             [told |-> <<>>, rest |-> <<>>], text)

\* Mutant: the buffer is cut before it is too long for a line.
TooLongEarly(buf) == Len(buf) >= LineMax

TooLong(buf) == Len(buf) > LineMax

\* Mutant: what is kept of a waiter's buffer is its beginning.
TrimmedHead(buf) == IF Len(buf) > BufMax THEN SubSeq(buf, 1, BufKeep) ELSE buf

Trimmed(buf) == IF Len(buf) > BufMax THEN SubSeq(buf, Len(buf) - BufKeep + 1, Len(buf)) ELSE buf

Hears(w, pattern, text) ==
    LET buf == Trimmed(w.buf \o text)
    IN  IF w.state # "waiting" THEN w
        ELSE [w EXCEPT !.buf = IF Occurs(buf, pattern) THEN <<>> ELSE buf,
                       !.state = IF Occurs(buf, pattern) THEN "matched" ELSE "waiting"]

onSerialChunk(bytes) ==
    /\ sent = <<>>
    /\ LET decoded == Decode(pending, bytes)
           split == SplitText(lineBuf \o decoded.text)
       IN  /\ pending' = decoded.pending
           /\ waiters' = [p \in Patterns |-> Hears(waiters[p], p, decoded.text)]
           /\ lineBuf' = IF TooLong(split.rest) THEN <<>> ELSE split.rest
           /\ lines' = lines \o split.told
                         \o (IF TooLong(split.rest) THEN <<split.rest>> ELSE <<>>)
    /\ printed' = printed \o bytes
    /\ UNCHANGED gdb

waitForSerial(p) ==
    /\ sent = <<>> /\ waiters[p].state = "none"
    /\ waiters' = [waiters EXCEPT ![p] = [state |-> "waiting", buf |-> <<>>, since |-> Len(printed)]]
    /\ UNCHANGED <<rest, gdb, printed, pending, lineBuf, lines>>

TimesOut(p) ==
    /\ waiters[p].state = "waiting"
    /\ waiters' = [waiters EXCEPT ![p].state = "null", ![p].buf = <<>>]
    /\ UNCHANGED <<rest, gdb, printed, pending, lineBuf, lines>>

-----------------------------------------------------------------------------

\* GDB's own encoding; "damaged" is a packet with a wrong checksum, "noise"
\* whatever else there is between packets.
Bytes(item) ==
    CASE item.kind = "packet" -> encodePacket(item.payload)
      [] item.kind = "damaged" -> <<Dollar>> \o item.payload \o <<Hash, 48, 48>>
      [] item.kind = "interrupt" -> <<3>>
      [] item.kind = "ack" -> <<43>>
      [] item.kind = "noise" -> item.payload

ASSUME ConversationsAssumption ==
    \A c \in Conversations :
        /\ c \in Seq(Range(c))
        /\ \A i \in DOMAIN c :
              LET payload == c[i].payload
              IN  /\ c[i].kind \in {"packet", "damaged", "interrupt", "ack", "noise"}
                  /\ payload \in Seq(0..255)
                  /\ c[i].kind = "interrupt" => payload = <<>>
                  /\ c[i].kind = "damaged" => Hash \notin Range(payload) /\ SumOf(payload) # 0
                  /\ c[i].kind = "noise" =>
                        payload # <<>> /\ Range(payload) \cap ({Dollar} \cup DOMAIN Signs) = {}

Init ==
    /\ \/ sent \in Conversations /\ rest = FlattenSeq([i \in DOMAIN sent |-> Bytes(sent[i])])
       \/ sent = <<>> /\ rest \in Outputs
    /\ parser = Idle /\ items = <<>> /\ acks = <<>>
    /\ printed = <<>> /\ pending = <<>> /\ lineBuf = <<>> /\ lines = <<>>
    /\ waiters = [p \in Patterns |-> [state |-> "none", buf |-> <<>>, since |-> 0]]

Chunk ==
    /\ rest # <<>>
    /\ \E n \in 1..(IF Len(rest) < MaxChunk THEN Len(rest) ELSE MaxChunk) :
          /\ rest' = SubSeq(rest, n + 1, Len(rest))
          /\ FromGdb(SubSeq(rest, 1, n)) \/ onSerialChunk(SubSeq(rest, 1, n))

Next == Chunk \/ \E p \in Patterns : waitForSerial(p) \/ TimesOut(p)

Spec == Init /\ [][Next]_vars

-----------------------------------------------------------------------------
(* Properties *)

\* Whatever its packets hold - the bytes that frame and escape among them -
\* and however the stream is cut, GDB's packets and interrupts are handled once
\* each, in order and as it meant them, a damaged one not at all; each packet
\* is answered once.
Those(s, kinds) == FlattenSeq([i \in DOMAIN s |-> IF s[i].kind \in kinds THEN <<s[i]>> ELSE <<>>])
Meant(s) == Those(s, {"packet", "interrupt"})
Packets(s) == Those(s, {"packet", "damaged"})
Same(item, meant) == item.kind = meant.kind /\ item.payload = meant.payload
ItemsRecovered ==
    /\ Len(items) <= Len(Meant(sent)) /\ Len(acks) <= Len(Packets(sent))
    /\ \A i \in DOMAIN items : Same(items[i], Meant(sent)[i])
    /\ \A i \in DOMAIN acks : acks[i] = "+" <=> Packets(sent)[i].kind = "packet"
    /\ rest = <<>> => Len(items) = Len(Meant(sent)) /\ Len(acks) = Len(Packets(sent))

\* What the lines say is what the board printed, all of it and in order; a line
\* that is not too long is told whole, without its end, wherever it was cut.
Text == Decode(<<>>, printed).text
Without(s, chars) == FlattenSeq([i \in DOMAIN s |-> IF s[i] \in chars THEN <<>> ELSE <<s[i]>>])
LinesRight ==
    printed # <<>> =>
        LET whole == SplitText(Text)
        IN  /\ Without(FlattenSeq(lines) \o lineBuf, {"CR"}) = Without(Text, {"CR", "LF"})
            /\ (\A i \in DOMAIN whole.told : Len(whole.told[i]) < LineMax) /\ Len(whole.rest) <= LineMax
               => lines = whole.told /\ lineBuf = whole.rest

\* Who waits for a text is told of it with the chunk that completes it, if it
\* came since then, however much came before it, and of nothing else.
WaitersTold ==
    \A p \in Patterns :
        LET w == waiters[p]
            since == SubSeq(printed, w.since + 1, Len(printed))
            came == since # <<>> /\ Occurs(Decode(<<>>, since).text, p)
        IN  /\ w.state = "waiting" => ~came
            /\ w.state = "matched" => came
=============================================================================
