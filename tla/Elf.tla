--------------------------------- MODULE Elf ---------------------------------
(***************************************************************************)
(* From an ELF file's program headers to the image that is flashed         *)
(* (cads-board-bridge/src/elf.ts).  A header is [load, at, data]: whether  *)
(* it is PT_LOAD, its physical address, and what the file holds for it.    *)
(***************************************************************************)
EXTENDS Integers, Sequences, FiniteSetsExt, SequencesExt

\* The segments, by their places in the file.
Loaded(headers) == {i \in DOMAIN headers : headers[i].load /\ headers[i].data # <<>>}

Behind(s) == s.at + Len(s.data)
Covers(s, w) == w \in s.at..(Behind(s) - 1)

\* They are copied in the order of their addresses, and of the file for equal ones.
NotAfter(headers, j, i) ==
    headers[j].at < headers[i].at \/ (headers[j].at = headers[i].at /\ j <= i)

CopiedLast(headers, over) ==
    CHOOSE i \in over : \A j \in over : NotAfter(headers, j, i)

\* From the lowest byte to the highest one, 0xff in the gaps; where segments
\* overlap the one that is copied last wins.
ElfToImage(headers) ==
    LET start == Min({headers[i].at : i \in Loaded(headers)})
        end == Max({Behind(headers[i]) : i \in Loaded(headers)})
        Byte(w) ==
            LET over == {i \in Loaded(headers) : Covers(headers[i], w)}
                s == headers[CopiedLast(headers, over)]
            IN  IF over = {} THEN "ff" ELSE s.data[w - s.at + 1]
    IN  [at |-> start, img |-> [i \in 1..(end - start) |-> Byte(start + i - 1)]]
=============================================================================
