--------------------------- MODULE MCBreakpoints ---------------------------
(* Small instances of Breakpoints: addresses below 128, of which those below *)
(* 16 are code.                                                              *)
EXTENDS Breakpoints

\* A word of code twice (its Thumb bit, its upper halfword), and two of RAM.
Locations == {4, 5, 6, 20, 22}

\* Two lengths at one address, an odd length, an unaligned one.
Watches == {[addr |-> 16, len |-> 1], [addr |-> 16, len |-> 4],
            [addr |-> 16, len |-> 3], [addr |-> 18, len |-> 4]}
=============================================================================
