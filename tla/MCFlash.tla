------------------------------- MODULE MCFlash -------------------------------
(* Four sectors; files over two of them, overlapping out of order or with a gap *)
(* that makes an empty block, one not read back, one that leaves the window.    *)
EXTENDS Flash

MCSizes == <<1, 2, 1, 2>>
Segment(at, data) == [load |-> TRUE, at |-> at, data |-> data]
MCFiles ==
    {[headers |-> <<Segment(2, <<"a", "b">>), Segment(1, <<"a", "b">>)>>, verify |-> TRUE],
     [headers |-> <<[load |-> FALSE, at |-> 0, data |-> <<"b">>],
                    Segment(1, <<"ff">>), Segment(3, <<"a">>)>>, verify |-> TRUE],
     [headers |-> <<Segment(2, <<"b">>)>>, verify |-> FALSE],
     [headers |-> <<Segment(5, <<"b", "b">>)>>, verify |-> TRUE]}
MCRanges == [at : 0..3, n : 0..4] \cup {[at |-> 3, n |-> 14], [at |-> 4, n |-> 20]}
=============================================================================
