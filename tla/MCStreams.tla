------------------------------ MODULE MCStreams ------------------------------
(* Two packets with any three special bytes in them, and what may stand      *)
(* around them; texts of five to seven characters, two lines' worth.         *)
EXTENDS Streams

PacketOf(payload) == [kind |-> "packet", payload |-> payload]
Between == {<<>>, <<[kind |-> "interrupt", payload |-> <<>>]>>, <<[kind |-> "ack", payload |-> <<>>]>>,
            <<[kind |-> "noise", payload |-> <<35, 65>>]>>, <<[kind |-> "damaged", payload |-> <<65, 3>>]>>}
MCConversations ==
    {<<PacketOf(<<a, b, 40>>)>> \o between \o <<PacketOf(<<c>>)>> :
        a \in {35, 36, 42, 125, 3}, b \in {42, 125, 93}, c \in {36, 43, 200}, between \in Between}
MCOutputs ==
    [1..7 -> {"a", "LF"}] \cup [1..5 -> {"a", "CR", "LF"}]
    \cup {<<"b">> \o s : s \in [1..6 -> {"a", "b"}]}
    \cup {<<"a", "u1", "u2", "CR", "LF", "u1", "u2">>, <<"u1", "u2", "a", "b", "u1", "u2", "LF">>}
MCPatterns == {<<"a", "b">>, <<"u", "a">>}
=============================================================================
