------------------------------ MODULE MCBroker ------------------------------
(* Small instances of Broker for TLC. *)
EXTENDS Broker, TLC

\* Slugs, clients and ports are interchangeable; objects are not (the lowest
\* free identity is taken, by CHOOSE).
Symmetry == Permutations(Slugs) \cup Permutations(Clients) \cup Permutations(Ports)
=============================================================================
