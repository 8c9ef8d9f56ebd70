------------------------------- MODULE MCGdb -------------------------------
(* Small instances of GdbServer. *)
EXTENDS GdbServer
=============================================================================
