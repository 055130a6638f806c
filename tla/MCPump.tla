------------------------------- MODULE MCPump -------------------------------
(* Instances of the pump for TLC. *)
EXTENDS Pump

\* A close frame of a peer with a code of its own.
MCPeerCloses == {[code |-> 4000, reason |-> "bye"]}
=============================================================================
