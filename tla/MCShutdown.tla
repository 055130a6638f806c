----------------------------- MODULE MCShutdown -----------------------------
(* Instances of the process for TLC. *)
EXTENDS Shutdown

\* Two relays share the log; one plain request runs beside them.
MCRelays == {"relay1", "relay2"}
MCRequests == {"request1"}
=============================================================================
