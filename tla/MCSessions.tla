----------------------------- MODULE MCSessions -----------------------------
(* Instances of the WebSocket sessions for TLC. *)
EXTENDS Sessions

CONSTANTS s1, s2, s3

\* Three sessions for two permits: one is refused or waits for its turn.
MCSessionSet == {s1, s2, s3}
=============================================================================
