--------------------------- MODULE MCHttpExchange ---------------------------
(* Instances of the HTTP exchanges for TLC. *)
EXTENDS HttpExchange

CONSTANTS r1, r2

\* Two requests for one permit: one is refused or waits for its turn.
MCPair == {r1, r2}
=============================================================================
