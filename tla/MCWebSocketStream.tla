------------------------- MODULE MCWebSocketStream -------------------------
(***************************************************************************)
(* WebSocketStream for TLC: a connection and the HTTP requests of one      *)
(* user, two replicas whose clocks differ by a tick.                       *)
(***************************************************************************)
EXTENDS WebSocketStream

CONSTANTS behind, ahead

MCSkew == [p \in Replicas |-> IF p = ahead THEN MaxSkew ELSE 0]
=============================================================================
