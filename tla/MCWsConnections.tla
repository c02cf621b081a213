--------------------------- MODULE MCWsConnections ---------------------------
(* Small instances of WsConnections. *)
EXTENDS WsConnections, TLC

CONSTANTS c1, c2
=============================================================================
