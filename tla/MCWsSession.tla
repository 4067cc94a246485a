----------------------------- MODULE MCWsSession -----------------------------
(* An instance of WsSession for TLC.                                       *)
EXTENDS WsSession
=============================================================================
