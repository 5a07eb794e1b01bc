---------------------------- MODULE MCWsSession -----------------------------
(* Model-checking instance of WsSession.                                     *)
EXTENDS WsSession
=============================================================================
