----------------------------- MODULE MCWsServer -----------------------------
(* WsServer for TLC: two sessions that meet without messages, or one session *)
(* with two messages and a close that waits while somebody sends.            *)
EXTENDS WsServer

MCBudgets == {[sessions |-> 2, reads |-> 0, posted |-> 1],
              [sessions |-> 1, reads |-> 2, posted |-> 1]}
=============================================================================
