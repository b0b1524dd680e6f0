---------------------------- MODULE MCWsManager -----------------------------
(* An instance of WsManager for TLC. *)
EXTENDS WsManager, TLC

MCTasks == [fd : Fds, msg : Msgs, close : BOOLEAN]
=============================================================================
