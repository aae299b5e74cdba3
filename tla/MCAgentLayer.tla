---------------------------- MODULE MCAgentLayer ----------------------------
(* A small instance of AgentLayer for TLC: its constants are in the cfg. *)
EXTENDS AgentLayer
=============================================================================
